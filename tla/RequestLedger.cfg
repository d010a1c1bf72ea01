SPECIFICATION Spec
CONSTANTS
  r1 = r1
  r2 = r2
  r3 = r3
  Requests = {r1, r2, r3}
  Groups = {g0, g1}
  NoGroup = NoGroup
  Streams = {r1, r2}
  Exact = {r1}
  Tokens <- MCTokens
  Costs = {1, 3}
  Dynamic = TRUE
  MaxEpoch = 0
SYMMETRY Symmetry
INVARIANTS CountersExact SumsExact ParkedIdle
CHECK_DEADLOCK FALSE
