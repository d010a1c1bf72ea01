SPECIFICATION FairSpec
CONSTANTS
  r1 = r1
  r2 = r2
  r3 = r3
  Requests = {r1}
  Groups = {g0, g1}
  NoGroup = NoGroup
  Streams = {r1}
  Exact = {r1}
  Tokens <- MCTokens
  Costs = {1}
  Dynamic = TRUE
  MaxEpoch = 2

INVARIANT NoSampleAcrossChange
PROPERTIES EventuallyReleased DrainEnds
CHECK_DEADLOCK FALSE
