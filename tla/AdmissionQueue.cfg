SPECIFICATION AdmissionFairSpec
CONSTANTS
  big = big
  w1 = w1
  w2 = w2
  w3 = w3
  Waiters = {big, w1, w2}
  Groups = {g0, g1}
  NoGroup = NoGroup
  Unstable = {g1}
  Size <- MCSize
  Gate = 4
  Fill = FALSE
  ColdStart = TRUE
  Callers = {w1, w2, w3}
  Pairs = {g0}
  Drainable = {g0}
  Own <- MCOwn
  Idle <- MCIdle
  Slo = 5
  SafeSlack = 1
  BackfillSlack = 1
  MaxWait = 2
  HoldMax = 6
  Wall = 2
INVARIANTS NoResidue OneSignalPerRequest
PROPERTIES ServesLine FrontServed ServePromises
CHECK_DEADLOCK FALSE
