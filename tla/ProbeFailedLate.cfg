SPECIFICATION Spec
CONSTANTS
  r1 = r1
  r2 = r2
  r3 = r3
  Req <- MCReq
  Workers = 2
  AbortMin = 2
SYMMETRY Symmetry
INVARIANT FailedProbeIsData
