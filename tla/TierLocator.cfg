SPECIFICATION LocatingFairSpec
CONSTANTS
  Probes = {r1, r2, r3}
  Workers = 2
  AbortMin = 2
  NP = 13
  ND = 4
  Worlds <- MCWorlds
  Plans <- MCPlans
  RampStart = 4
  RampMaxSteps = 6
  CoarsePoints = 3
  RefineSteps = 2
  FillTenths <- MCFill
  FillBisectSteps = 2
  DecodeStart = 4
  DecodeMax = 32
  MaxRuns = 2
INVARIANTS TargetMet NearOptimum EndsClean
PROPERTIES CapacityIsBest MeasuringEnds
CHECK_DEADLOCK FALSE
