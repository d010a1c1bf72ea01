SPECIFICATION MCSpec
CONSTANTS
  MaxInflight = 2
  p1 = p1
  canary = canary
INVARIANTS ServesWithoutProbes NoExperimentInFullEffort
PROPERTIES CanaryComesBack FullEffortGetsCanary PressureSettles
CHECK_DEADLOCK FALSE
