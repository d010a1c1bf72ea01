SPECIFICATION MCSpec
CONSTANTS
  MaxInflight = 1
  p1 = p1
  canary = canary
PROPERTIES FreshEvidence
CHECK_DEADLOCK FALSE
