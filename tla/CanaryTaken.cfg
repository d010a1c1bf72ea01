SPECIFICATION Spec
CONSTANTS MaxInflight = 1

INVARIANTS ExperimentHoldsCanary
CHECK_DEADLOCK FALSE
