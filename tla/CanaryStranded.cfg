SPECIFICATION FairSpec
CONSTANTS MaxInflight = 1

PROPERTIES ServesAgain
CHECK_DEADLOCK FALSE
