SPECIFICATION FairSpec
CONSTANTS
  AgentOrder <- MCAgents
  MaxCommands <- MCCommands

INVARIANTS StartsOnHealthy StopsInOrder NothingLeft StaysReset
PROPERTIES JobEnds
CHECK_DEADLOCK FALSE
