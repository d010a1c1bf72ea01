SPECIFICATION PointsSpec
CONSTANTS
  c1 = c1
  c2 = c2
  Calls = {c1, c2}
  Nobody = Nobody
  NoPoint = NoPoint
  HPoints <- MCH
  MaxPoint <- MCMax
  ParkPoint <- MCPark
  MaxQueue = 2
  PClocks = {1, 2}
  DClocks = {1, 2}
  Work <- MCWork
  Alpha <- MCAlpha
  Delta <- MCDelta
  Tokens = 10
  Running <- MCRunning
  PowerP <- MCPowerP
  PowerD <- MCPowerD
  ParkPower = 4
  Groups = 3
  MinGroups = 1
  Rates = {4, 11}
  Hold = 2
  MaxFails = 2
  None = None
SYMMETRY Symmetry
CONSTRAINT Observed
INVARIANTS SafeWithoutRivals FailuresRetried
PROPERTIES FailedRatesAvoided SavesWithinPeak NoFlapping
CHECK_DEADLOCK FALSE
