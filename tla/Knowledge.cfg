SPECIFICATION PartsSpec
CONSTANTS
  Workloads = {w1, w2}
  Writers = {t1, t2}
  Marks = {1, 2}
  MaxRevision = 3
  None = None
  a = a
  b = b
  c = c
  Configs = {a, b, c}
  SloOf <- MCSloOf
  Half = Half
  MaxFinished = 1
  MaxTables = 2
  Top = 3
  Theta = 8
  MinSamples = 3
  Seeds <- MCSeeds
  MaxOwn = 8
  MaxAll = 10
  AwaitEdges = {1}
  PromptEdges = {2}
  RiskSamples = 2
  MaxSamples = 2
  RiskTheta = 40
  Singles = 1
  Scans = 2
  Rates = 2
  MaxEnds = 2
  MaxTorn = 2
  MaxSample = 4
  Torn = Torn
  Bad = Bad
  TableClocks = {1, 2, 3}
  Lengths = {1, 2}
  Times = {100, 104, 120}
  Missing = Missing
  EpsPct = 5
  MaxEvents = 2
  Arrivals = 3
  MaxAsks = 2
INVARIANTS MemoryIsDisk NoLostUpdate SoundKnowledge ConclusionsBacked ResumesClean ChunkingIrrelevant RunAccounted
PROPERTIES OnlyImproves ForeignRiskKept
CHECK_DEADLOCK FALSE
