\* Every operation that can be in flight: one of the first stage, two of the second.
SPECIFICATION FairSpec
CONSTANTS
  MinClients = 1
  MaxClients = 2
  StageLimit = 2
  Leaderboard = TRUE
  Ops = {o1, o2, o3}
CHECK_DEADLOCK FALSE
INVARIANTS
  SlotsMatchOperations
  CompletedMeansEveryStageRan
PROPERTIES
  OnlyWindDownAfterReturn
  RunEnds
  GoroutinesStop
