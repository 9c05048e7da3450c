SPECIFICATION Spec
CONSTANTS
  Fields <- MCFields
  BatchFields <- MCBatchFields
  ZSetFields <- MCZSetFields
  RedisFields <- MCRedisFields
  Values <- MCValues
  Zero = "zero"
  Asks <- MCAsks
INVARIANTS
  OverridesReachTheWorker
  RunsDoNotLeak
  DialsTheTarget
  
