SPECIFICATION Spec
CONSTANTS
  Ops = {o1, o2}
  Base = 2
  KeySize = 1
  BatchSize = 3
  Bodies = {0}
  TopK = 1
  PerTag = 1
  FanIn = 0
  MaxHurt = 0
  MaxLate = 0
  Batches <- MCBatches
PROPERTY TrimKeepsTheTop
CHECK_DEADLOCK FALSE
