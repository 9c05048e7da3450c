SPECIFICATION Spec
CONSTANTS
  Ops = {o1, o2}
  Base = 2
  KeySize = 1
  BatchSize = 3
  Bodies = {0, 1}
  TopK = 1
  PerTag = 2
  FanIn = 2
  MaxHurt = 1
  MaxLate = 1
  Batches <- MCBatches
SYMMETRY Symmetry
INVARIANTS
  BoundedBoards
  BoundedUnion
  NothingImmortal
  FullBatches
CHECK_DEADLOCK FALSE
