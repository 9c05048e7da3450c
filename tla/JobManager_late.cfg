SPECIFICATION Spec
CONSTANTS
  Workers = {w1, w2}
  MaxJobs = 2
SYMMETRY Symmetry
INVARIANTS
  SingleRunningJob
  NoLeakedWorker
  RunningJobAwaitsReport
  EndedMeansClosed
PROPERTIES
  ImplementsLifecycle
  TerminalIsFinal
  FreedOnlyWhenDone
