\* Requests come at any time; the model knows how the clients behaved so far.
SPECIFICATION Spec
CONSTANTS
  Runs = {r1, r2, r3}
  Stops = {t1, t2}
  Jobs = {j1, j2}
  NoJob = NoJob
  NoRun = NoRun
SYMMETRY Symmetry
INVARIANTS
  ReportedJobWasAccepted
  RunningIsBacked
  RunningMeansRunning
  OneRunPerStop
  StopReachesRun
PROPERTIES
  CancelledMeansStopped
  EachRunReportsItsJob
