\* The two processes, with one fault at any point. The system stops when all
\* identifiers are drawn and all messages are dealt with.
SPECIFICATION Spec
CONSTANTS
  Worker = w
  MaxJobs = 2
  MaxFaults = 1
INVARIANTS
  ControllerWaits
  StartsRunningJobsOnly
  NoOrphanRun
PROPERTIES
  ImplementsController
  StopsItsOwnRun
CHECK_DEADLOCK FALSE
