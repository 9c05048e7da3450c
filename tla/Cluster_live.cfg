\* No fault, and fair scheduling of both processes.
SPECIFICATION FairSpec
CONSTANTS
  Worker = w
  MaxJobs = 2
  MaxFaults = 0
PROPERTIES
  EndedRunEndsItsJob
  StoppedJobsRunEnds
CHECK_DEADLOCK FALSE
