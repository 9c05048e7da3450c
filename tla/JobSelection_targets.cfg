\* Are the targets those of the most recent job?
SPECIFICATION SelectionSpec
CONSTANTS
  Workers = {w1}
  MaxJobs = 2
INVARIANT TargetsOfMostRecentJob
