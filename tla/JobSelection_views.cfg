\* Requests that change the jobs and requests that read them, fairly scheduled.
SPECIFICATION SelectionFairSpec
CONSTANTS
  Workers = {w1}
  MaxJobs = 2
INVARIANT SteadyJobIsShown
PROPERTIES
  RequestsAreAnswered
  ReadsAreAnswered
