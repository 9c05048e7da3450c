SPECIFICATION Spec
CONSTANTS
  Workers = {w1}
  MaxJobs = 2
PROPERTY StoppedJobStaysStopped
