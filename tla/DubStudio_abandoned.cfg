SPECIFICATION RestartedSpec
CONSTANTS
  p1 = p1
  p2 = p2
  none = none
  Projects <- MCProjects
  NoProject = none
  MaxJobs = 1
  QualityRetries = 0
  MaxCrashes = 1
  MaxFaults = 0
  MaxStops = 0
PROPERTY
  AbandonedJobsReturn
CHECK_DEADLOCK FALSE
