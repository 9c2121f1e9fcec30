SPECIFICATION Spec
CONSTANTS
  p1 = p1
  p2 = p2
  none = none
  Projects <- MCProjects
  NoProject = none
  MaxJobs = 2
  QualityRetries = 0
  MaxCrashes = 0
  MaxFaults = 1
  MaxStops = 0
INVARIANT
  OneHeavyJob
CHECK_DEADLOCK FALSE
