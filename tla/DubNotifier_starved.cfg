SPECIFICATION NotifierFairSpec
CONSTANTS
  Projects = {p1, p2}
  Unreachable = {p2}
  Limit = 2
  MaxJobs = 3
  Milestones = 1
  MaxCrashes = 0
  MaxFaults = 0
PROPERTY
  EveryVerdictIsAnnounced
CHECK_DEADLOCK FALSE
