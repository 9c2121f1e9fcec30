SPECIFICATION NotifierSpec
CONSTANTS
  Projects = {p1}
  Unreachable = {}
  Limit = 20
  MaxJobs = 2
  Milestones = 4
  MaxCrashes = 0
  MaxFaults = 1
PROPERTY
  FinalCardStays
CHECK_DEADLOCK FALSE
