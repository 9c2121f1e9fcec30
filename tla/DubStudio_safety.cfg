SPECIFICATION Spec
CONSTANTS
  p1 = p1
  p2 = p2
  none = none
  Projects <- MCProjects
  NoProject = none
  MaxJobs = 2
  QualityRetries = 1
  MaxCrashes = 2
  MaxFaults = 1
  MaxStops = 1
SYMMETRY ProjectSymmetry
CONSTRAINT OneKindOfTrouble
INVARIANTS
  TypeOK
  OneActiveJobPerProject
  OneTerminalEvent
  NoHalfCancelWhileServing
  RunnersServeStartedJobs
  OneSupervisedRunner
  LeaseNeverTaken
  ProjectShowsStartedJob
PROPERTIES
  VerdictsAreFinal
  ImplementsLifecycle
CHECK_DEADLOCK FALSE
