SPECIFICATION MCFairSpec
CONSTANTS
  Requests = {r1, r2, r3}
  Impatient = {r1, r2}
  DailyLimit = 1
  Days = 2
  MaxErrors = 1
  Crowded = TRUE
  Visits = 2
  Troubles = 1
  Projects = {p1, p2}
  Unreachable = {p2}
  Limit = 2
  MaxJobs = 2
  Milestones = 2
  MaxCrashes = 1
  MaxFaults = 1
INVARIANTS
  OverlapNeedsHandover
  LockExcludes
  RegistryEmptiesWhenIdle
  AdmissionTypeOK
  LimitHolds
  LedgerAgrees
  RequestTypeOK
  PairOrNothing
  SourceOrPair
  IdMeansPair
  NotifierTypeOK
  NoVerdictLost
  RepetitionsExplained
  EditsOwnCard
PROPERTIES
  EveryRequestEnds
  EveryVisitSettles
  VerdictsPassOthers
CHECK_DEADLOCK FALSE
