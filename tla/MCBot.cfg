SPECIFICATION MCFairSpec
CONSTANTS
  Workers = {w1, w2, w3}
  NoFile = NoFile
  Attempts = 3
  SerialStarts = TRUE
  Bots = {b1, b2}
  NoBot = NoBot
  Starts = 2
  Rounds = 2
  Patience = 1
  Routed = {q}
  Analyses = {a}
  Keys = 3
  OneProject = {0, 1}
  MaxSlots = 2
  Budget = 2
  Users = {u1}
  Deferred = deferred
  Artifacts = 2
  Prints = {x, y}
  NoPrint = NoPrint
  Windows = 3
  Text <- MCText
  LongSection = 1
  Room = 8
  Posts = 2
  Calls = 2
  MaxTroubles = 3
  Projects = {p1}
  NoProject = none
  MaxJobs = 2
  QualityRetries = 1
  MaxCrashes = 1
  MaxFaults = 1
  MaxStops = 0
INVARIANTS
  MCTypeOK
  HolderIsVisible
  OnePoller
  NoRetryStorm
  SentAtMostOnce
  NoParagraphLost
  LinksReadTheText
PROPERTIES
  StaleLockIsTakenOver
  EveryStartSettles
  EveryRequestAnswered
  CallsRespectCapacity
  DeferredJobSettles
  WorkerSettlesItsJobs
CHECK_DEADLOCK FALSE
