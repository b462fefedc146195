SPECIFICATION MCSpec
CONSTANTS
  mount = mount
  c1 = c1
  Scopes = {mount}
  References = {c1}
  Deadlines = {0, 1}
  Forces = {TRUE, FALSE}
  Delays = {1}
  MaxDelay = 1
  Aggregation = "all"
  PreListeners = 1
  CommittedListeners = 1
  ErrorListeners = 1
  MaxTimer = 3
  MaxRequests = 2
  MaxTime = 1
  EpochGap = 1
INVARIANTS InEpochOrder AnswerMatchesPlatform ReferenceOfLastPause ReportedOnce
PROPERTY EveryTransitionEnds
CHECK_DEADLOCK FALSE
