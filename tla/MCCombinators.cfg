SPECIFICATION FairSpec
CONSTANTS
  Calls = {"a", "b"}
  Void = {"b"}
  ChildrenOf <- MCChildrenOf
  Pool = 3
  Racers = 3
  Spawns = 3
  MaxSuspends = 2
  Fds = {"f1"}
  Handles = {"h1", "h2"}
  NoHandle = "none"
INVARIANTS
  ReturnsAfterAll
  WakeupPending
  NoSleepOnWinner
  WaitCoversNestedSpawns
  WaitReportsFailure
  ScopeWaits
  OutcomeIsTasks
  ResumedOnce
  NobodyForgotten
  KernelAgrees
PROPERTIES
  WhenAllReturns
  ResultWrittenOnce
  SuccessEndsCall
  WaitEnds
  EndsWithTask
  DueIsResumed
  ShutdownReturns
