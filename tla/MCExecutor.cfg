SPECIFICATION FairSpec
CONSTANTS
  Workers = {w1, w2}
  Clients = {c1}
  Owner = owner
  Handles = {h1, h2}
  NoHandle = none
  NoThread = free
  MaxSchedules = 2
  MaxShutdowns = 2
INVARIANTS TypeOK SinglePlace NoLostWakeup DrainBeforeExit
PROPERTIES ImplementsHandleQueue AcceptedIsResumed ShutdownReturns
