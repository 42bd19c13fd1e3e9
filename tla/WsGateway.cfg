SPECIFICATION FairSpec
CONSTANTS
  k1 = k1
  k2 = k2
  e1 = e1
  Conns <- TwoConns
  Events <- OneEvent
  PingInterval = 2
  IdleTimeout = 1
  MaxTime = 2
CHECK_DEADLOCK FALSE
INVARIANTS RegistryMatchesSockets BroadcastReaches
PROPERTIES DeadEntriesGo CastsEnd
