SPECIFICATION Spec
CONSTANTS
  k1 = k1
  k2 = k2
  e1 = e1
  Conns <- TwoConns
  Events <- OneEvent
  PingInterval = 1
  IdleTimeout = 1
  MaxTime = 3
CHECK_DEADLOCK FALSE
INVARIANTS ReapedWasIdle
