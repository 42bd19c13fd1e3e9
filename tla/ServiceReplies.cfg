SPECIFICATION Spec
CONSTANTS
  NoConn = NoConn
  main = main
  w1 = w1
  l1 = l1
  l2 = l2
  Main <- main
  Tasks <- OneWorker
  Conns = {1, 2}
  Listeners <- OneListener
  HasRedis = TRUE
CHECK_DEADLOCK FALSE
INVARIANTS RepliesOnChannel
