SPECIFICATION FairSpec
CONSTANTS
  m1 = m1
  m2 = m2
  c1 = c1
  c2 = c2
  Msgs <- TwoMsgs
  Channels <- TwoChans
  Prefetch = 1
  MaxRetries = 2
  MaxDoubts = 1
  Malformed <- Second
  Invalid <- NoMsgs
CHECK_DEADLOCK FALSE
PROPERTIES MalformedDeadLettered
