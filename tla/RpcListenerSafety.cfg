SPECIFICATION FairSpec
CONSTANTS
  m1 = m1
  m2 = m2
  c1 = c1
  c2 = c2
  Msgs <- TwoMsgs
  Channels <- TwoChans
  Prefetch = 1
  MaxRetries = 2
  MaxDoubts = 1
  Malformed <- NoMsgs
  Invalid <- Second
CHECK_DEADLOCK FALSE
INVARIANTS
  ExclusiveDelivery
  NoSilentLoss
  BoundedAttempts
  DeadLetterJustified
  DeadLetterOnce
 
PROPERTIES AtLeastOnceDelivery HealthySettles
