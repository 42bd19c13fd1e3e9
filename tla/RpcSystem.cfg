SPECIFICATION SysFairSpec
CONSTANTS
  NoCall = NoCall
  Calls = {1}
  Ids = {1}
  IdOf <- DistinctIds
  MaxAnswers = 3
  c1 = c1
  c2 = c2
  Channels <- TwoChans
  Prefetch = 1
  MaxRetries = 2
  MaxDoubts = 1
  RpcTimeout = 2
  RetryDelay = 2
  Transit = 1
CHECK_DEADLOCK FALSE
INVARIANTS AnswersAreBounded NoStaleFuture RetriesAreLate
PROPERTIES ReplyReachesCaller ImplementsRemoteCall EveryCallEnds RequestsSettle
