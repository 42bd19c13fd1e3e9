SPECIFICATION SessionFairSpec
CONSTANTS
  r1 = r1
  f1 = f1
  f2 = f2
  f3 = f3
  o1 = o1
  q1 = q1
  q2 = q2
  q3 = q3
  NoToken = NoToken
  Roots <- OneRoot
  Refreshes <- ThreeRefreshes
  Logouts <- OneLogout
  LoadOutcomes <- Either
  MaxFaults = 1
  Requests <- ThreeRequests
  RequestOf <- Deliveries
  MayShare <- OneShared
CHECK_DEADLOCK FALSE
INVARIANTS AnswersHold RefusalIsReal LogoutIsDone SessionSurvives SessionIsKept
PROPERTIES SpentIsRefused HandlersEnd AtomicChanges
