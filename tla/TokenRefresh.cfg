SPECIFICATION FairSpec
CONSTANTS
  r1 = r1
  f1 = f1
  f2 = f2
  f3 = f3
  o1 = o1
  NoToken = NoToken
  Roots <- OneRoot
  Refreshes <- ThreeRefreshes
  Logouts <- OneLogout
  LoadOutcomes <- Raises
  MaxFaults = 0
CHECK_DEADLOCK FALSE
PROPERTIES RefreshIsAnswered
