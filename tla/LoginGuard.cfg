SPECIFICATION Spec
CONSTANTS
  a1 = a1
  a2 = a2
  a3 = a3
  a4 = a4
  a5 = a5
  good = good
  w1 = w1
  w2 = w2
  NoAttempt = NoAttempt
  Attempts <- AllAttempts
  Right <- RightOnes
  Workers <- TwoWorkers
  MaxAttempts = 2
  MaxFaults = 1
SYMMETRY GuardSymmetry
CHECK_DEADLOCK FALSE
INVARIANTS FailureBound LimitBans WindowUnlessCut
PROPERTIES FreshStart
