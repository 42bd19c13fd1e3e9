SPECIFICATION Spec
CONSTANTS
  NoCall = NoCall
  Calls = {1, 2, 3}
  Ids = {1, 2, 3}
  MaxAnswers = 1
  IdOf <- RepeatedIds
CHECK_DEADLOCK FALSE
INVARIANTS OwnAnswer
