SPECIFICATION Spec
CONSTANTS
  c1 = c1
  c2 = c2
  i1 = i1
  i2 = i2
  Calls = {c1, c2}
  Ids = {i1, i2}
  Scenarios <- UserScenarios
  MaxHeld = 2
  MaxControl = 0
INVARIANTS AnswersAreOwn
CHECK_DEADLOCK FALSE
