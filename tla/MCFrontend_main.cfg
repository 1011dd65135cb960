SPECIFICATION FairSpec
CONSTANTS
  c1 = c1
  c2 = c2
  i1 = i1
  i2 = i2
  Calls = {c1, c2}
  Ids = {i1, i2}
  Scenarios <- MainScenarios
  MaxHeld = 2
  MaxControl = 1
INVARIANTS TextsInOrder EndsRight ServedAreListening
PROPERTIES NoTextAfterEnd EveryCallEnds
CHECK_DEADLOCK FALSE
