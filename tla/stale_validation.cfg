SPECIFICATION Spec
CONSTANTS
  w1 = w1
  w2 = w2
  Workers = {w1, w2}
  Calls = {"add", "update", "validate"}
  MaxItems = 1
  CrashAt = {}
INVARIANTS
  CheckedMeansGood
CHECK_DEADLOCK FALSE
