SPECIFICATION Spec
CONSTANTS
  w1 = w1
  w2 = w2
  Workers = {w1}
  Calls = {"add", "update", "remove", "validate", "submit", "patch", "delete"}
  MaxItems = 3
  CrashAt = {"add_write", "update_write", "remove_write", "validate_write", "validate_load", "validate_end", "submit_write", "patch", "delete"}
INVARIANTS
  TypeOK
  ValidatedIsSound
  SubmittedIsSound
PROPERTIES
  FrozenOnceSubmitted
  LegalTransitions
CHECK_DEADLOCK FALSE
