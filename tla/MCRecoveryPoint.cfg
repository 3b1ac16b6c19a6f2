SPECIFICATION Spec
CONSTANTS
  Backup = {"b1", "b2"}
  Restore = {"r1", "r2"}
  Location = {1, 2}
  MaxAttempts = 2
  MaxClaims = 2
  TTL = 3
  None = None
  Scenarios <- MCScenarios
CHECK_DEADLOCK FALSE
INVARIANTS Published SharedWhileUsed Restored
PROPERTIES DeletionFinishes
