SPECIFICATION Spec
CONSTANTS
  Commits = 2
  MaxChanges = 2
INVARIANTS ContractIsEmitted
CHECK_DEADLOCK FALSE
