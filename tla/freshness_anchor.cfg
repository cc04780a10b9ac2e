SPECIFICATION Spec
CONSTANTS
  Blob = {manager, monitor}
  Manager = manager
  MaxLag = 1
  MaxJump = 5
  MaxSeq = 4
  MaxBoots = 3
  MaxFails = 1
  MaxRestores = 1
CHECK_DEADLOCK FALSE
INVARIANTS
  AnchorNeverAheadOfDisk
  WindowBounded
PROPERTIES
  RollbackBounded
