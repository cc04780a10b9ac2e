SPECIFICATION FairSpec
CONSTANTS
  Amounts = {1, 2}
  Opening = 1
  MaxTxs = 3
  MaxFaults = 1
CHECK_DEADLOCK FALSE
INVARIANTS
  RecordNeverAhead
PROPERTIES
  MirrorCatchesUp
