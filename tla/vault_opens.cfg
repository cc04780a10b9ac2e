SPECIFICATION FairSpec
CONSTANTS
  LP = {l1, l2}
  MaxDeposits = 2
  MaxHeight = 3
  Window = 1
  MinConfs = 2
  MaxFaults = 1
CHECK_DEADLOCK FALSE
INVARIANTS
  OpensArePaidFor
  BoundToItsLp
  DepositNotOrphaned
PROPERTIES
  DepositsBecomeOpens
