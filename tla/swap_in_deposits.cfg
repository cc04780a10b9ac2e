SPECIFICATION FairSpec
CONSTANTS
  MaxAddrs = 2
  MaxHeight = 7
  Window = 5
  Headroom = 2
  MinConfs = 2
  PassBlocks = 1
  GapBlocks = 2
  MaxNamed = 1
  MaxFaults = 2
CHECK_DEADLOCK FALSE
INVARIANTS
  ClaimedIsCredited
  PaidForInBitcoin
  EarlyDepositServed
PROPERTIES
  RegistryDrains
