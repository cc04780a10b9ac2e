SPECIFICATION Spec
CONSTANTS
  Chan = {c1, c2}
  MaxOuts = 3
  Delta = 6
  GapBlocks = 1
  MaxHeight = 7
  MaxSpends = 1
  MaxFaults = 1
SYMMETRY ChanSymmetry
CHECK_DEADLOCK FALSE
INVARIANTS
  RetireSparesTried
  NoExitOpens
  FreshHasExit
