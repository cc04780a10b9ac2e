SPECIFICATION Spec
CONSTANTS
  LP = {l1, l2}
  Outpoint = {o1, o2, o3}
  Key = {k1}
  Swap = {s1, s2}
  Deposit = {s1, s2}
  Deadline = {1, 2}
  NoLp = NoLp
  NoOutpoint = NoOutpoint
  NoKey = NoKey
  Checkpoint = {0}
  MaxSats = 1
  MaxUsd = 2
  MaxPoolUsd = 3
  MaxTransfer = 1
  MaxLadderRungs = 16
SYMMETRY Symmetry
CHECK_DEADLOCK FALSE
INVARIANTS
  SettledOnce
  ObligationsCovered
  ExitAlwaysRecordable
  
PROPERTIES
  KeepsSwapOuts
