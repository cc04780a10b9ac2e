SPECIFICATION Spec
CONSTANTS
  LP = {l1, l2}
  Outpoint = {o1, o2, o3, o4}
  Key = {k1, k2}
  Swap = {}
  Deposit = {}
  Deadline = {1, 2}
  NoLp = NoLp
  NoOutpoint = NoOutpoint
  NoKey = NoKey
  Checkpoint = {0, 1}
  MaxSats = 2
  MaxUsd = 1
  MaxPoolUsd = 0
  MaxTransfer = 0
  MaxLadderRungs = 16
SYMMETRY Symmetry
CHECK_DEADLOCK FALSE
INVARIANTS
  LockedIsSumOfOpen
  OutpointBacksOneChannel
  UnknownChannelUntouched
  OpenChannelHasLadder
  LockedSatsAreClaimed
PROPERTIES
  KeepsChannels
  CheckpointRisesOnOutpoint
