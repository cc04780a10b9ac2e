SPECIFICATION Spec
CONSTANTS
  Block = {b0, b1, b2, b3, b4, b5}
  NoBlock = NoBlock
  Before = Before
  Time = {12, 24}
  Byte = 8
  Width = 6
  Interval = 3
  EpochTime = 12
  FixedPoint = 1000
  InitialTarget = 32256
  HeaderTarget = {32256}
  MedianPast = 3
  InitHeight = 3
  MaxHeight = 7
  MaxBatch = 4
  MaxPassed = 60
SYMMETRY Symmetry
CHECK_DEADLOCK FALSE
INVARIANTS
  BatchIsSequence
  RequiredIsExpressible
  RequiredIsConsensusElsewhere
PROPERTIES
  ReportsHeaviestChain
