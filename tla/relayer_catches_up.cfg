SPECIFICATION RelaySpec
CONSTANTS
  Block = {b0, b1, b2, b3, b4}
  NoBlock = NoBlock
  Before = Before
  Time = {1}
  Byte = 4
  Width = 6
  Interval = 8
  EpochTime = 1
  FixedPoint = 4
  InitialTarget = 256
  HeaderTarget = {256}
  MedianPast = 3
  InitHeight = 0
  MaxHeight = 5
  MaxBatch = 2
  RelayBatchMax = 2
  Lookback = 6
  NoHeight = NoHeight
  MaxSwitches = 2
  MaxFaults = 1
PROPERTIES
  CatchesUp
