SPECIFICATION FairSpec
CONSTANTS
  Swaps = 2
  Chan = {c1, c2}
  NoChan = NoChan
  MaxSplices = 2
  MaxFaults = 1
CHECK_DEADLOCK FALSE
INVARIANTS
  HandledIsSettled
  VisitPaysOnce
  CreditedToItsSwap
PROPERTIES
  EventuallyHandled
