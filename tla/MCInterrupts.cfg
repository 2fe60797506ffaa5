SPECIFICATION FairSpec
CONSTANTS
  Process = {p1, p2}
  Masked = {p2}
  Devices = {0, 1, 8, 12}
  MaxDepth = 3
INVARIANTS
  NothingHeldUp
  OnlyHandledDelivered
  SuspendedInPit
PROPERTY
  EveryRequestDelivered
