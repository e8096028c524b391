SPECIFICATION FairSpec
CONSTANTS
  Requests = {1, 2}
  Size <- Sizes
  Inexact = {1}
  MaxEvent = 2
  Overhead = 1
  AckFrame = 1
  Margin = 1
  MaxBytes = 14
  BatchSize = 1
  Faults = {"put", "ack"}
  MaxMishaps = 2
INVARIANTS
  AcceptedIndexed
PROPERTIES
  EventuallyMetered
CHECK_DEADLOCK FALSE
