SPECIFICATION Spec
CONSTANTS
  Requests = {1, 3, 4}
  Size <- Sizes
  Inexact = {}
  MaxEvent = 2
  Overhead = 1
  AckFrame = 1
  Margin = 1
  MaxBytes = 10
  BatchSize = 1
  Faults = {"power"}
  MaxMishaps = 2
INVARIANTS
  LogIsAuthoritative
  MeteredOnce
  SlotsSuffice
CHECK_DEADLOCK FALSE
