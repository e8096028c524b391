CONSTANTS
  Callers = {c1, c2, c3}
  Kind = "calendar"
  Span = 2
  Amount = 1
  Limit = 1
  MaxClock = 3
SPECIFICATION QuotaFairSpec
CHECK_DEADLOCK FALSE
INVARIANTS NoOvershoot
PROPERTIES EveryCallAnswered
