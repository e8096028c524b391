\* One subscription through two renewals, with a lagging process.
CONSTANTS
  Subs = {1}
  Period = 1
  Grant = 2
  Cap = 1
  CarryFor = 2
  Skew = 1
  MaxTime = 3
SPECIFICATION FairSpec
CHECK_DEADLOCK FALSE
INVARIANTS CarriedOnce BucketsFollow
PROPERTIES DueIsProcessed
