SPECIFICATION Spec
CONSTANTS
  Requests = {r1, r2}
  Buckets = {1}
  Credit = Credit
  Granted <- OneBucketGrant
  BucketEnd <- OneBucketEnd
  Eligible <- AnyBucket
  Credits = {c1}
  Amounts = {1, 3}
  Modes = {"soft"}
  TTL = 1
  GapDelay = 1
  LastAdmission = 1
  MaxTime = 1
INVARIANTS
  NoOverdraft
  ReservedSnapshot
  BucketsNotOversold
  RowsFollowStatus
  ChargesExplainSpending
PROPERTIES
  ChargedOnce
SYMMETRY Alike
CHECK_DEADLOCK FALSE
