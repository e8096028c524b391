SPECIFICATION FairSpec
CONSTANTS
  Requests = {r1}
  Buckets = {1, 2}
  Credit = Credit
  Granted <- TwoBucketGrants
  BucketEnd <- TwoBucketEnds
  Eligible <- AnyBucket
  Credits = {c1}
  Amounts = {0, 1, 2, 4}
  Modes = {"shadow", "soft", "hard"}
  TTL = 1
  GapDelay = 1
  LastAdmission = 1
  MaxTime = 2
PROPERTIES
  HoldCoversEstimate
  HoldsEventuallyClose
  DrainingEventuallyExpires
CHECK_DEADLOCK FALSE
