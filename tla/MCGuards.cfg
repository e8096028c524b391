SPECIFICATION FairSpec
CONSTANTS
  c1 = c1
  c2 = c2
  r1 = r1
  r2 = r2
  Requests = {r1, r2}
  Tracked = {r1, r2}
  Candidates <- TwoChannels
  Limit <- LimitedThenFree
  MaxErrors = 2
  SameRetries = 1
  ChannelRetries = 1
  Modes <- StreamsThenPlain
  Drops = TRUE
INVARIANTS WithinLimit
PROPERTIES SlotsGivenBack ProbeHandedBack EveryRequestEnds
