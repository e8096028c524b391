\* A stream and a buffered request compete for one lease; a call fails or the process dies.
CONSTANTS
  Requests = {r1, r2}
  Streams = {r1}
  Unmetered = {r2}
  Limit = 1
  Timeout = 1
  Slack = 1
  StreamBudget = 2
  LastArrival = 1
  MaxTime = 3
  MaxFaults = 1
SPECIFICATION Spec
CHECK_DEADLOCK FALSE
INVARIANTS LeasesWithinLimit OutcomesAreMetered AcceptedIsProtected DeadlinesAlign
PROPERTIES SlotsFollowOwners
