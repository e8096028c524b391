\* A row that can never be settled, a gap, and a restart.  A pass takes one row.
CONSTANTS
  Usages = {1, 2}
  Journalled = {1}
  Keyed = {1}
  Foreign = {1}
  Poison = {}
  QueueCapacity = 1
  WorkerCount = 1
  Limit = 1
  MaxAttempts = 2
  MaxFaults = 0
  MaxRestarts = 1
SPECIFICATION FairSpec
PROPERTIES RowsAreResolved KeepsPromise
