\* Failing calls and lost replies.
CONSTANTS
  Usages = {1, 2}
  Journalled = {1}
  Keyed = {1}
  Foreign = {}
  Poison = {}
  QueueCapacity = 1
  WorkerCount = 1
  Limit = 3
  MaxAttempts = 4
  MaxFaults = 1
  MaxRestarts = 1
SPECIFICATION Spec
INVARIANTS SettledIsCharged OnlyHopelessDie
PROPERTIES CompletedIsFinal ImplementsPromise
