CONSTANTS
  Procs = {"m", "n"}
  Txs = {"a", "b", "c"}
  Requests = {"q", "r"}
  Jobs <- MCJobs
  Pool = 2
  Spending <- MCSpending
SPECIFICATION FairSpec
CHECK_DEADLOCK FALSE
INVARIANTS NoReverseCycle GateSparesPool
PROPERTIES AllEnd
