SPECIFICATION FairSpec
CONSTANTS
  Threads = {th1, th2}
  States = {"s1", "s2", "s3"}
  Unencodable = {"s3"}
  TaskIds = {"task1"}
  WorkerIds = {"worker1"}
  RowsOf <- MCRowsOf
  Names = {"n1"}
  Batches <- MCBatches
  None = None
  MaxCalls = 3
  MaxFaults = 2
CHECK_DEADLOCK FALSE
INVARIANT Isolated
PROPERTIES KeepsPorts CallsReturn
