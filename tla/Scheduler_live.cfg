SPECIFICATION FairSpec
CONSTANTS
  Tasks = {t1, t2}
  Timed = {t2}
  Filtered = {}
  NoBackoff = {}
  Inadmissible = {}
  Quitting = {}
  Cancellable = {}
  Workers = {w1}
  InitialPool = {w1}
  Monitor = Monitor
  NoTask = NoTask
  Capacity = 0
  StoreFails = FALSE
  MayStop = TRUE
  Retried = {t1}
  RetryLimit = 1
  MaxRetries <- MCMaxRetries
CHECK_DEADLOCK FALSE
PROPERTIES EventuallyDone StopReturns
