SPECIFICATION Spec
CONSTANTS
  Tasks = {t1, t2, t3}
  Timed = {t2}
  Filtered = {t1}
  NoBackoff = {}
  Inadmissible = {t3}
  Quitting = {t1}
  Cancellable = {t1}
  Workers = {w1, w2}
  InitialPool = {w1}
  Monitor = Monitor
  NoTask = NoTask
  Capacity = 1
  StoreFails = TRUE
  MayStop = TRUE
  Retried = {t1}
  RetryLimit = 1
  MaxRetries <- MCMaxRetries
CHECK_DEADLOCK FALSE
INVARIANTS IInv SinglePlace RetryBudget NoneForgotten
