SPECIFICATION Spec
CONSTANTS
  Tasks = {t1, t2}
  Timed = {}
  Filtered = {t1}
  NoBackoff = {t2}
  Inadmissible = {}
  Quitting = {t2}
  Cancellable = {t2}
  Workers = {w1, w2}
  InitialPool = {w1, w2}
  Monitor = Monitor
  NoTask = NoTask
  Capacity = 0
  StoreFails = FALSE
  MayStop = TRUE
  Retried = {t1, t2}
  RetryLimit = 1
  MaxRetries <- MCMaxRetries
CHECK_DEADLOCK FALSE
SYMMETRY MCSymmetry
INVARIANTS NothingDropped MetricsAgree GracefulStop
PROPERTY KeepsLifecycle
