SPECIFICATION Spec
CONSTANTS
  Tasks = {t1, t2}
  Submitted = {t1}
  Delayed = {t2}
  Retried = {t2}
  MaxRetries = 2
  ZeroDelays = {2}
  Workers = {w1}
  StreamLimit = 6
  MaxTies = 2
  MaxSaves = 1
  MayCancel = TRUE
  Losable = {t1}
  None = None
INVARIANTS QueueSurvives StatusSurvives DelayedSurvives SnapshotAgrees
CHECK_DEADLOCK FALSE
