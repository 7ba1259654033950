SPECIFICATION Spec
CONSTANTS
  Tasks = {t1, t2}
  Workers = {w1, w2}
  Monitor = Monitor
  Callers = {c1}
  None = None
  Nodes = {t1}
  Timed = {t1}
  Retried = {t1}
  MaxRetries = 1
  Exiting = {t2}
  Losable = {t2}
SYMMETRY MCSymmetry
CHECK_DEADLOCK FALSE
INVARIANTS CountersMatchLog OwnTrace SpansClosed
