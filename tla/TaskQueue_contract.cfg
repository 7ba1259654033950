SPECIFICATION Spec
CONSTANTS
  Ids = {t1, t2, t3}
  Attrs = {Missing, Malformed, 1, 2}
  Missing = Missing
  Malformed = Malformed
  None = None
  Raised = Raised
  Infinity = 100
  Policies = {"fifo", "priority", "deadline"}
  MaxSize = 2
  Environments = {"fresh", "any"}
  MaxCalls = 3
CHECK_DEADLOCK FALSE
INVARIANTS IndexMatchesOrder Reachable
PROPERTY KeepsContract
