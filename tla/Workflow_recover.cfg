SPECIFICATION Spec
CONSTANTS
  a = a
  b = b
  c = c
  Instances = {i1}
  Nodes = {a, b, c}
  Graphs <- MCGraphs
  Handlings = {"FAIL", "IGNORE"}
  NoInstance = NoInstance
  StreamLimit = 2
  MaxCalls = 1
  MaxFaults = 1
CHECK_DEADLOCK FALSE
INVARIANT RecoverReenqueues
