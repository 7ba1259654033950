SPECIFICATION FairSpec
CONSTANTS
  a = a
  b = b
  c = c
  Instances = {i1}
  Nodes = {a, b, c}
  Graphs <- MCGraphs
  Handlings = {"FAIL", "IGNORE"}
  NoInstance = NoInstance
  StreamLimit = 2
  MaxCalls = 1
  MaxFaults = 1
CHECK_DEADLOCK FALSE
INVARIANTS DependenciesFirst OneCopy SuccessIsEarned NothingStalls
PROPERTIES NoRerun OverIsOver Finishes
