SPECIFICATION Spec
CONSTANTS
  Ids = {a, b, c, d}
  MaxEdges = 5
CHECK_DEADLOCK FALSE
SYMMETRY MCSymmetry
INVARIANTS RejectsCycles LevelsAreDistances CriticalPathIsLongest
