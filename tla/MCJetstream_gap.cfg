SPECIFICATION Spec
CONSTANTS
  Uris = {u1}
  Texts = {x1, x2}
  None = None
  StreamLength = 3
  MaxNoise = 1
  MaxFaults = 1
  MaxRuns = 1
SYMMETRY Symmetric
INVARIANT NeverPastAGap
CHECK_DEADLOCK FALSE
