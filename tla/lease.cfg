SPECIFICATION Spec
CONSTANTS
  Jobs = {j1, j2, j3, j4}
  Timeout = 3
  Delay = 1
  Lag = 2
  Epoch = 5
  Horizon = 12
SYMMETRY Symmetry
INVARIANTS LeaseKept OverlapBound
