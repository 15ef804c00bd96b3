SPECIFICATION Spec
CONSTANTS
  Jobs = {j1}
  Timeout = 2
  Delay = 1
  Lag = 1
  Epoch = 5
  Horizon = 4
SYMMETRY Symmetry
INVARIANT RetryDelay
