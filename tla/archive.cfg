SPECIFICATION FairSpec
CONSTANTS
  Pruners = {w1, w2}
  None = None
  Options <- Options2
  Ids <- Ids2
  BatchSize = 1
  Lag = 1
  Horizon = 4
  MaxFaults = 1
PROPERTIES KeepsNewest Converges
