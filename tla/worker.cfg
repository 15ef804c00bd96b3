SPECIFICATION FairSpec
CONSTANTS
  Loops = {p, q}
  Slots = 2
  PerQueue = 2
  MaxReturns = 1
  MaxFaults = 1
INVARIANTS TypeOK SlotsConserved SurplusBound
PROPERTIES Handled PrunedForEver
