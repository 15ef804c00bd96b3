SPECIFICATION FairSpec
CONSTANTS
  Readers = {r1, r2}
  vip = vip
  none = none
  GroupOf <- Groups3
  NoReader = NoReader
  Qtys = {1}
  Lifo = FALSE
  MaxMsgs = 3
  MaxReturns = 1
  MaxFaults = 1
INVARIANTS TypeOK ReadOnce GroupOnce InOrder
PROPERTY Leaves
