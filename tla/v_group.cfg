SPECIFICATION Spec
CONSTANTS
  Readers = {r1}
  vip = vip
  none = none
  GroupOf <- Groups2
  NoReader = NoReader
  Qtys = {2}
  Lifo = FALSE
  MaxMsgs = 2
  MaxReturns = 0
  MaxFaults = 0
INVARIANT StrictOrder
