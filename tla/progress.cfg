SPECIFICATION FairSpec
CONSTANTS
  Jobs = {j1, j2}
  Workers = {{j1, j2}}
  Callers = {}
  MaxRetries = 2
  Limit = 2
  Lifo = TRUE
  HasArchive = FALSE
  HasDlq = FALSE
  HasDlqArchive = FALSE
  MaxMsgs = 2
  MaxEarly = 0
  MaxFaults = 1
INVARIANT NoLoss
PROPERTIES PollsInOrder Leaves
