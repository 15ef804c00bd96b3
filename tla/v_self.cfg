SPECIFICATION Spec
CONSTANTS
  Jobs = {j1}
  Workers = {{j1}}
  Callers = {}
  MaxRetries = 0
  Limit = 1
  Lifo = FALSE
  HasArchive = TRUE
  HasDlq = TRUE
  HasDlqArchive = TRUE
  MaxMsgs = 1
  MaxEarly = 0
  MaxFaults = 1
INVARIANT JustReadNotCounted
