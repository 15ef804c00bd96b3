SPECIFICATION Spec
CONSTANTS
  Jobs = {j1, j2}
  Workers = {{j1}, {j2}}
  Callers = {}
  MaxRetries = 0
  Limit = 1
  Lifo = FALSE
  HasArchive = TRUE
  HasDlq = TRUE
  HasDlqArchive = TRUE
  MaxMsgs = 2
  MaxEarly = 0
  MaxFaults = 0
INVARIANT ConcurrencyLimit
