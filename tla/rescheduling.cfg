SPECIFICATION Spec
CONSTANTS
  Jobs = {j1}
  Workers = {{j1}}
  Callers = {c1, c2}
  MaxRetries = 0
  Limit = 0
  Lifo = FALSE
  HasArchive = TRUE
  HasDlq = TRUE
  HasDlqArchive = TRUE
  MaxMsgs = 3
  MaxEarly = 0
  MaxFaults = 1
SYMMETRY Symmetry
INVARIANTS DlqReference RescheduleReference
PROPERTY LedgerSpec
