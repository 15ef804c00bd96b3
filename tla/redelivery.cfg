SPECIFICATION Spec
CONSTANTS
  Jobs = {j1, j2, j3}
  Workers = {{j1, j2, j3}}
  Callers = {}
  MaxRetries = 2
  Limit = 0
  Lifo = FALSE
  HasArchive = TRUE
  HasDlq = TRUE
  HasDlqArchive = TRUE
  MaxMsgs = 1
  MaxEarly = 2
  MaxFaults = 1
SYMMETRY Symmetry
INVARIANTS TypeOK NoLoss Exclusive ArchivedOutcome StartsBound FailuresBound LettersBound NoErrorLost
PROPERTIES ArchiveFrozen LedgerSpec
