SPECIFICATION Spec
CONSTANTS
  HasArchive = TRUE
  PageSize = 2
  MaxMsgs = 4
INVARIANTS ListedOnce QueueOnce
