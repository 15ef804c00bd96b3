------------------------------ MODULE MCArchive ------------------------------
(* Archive on small instances: an archive with a limit of one and a DLQ    *)
(* archive with a ttl.                                                     *)
EXTENDS Archive

Options2 == [t \in Tables |-> IF t = "archive"
                              THEN [pruned |-> TRUE, ttl |-> 2, limit |-> 1]
                              ELSE [pruned |-> TRUE, ttl |-> 1, limit |-> None]]
Ids2 == [t \in Tables |-> IF t = "archive" THEN 3 ELSE 1]
=============================================================================
