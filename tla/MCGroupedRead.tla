--------------------------- MODULE MCGroupedRead ---------------------------
(* GroupedRead on small instances: two messages of one group and, between  *)
(* them, one without a group.                                              *)
EXTENDS GroupedRead

CONSTANTS vip, none
Groups3 == <<vip, none, vip>>
Groups2 == <<vip, vip>>
=============================================================================
