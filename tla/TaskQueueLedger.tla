-------------------------- MODULE TaskQueueLedger --------------------------
(* TaskQueue implements TaskLedger. *)
EXTENDS TaskQueue

LedgerState(row) ==
  IF row.loc = "unsent" THEN "absent"
  ELSE IF row.loc = "queue" THEN "waiting" ELSE "settled"

Ledger == INSTANCE TaskLedger WITH
  Tasks <- MsgIds,
  state <- [m \in MsgIds |-> LedgerState(rows[m])],
  succeeded <- {m \in MsgIds : history[m].ok},
  failed <- {m \in MsgIds : history[m].fails > 0},
  dead <- {m \in MsgIds : \E d \in DOMAIN dlq : About(d, m)}

(* The statements of process_task, fail, _remove and reschedule, however   *)
(* interleaved and interrupted, keep the promise of the ledger.            *)
LedgerSpec == Ledger!Spec
=============================================================================
