----------------------------- MODULE TaskLedger -----------------------------
(***************************************************************************)
(* What a task queue promises, whatever tables, jobs and statements it is  *)
(* made of.  A task submitted waits until it is settled, once and for      *)
(* good; it is settled only for a cause: its processor succeeded, or it    *)
(* failed and, when the queue has a DLQ, a dead letter tells so.  Work on  *)
(* a task may be repeated, and may go on after the task is settled.        *)
(***************************************************************************)
CONSTANTS Tasks, HasDlq

VARIABLES
  state,       \* state[t]: "absent", "waiting" or "settled"
  succeeded,   \* tasks whose processor returned
  failed,      \* tasks with a failed attempt
  dead         \* tasks with a dead letter

ledger == <<state, succeeded, failed, dead>>

Init ==
  /\ state = [t \in Tasks |-> "absent"]
  /\ succeeded = {} /\ failed = {} /\ dead = {}

Submit(t) ==
  /\ state[t] = "absent"
  /\ state' = [state EXCEPT ![t] = "waiting"]
  /\ UNCHANGED <<succeeded, failed, dead>>

Known(t) == state[t] # "absent"

Succeed(t) ==
  /\ Known(t)
  /\ succeeded' = succeeded \cup {t}
  /\ UNCHANGED <<state, failed, dead>>

Fail(t) ==
  /\ Known(t)
  /\ failed' = failed \cup {t}
  /\ UNCHANGED <<state, succeeded, dead>>

DeadLetter(t) ==
  /\ HasDlq /\ t \in failed
  /\ dead' = dead \cup {t}
  /\ UNCHANGED <<state, succeeded, failed>>

Cause(t) == t \in succeeded \/ t \in (IF HasDlq THEN dead ELSE failed)

Settle(t) ==
  /\ state[t] = "waiting" /\ Cause(t)
  /\ state' = [state EXCEPT ![t] = "settled"]
  /\ UNCHANGED <<succeeded, failed, dead>>

(* Settled, but the answer of the database is lost: counted as a failure. *)
SettleUnanswered(t) ==
  /\ state[t] = "waiting" /\ t \in succeeded
  /\ state' = [state EXCEPT ![t] = "settled"]
  /\ failed' = failed \cup {t}
  /\ UNCHANGED <<succeeded, dead>>

Next == \E t \in Tasks : Submit(t) \/ Succeed(t) \/ Fail(t) \/ DeadLetter(t)
                         \/ Settle(t) \/ SettleUnanswered(t)

Spec == Init /\ [][Next]_ledger
=============================================================================
