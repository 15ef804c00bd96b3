---------------------------- MODULE TaskQueueInv ----------------------------
(***************************************************************************)
(* The inductive invariants behind the safety properties of TaskQueue:     *)
(* what is true of a job between two of its statements.                    *)
(***************************************************************************)
EXTENDS TaskQueue

(* The identity column numbers the messages in the order they are sent,    *)
(* and a job holds a message that was sent.                                *)
Numbered ==
  /\ \A m \in MsgIds : rows[m].loc = "unsent" <=> m > lastMsg
  /\ \A j \in Jobs : Active(j) => jobs[j].msg <= lastMsg

Lettered(m) == \E d \in DOMAIN dlq : About(d, m)

FailSteps == {"read errors", "write errors", "retry status", "retry vt",
              "payload", "send dlq", "set dlq"}
RemoveSteps == {"set status", "remove"}

(* Why _remove was called: by complete after a success, or by fail after a *)
(* failure and, with a DLQ, after the reference to the DLQ was written.    *)
RemoveCause(m, status) ==
  \/ status = "completed" /\ history[m].ok
  \/ /\ status = "failed" /\ history[m].fails > 0
     /\ HasDlq => Lettered(m) /\ (InQueue(m) => rows[m].dlq # NoId)

JobCause(j) ==
  /\ jobs[j].pc \in FailSteps => history[jobs[j].msg].fails > 0
  /\ At(j, "set dlq") => About(jobs[j].dlq, jobs[j].msg)
  /\ jobs[j].pc \in RemoveSteps => RemoveCause(jobs[j].msg, jobs[j].status)

CauseInv == TypeOK /\ Numbered /\ NoLoss /\ DlqReference /\ \A j \in Jobs : JobCause(j)

(* A message whose vt never passed under a job is hidden while it is held, *)
(* and held by one job.                                                    *)
HolderInv ==
  \A j \in Jobs : Active(j) /\ history[jobs[j].msg].early = 0 =>
    /\ InQueue(jobs[j].msg) => rows[jobs[j].msg].hidden
    /\ \A i \in Jobs : Active(i) /\ jobs[i].msg = jobs[j].msg => i = j

ExclusiveInv == TypeOK /\ Numbered /\ HolderInv

(* What was never sent is blank.                                           *)
Blank ==
  \A m \in MsgIds : rows[m].loc = "unsent" =>
    rows[m] = NewRow("unsent", NoId) /\ history[m] = NoHistory

(* References between messages point backwards. *)
ReferenceInv ==
  /\ TypeOK /\ Numbered /\ RescheduleReference
  /\ \A d \in DOMAIN dlq : dlq[d].orig \in 1..lastMsg /\ dlq[d].retry <= lastMsg

(* The status is written before the row leaves, and by its only holder.    *)
OutcomeInv ==
  /\ CauseInv /\ HolderInv /\ ArchivedOutcome
  /\ \A m \in MsgIds : rows[m].status = "completed" => history[m].ok
  /\ \A j \in Jobs :
       /\ At(j, "remove") /\ HasArchive
       /\ InQueue(jobs[j].msg) /\ history[jobs[j].msg].early = 0
       => rows[jobs[j].msg].status \in {"completed", "failed"}

-----------------------------------------------------------------------------
(* Failures.  A failure is counted by its job: until it has sent its DLQ   *)
(* message, and until it has read the errors header.                       *)

Holders(m, steps) == {j \in Jobs : jobs[j].msg = m /\ jobs[j].pc \in steps}

Letters(m) == {d \in DOMAIN dlq : About(d, m)}
Unlettered(m) == Holders(m, FailSteps \ {"set dlq"})
Unread(m) == Holders(m, {"read errors"})

FailuresInv ==
  /\ TypeOK /\ Numbered /\ Blank
  /\ \A m \in MsgIds :
       /\ Cardinality(Letters(m)) + Cardinality(Unlettered(m)) <= history[m].fails
       /\ rows[m].errs + Cardinality(Unread(m)) <= history[m].fails
  /\ \A j \in Jobs : At(j, "write errors") =>
       jobs[j].errs + Cardinality(Unread(jobs[j].msg)) <= history[jobs[j].msg].fails

(* Dead letters.  Counted with them: the holders that may still send one   *)
(* and, when the message is readable, the job that will read it next.      *)
SettleSteps == Steps \ ({"set dlq"} \cup RemoveSteps)
Unsettled(m) == Holders(m, SettleSteps)
Letterable(m) == Cardinality(Letters(m)) + Cardinality(Unsettled(m))
                 + (IF m \in Readable THEN 1 ELSE 0)

LettersLeft(m) ==
  /\ Letterable(m) <= 1 + faults + history[m].early
  /\ InQueue(m) /\ ~Held(m) => Cardinality(Letters(m)) <= faults + history[m].early

LettersInv == ReferenceInv /\ Blank /\ \A m \in MsgIds : LettersLeft(m)

(* Without faults, and without an expiry under a job, the only holder of a *)
(* message has all but its own failure in the errors header.               *)
HeldErrors(j) ==
  /\ InQueue(jobs[j].msg)
  /\ history[jobs[j].msg].fails =
       IF At(j, "write errors") THEN jobs[j].errs
       ELSE rows[jobs[j].msg].errs + (IF At(j, "read errors") THEN 1 ELSE 0)

Told(m) ==
  /\ ~Held(m) => rows[m].errs = history[m].fails
  /\ \A j \in Jobs : Active(j) /\ jobs[j].msg = m => HeldErrors(j)

ErrorsInv ==
  /\ ExclusiveInv /\ Blank
  /\ \A m \in MsgIds : faults = 0 /\ history[m].early = 0 => Told(m)

-----------------------------------------------------------------------------
(* Starts.  Expected counts the starts of a message, the jobs about to     *)
(* start it and, when it is readable, the job that will read it next.      *)

Unstarted(m) == Holders(m, {"count", "start"})
Expected(m) == history[m].starts + Cardinality(Unstarted(m))
               + (IF m \in Readable THEN 1 ELSE 0)

Attempts == IF MaxRetries > 1 THEN MaxRetries ELSE 1
Excess(m) == faults + history[m].early

(* A message nobody holds may be started once more; the holder of a queued *)
(* message has counted its failure in the errors header, or is about to.   *)
StartsLeft(m) ==
  /\ Expected(m) <= Attempts + Excess(m)
  /\ InQueue(m) => Expected(m) <= rows[m].errs + 1 + Excess(m)
  /\ InQueue(m) /\ ~Held(m) => /\ history[m].starts <= rows[m].errs + Excess(m)
                               /\ history[m].starts < Attempts + Excess(m)
  /\ \A j \in Jobs : jobs[j].msg = m /\ InQueue(m) =>
       /\ At(j, "write errors") => Expected(m) <= jobs[j].errs + Excess(m)
       /\ jobs[j].pc \in {"retry status", "retry vt"} =>
            Expected(m) <= rows[m].errs + Excess(m) /\ Expected(m) < Attempts + Excess(m)

StartsInv == TypeOK /\ Numbered /\ Blank /\ \A m \in MsgIds : StartsLeft(m)
=============================================================================
