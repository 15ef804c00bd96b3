------------------------------ MODULE TaskQueue ------------------------------
(***************************************************************************)
(* One task queue of postgres-task-queue: the pgmq tables of the queue and *)
(* of its dead-letter queue (DLQ), the coroutines running                  *)
(* Processor.process_task on messages read from it, and the callers of     *)
(* PgmqBroker.reschedule.                                                  *)
(*                                                                         *)
(* Outside reschedule every SQL statement of the code is a transaction of  *)
(* its own, so one action is one statement (or one await of the            *)
(* processor's own code).  A job is one call of process_task; the action   *)
(* of a job is named after the statement it executes.                      *)
(*                                                                         *)
(* Time is left out: a message is hidden (vt > now) or readable, and       *)
(* Expire makes a hidden message readable.  That may happen under a        *)
(* running job: vt counts from the read, the timeout of process_task only  *)
(* from the moment the processor's code is called.                         *)
(***************************************************************************)
EXTENDS Naturals, Sequences, FiniteSets

CONSTANTS
  Jobs,            \* process_task coroutines that hold a worker slot
  Workers,         \* the worker processes: a worker is the set of its jobs
  Callers,         \* callers of PgmqBroker.reschedule
  MaxRetries,      \* Processor.max_retries, 0 by default
  Limit,           \* Processor.concurrency_limit, 0 when it is None
  Lifo,            \* Processor.lifo
  HasArchive,      \* PgmqBroker.archive is not None
  HasDlq,          \* PgmqBroker.dlq is not None
  HasDlqArchive,   \* PgmqBroker.dlq.archive is not None
  MaxMsgs,         \* bound: messages ever sent to the queue
  MaxEarly,        \* bound: expiries of a message under a job that holds it
  MaxFaults        \* bound: statements that raise, coroutines and workers that end

ASSUME CountsAssumption ==
  /\ MaxRetries \in Nat /\ Limit \in Nat
  /\ MaxMsgs \in Nat /\ MaxEarly \in Nat /\ MaxFaults \in Nat
ASSUME JobsAssumption == IsFiniteSet(Jobs) /\ Workers \subseteq SUBSET Jobs
ASSUME OptionsAssumption ==
  /\ Lifo \in BOOLEAN /\ HasArchive \in BOOLEAN
  /\ HasDlq \in BOOLEAN /\ HasDlqArchive \in BOOLEAN

VARIABLES
  rows,      \* the message table q_<queue> and its archive a_<queue>, by msg_id
  lastMsg,   \* last msg_id handed out by the identity column of the queue
  dlq,       \* the DLQ table and its archive, by msg_id
  jobs,      \* the running process_task calls
  calls,     \* calls[c]: the DLQ message whose payload caller c has read, or 0
  faults,    \* faults so far
  history    \* not in the code: what happened to each message

vars == <<rows, lastMsg, dlq, jobs, calls, faults, history>>

-----------------------------------------------------------------------------
(* The tables. *)

MsgIds == 1..MaxMsgs
NoId == 0

Status == {"none", "queued", "processing", "completed", "failed"}

(* loc: "unsent" before the insert, "queue" in q_<queue>, "archive" in     *)
(* a_<queue>, "deleted" nowhere.  errs is the length of the errors header; *)
(* dlq and orig are the headers that refer to another message.             *)
Row == [loc : {"unsent", "queue", "archive", "deleted"},
        status : Status, errs : Nat, dlq : Nat, orig : Nat, hidden : BOOLEAN]

NewRow(loc, orig) == [loc |-> loc, status |-> "none", errs |-> 0,
                      dlq |-> NoId, orig |-> orig, hidden |-> FALSE]

(* DlqBody: orig is its msg_id, errs the number of its errors.  retry is   *)
(* the header reschedule adds.                                             *)
DlqRow == [loc : {"queue", "archive", "deleted"},
           orig : Nat, errs : Nat, retry : Nat]

InQueue(m) == rows[m].loc = "queue"

(* bug: a read that ignores vt *)
Readable_IgnoresVt == {m \in MsgIds : InQueue(m)}

Readable == {m \in MsgIds : InQueue(m) /\ ~rows[m].hidden}

(* bug: pgmq.pop in place of a read *)
ReadRow_Pops(row) == [row EXCEPT !.loc = "deleted"]

(* SET vt = now + vt *)
ReadRow(row) == [row EXCEPT !.hidden = TRUE]

(* bug: the update reaches the archive as well *)
UpdateRow_BothTables(m, row) == [rows EXCEPT ![m] = row]

(* UPDATE q_<queue> ... WHERE msg_id = m: no effect on a row that has left. *)
UpdateRow(m, row) == IF InQueue(m) THEN [rows EXCEPT ![m] = row] ELSE rows

SetStatus(m, status) == UpdateRow(m, [rows[m] EXCEPT !.status = status])

Archived(m) ==
  UpdateRow(m, [rows[m] EXCEPT !.loc = IF HasArchive THEN "archive" ELSE "deleted"])

(* bug: every hidden message counts *)
ProcessingCount_AllHidden ==
  Cardinality({m \in MsgIds : InQueue(m) /\ rows[m].hidden})

(* _Table.processing_count *)
Counted(m) == InQueue(m) /\ rows[m].hidden /\ rows[m].status = "processing"
ProcessingCount == Cardinality({m \in MsgIds : Counted(m)})

(* bug: an errors header that is overwritten, or counted twice *)
ErrorsOf_Overwritten(m) == 0
ErrorsOf_Twice(m) == IF InQueue(m) THEN rows[m].errs + 1 ELSE 0

(* The length of the errors header; a row that has left has none. *)
ErrorsOf(m) == IF InQueue(m) THEN rows[m].errs ELSE 0

(* bug: the id of the DLQ message sent before *)
DlqMsgId_Previous == Len(dlq)

(* The id send returns for the next DLQ message. *)
DlqMsgId == Len(dlq) + 1

(* bug: the DLQ message's own id in place of its body's *)
OriginalOf_DlqId(d) == IF HasArchive THEN d ELSE NoId

(* The original header of the message a DLQ message is rescheduled as. *)
OriginalOf(d) == IF HasArchive THEN dlq[d].orig ELSE NoId

-----------------------------------------------------------------------------
(* The jobs.  pc names the next statement.  retry is should_retry of the   *)
(* exception being handled, errs the errors list add_error has built,      *)
(* status the argument of _remove, dlq the id of the DLQ message sent.     *)

Steps == {"count", "start", "run", "set status", "remove", "read errors",
          "write errors", "retry status", "retry vt", "payload", "send dlq",
          "set dlq"}

Job == [pc : Steps \cup {"idle"}, msg : Nat, retry : BOOLEAN, errs : Nat,
        status : Status, dlq : Nat]

JobAt(step, m, retry) == [pc |-> step, msg |-> m, retry |-> retry, errs |-> 0,
                          status |-> "none", dlq |-> NoId]

IdleJob == JobAt("idle", NoId, FALSE)

FirstStep == IF Limit > 0 THEN "count" ELSE "start"

(* bug: a task without the id of its message *)
NewJob_NoId(m) == JobAt(FirstStep, NoId, FALSE)
NewJob(m) == JobAt(FirstStep, m, FALSE)

(* bug: archived without its status *)
RemoveStep_NoStatus == "remove"

RemoveStep == IF HasArchive THEN "set status" ELSE "remove"

Active(j) == jobs[j].pc # "idle"
Idle == {j \in Jobs : ~Active(j)}
At(j, step) == jobs[j].pc = step
Held(m) == \E j \in Jobs : Active(j) /\ jobs[j].msg = m

GoTo(j, step) == jobs' = [jobs EXCEPT ![j].pc = step]
Finish(j) == jobs' = [jobs EXCEPT ![j] = IdleJob]
Removing(j, status) ==
  jobs' = [jobs EXCEPT ![j] = [@ EXCEPT !.pc = RemoveStep, !.status = status]]

-----------------------------------------------------------------------------
(* history: ok - the processor's code has returned for the message; fails  *)
(* - calls of fail; starts - calls of start; early - expiries under a job. *)

History == [ok : BOOLEAN, fails : Nat, starts : Nat, early : Nat]
NoHistory == [ok |-> FALSE, fails |-> 0, starts |-> 0, early |-> 0]

Init ==
  /\ rows = [m \in MsgIds |-> NewRow("unsent", NoId)]
  /\ lastMsg = 0
  /\ dlq = << >>
  /\ jobs = [j \in Jobs |-> IdleJob]
  /\ calls = [c \in Callers |-> NoId]
  /\ faults = 0
  /\ history = [m \in MsgIds |-> NoHistory]

(* pgmq.send with a delay of 0: the message is readable at once. *)
Insert(m, orig) ==
  /\ lastMsg' = m
  /\ rows' = [rows EXCEPT ![m] = NewRow("queue", orig)]

Enqueue ==
  /\ lastMsg < MaxMsgs
  /\ Insert(lastMsg + 1, NoId)
  /\ UNCHANGED <<dlq, jobs, calls, faults, history>>

(* The rows read_with_poll cannot lock: an UPDATE or DELETE of a job may   *)
(* be on them.  FOR UPDATE SKIP LOCKED passes them over.                   *)
LockingSteps == {"start", "write errors", "retry status", "retry vt", "set dlq",
                 "set status", "remove"}
Lockable == {jobs[j].msg : j \in {i \in Jobs : jobs[i].pc \in LockingSteps}}

(* ORDER BY msg_id LIMIT qty *)
Before(k, m) == IF Lifo THEN k > m ELSE k < m

(* bug: the messages that come last *)
Batch_Last(S, qty) == {m \in S : Cardinality({k \in S : Before(m, k)}) < qty}

Batch(S, qty) == {m \in S : Cardinality({k \in S : Before(k, m)}) < qty}

(* One poll of a worker hides a batch and gives every message of it to an  *)
(* idle job of that worker.                                                *)
Poll ==
  \E worker \in Workers :
  \E locked \in SUBSET Lockable, qty \in 1..Cardinality(Idle \cap worker) :
    LET batch == Batch(Readable \ locked, qty)
        free == Idle \cap worker
    IN /\ batch # {}
       /\ \E task \in [free -> batch \cup {NoId}] :
            /\ \A m \in batch : \E j \in free : task[j] = m
            /\ \A i, j \in free : task[i] = task[j] /\ i # j => task[i] = NoId
            /\ jobs' = [j \in Jobs |-> IF j \in free /\ task[j] # NoId
                                       THEN NewJob(task[j]) ELSE jobs[j]]
       /\ rows' = [m \in MsgIds |-> IF m \in batch
                                    THEN ReadRow(rows[m]) ELSE rows[m]]
       /\ UNCHANGED <<lastMsg, dlq, calls, faults, history>>

(* A poll that finds an empty queue: max_poll_seconds pass. *)
PollEmpty ==
  /\ Idle = Jobs
  /\ \A m \in MsgIds : ~InQueue(m)
  /\ UNCHANGED vars

(* vt passes.  Under a job that still holds the message it is early. *)
Expire(m) ==
  /\ InQueue(m) /\ rows[m].hidden
  /\ rows' = [rows EXCEPT ![m].hidden = FALSE]
  /\ IF Held(m)
     THEN /\ history[m].early < MaxEarly
          /\ history' = [history EXCEPT ![m].early = @ + 1]
     ELSE UNCHANGED history
  /\ UNCHANGED <<lastMsg, dlq, jobs, calls, faults>>

-----------------------------------------------------------------------------
(* process_task *)

CheckLimit(j) ==
  /\ At(j, "count")
  /\ IF ProcessingCount >= Limit THEN Finish(j) ELSE GoTo(j, "start")
  /\ UNCHANGED <<rows, lastMsg, dlq, calls, faults, history>>

Start(j) ==
  /\ At(j, "start")
  /\ rows' = SetStatus(jobs[j].msg, "processing")
  /\ GoTo(j, "run")
  /\ history' = [history EXCEPT ![jobs[j].msg].starts = @ + 1]
  /\ UNCHANGED <<lastMsg, dlq, calls, faults>>

(* The processor's code returns; complete is called. *)
Succeed(j) ==
  /\ At(j, "run")
  /\ Removing(j, "completed")
  /\ history' = [history EXCEPT ![jobs[j].msg].ok = TRUE]
  /\ UNCHANGED <<rows, lastMsg, dlq, calls, faults>>

(* except Exception: fail is called with the retry decision. *)
Catch(j) ==
  /\ \E retry \in BOOLEAN :
       jobs' = [jobs EXCEPT ![j] = JobAt("read errors", jobs[j].msg, retry)]
  /\ history' = [history EXCEPT ![jobs[j].msg].fails = @ + 1]

(* The processor's code raises, or wait_for cancels it and raises. *)
Raise(j) ==
  /\ At(j, "run")
  /\ Catch(j)
  /\ UNCHANGED <<rows, lastMsg, dlq, calls, faults>>

-----------------------------------------------------------------------------
(* PgmqBroker.fail *)

(* add_error reads the errors header and appends its error. *)
ReadErrors(j) ==
  /\ At(j, "read errors")
  /\ jobs' = [jobs EXCEPT ![j] = [@ EXCEPT !.pc = "write errors",
                                          !.errs = ErrorsOf(jobs[j].msg) + 1]]
  /\ UNCHANGED <<rows, lastMsg, dlq, calls, faults, history>>

(* bug: one attempt too many *)
MayRetry_OffByOne(job) == job.retry /\ MaxRetries > 0 /\ job.errs <= MaxRetries

MayRetry(job) == job.retry /\ MaxRetries > 0 /\ job.errs < MaxRetries

(* bug: no DLQ message for an exception that is not retried *)
AfterErrors_OnlyRetried(j) ==
  IF MayRetry(jobs[j]) THEN GoTo(j, "retry status")
  ELSE IF HasDlq /\ jobs[j].retry THEN GoTo(j, "payload")
  ELSE Removing(j, "failed")

AfterErrors(j) ==
  IF MayRetry(jobs[j]) THEN GoTo(j, "retry status")
  ELSE IF HasDlq THEN GoTo(j, "payload")
  ELSE Removing(j, "failed")

(* add_error writes the list it built; fail then picks retry, DLQ, remove. *)
WriteErrors(j) ==
  /\ At(j, "write errors")
  /\ LET m == jobs[j].msg
     IN rows' = UpdateRow(m, [rows[m] EXCEPT !.errs = jobs[j].errs])
  /\ AfterErrors(j)
  /\ UNCHANGED <<lastMsg, dlq, calls, faults, history>>

RetryStatus(j) ==
  /\ At(j, "retry status")
  /\ rows' = SetStatus(jobs[j].msg, "queued")
  /\ GoTo(j, "retry vt")
  /\ UNCHANGED <<lastMsg, dlq, calls, faults, history>>

(* set_vt: readable again when the new vt has passed. *)
RetryVt(j) ==
  /\ At(j, "retry vt")
  /\ LET m == jobs[j].msg
     IN rows' = UpdateRow(m, [rows[m] EXCEPT !.hidden = TRUE])
  /\ Finish(j)
  /\ UNCHANGED <<lastMsg, dlq, calls, faults, history>>

(* get_payload raises ValueError when the row has left: the job ends. *)
Payload(j) ==
  /\ At(j, "payload")
  /\ IF InQueue(jobs[j].msg) THEN GoTo(j, "send dlq") ELSE Finish(j)
  /\ UNCHANGED <<rows, lastMsg, dlq, calls, faults, history>>

SendDlq(j) ==
  /\ At(j, "send dlq")
  /\ dlq' = Append(dlq, [loc |-> "queue", orig |-> jobs[j].msg,
                         errs |-> jobs[j].errs, retry |-> NoId])
  /\ jobs' = [jobs EXCEPT ![j] = [@ EXCEPT !.pc = "set dlq", !.dlq = DlqMsgId]]
  /\ UNCHANGED <<rows, lastMsg, calls, faults, history>>

(* bug: a task that was dead-lettered is not removed *)
SetDlq_Kept(j) ==
  /\ At(j, "set dlq")
  /\ LET m == jobs[j].msg
     IN rows' = UpdateRow(m, [rows[m] EXCEPT !.dlq = jobs[j].dlq])
  /\ Finish(j)
  /\ UNCHANGED <<lastMsg, dlq, calls, faults, history>>

SetDlq(j) ==
  /\ At(j, "set dlq")
  /\ LET m == jobs[j].msg
     IN rows' = UpdateRow(m, [rows[m] EXCEPT !.dlq = jobs[j].dlq])
  /\ Removing(j, "failed")
  /\ UNCHANGED <<lastMsg, dlq, calls, faults, history>>

-----------------------------------------------------------------------------
(* PgmqBroker._remove, for complete and for fail *)

RemoveStatus(j) ==
  /\ At(j, "set status")
  /\ rows' = SetStatus(jobs[j].msg, jobs[j].status)
  /\ GoTo(j, "remove")
  /\ UNCHANGED <<lastMsg, dlq, calls, faults, history>>

Remove(j) ==
  /\ At(j, "remove")
  /\ rows' = Archived(jobs[j].msg)
  /\ Finish(j)
  /\ UNCHANGED <<lastMsg, dlq, calls, faults, history>>

-----------------------------------------------------------------------------
(* Faults *)

Fault == faults < MaxFaults /\ faults' = faults + 1

(* A worker process dies, and every coroutine of it with it.               *)
Die(worker) ==
  /\ \E j \in worker : Active(j)
  /\ Fault
  /\ jobs' = [j \in Jobs |-> IF j \in worker THEN IdleJob ELSE jobs[j]]
  /\ UNCHANGED <<rows, lastMsg, dlq, calls, history>>

(* One coroutine ends: it is cancelled, or a statement outside the try, or *)
(* of fail, raises.                                                        *)
Crash(j) ==
  /\ Active(j)
  /\ Fault
  /\ Finish(j)
  /\ UNCHANGED <<rows, lastMsg, dlq, calls, history>>

(* A statement of complete raises, with or without its effect on the       *)
(* table: complete is inside the try, so fail is called.                   *)
CompleteRaises(j) ==
  /\ jobs[j].status = "completed" /\ jobs[j].pc \in {"set status", "remove"}
  /\ Fault
  /\ rows' \in {rows, IF At(j, "remove") THEN Archived(jobs[j].msg)
                      ELSE SetStatus(jobs[j].msg, "completed")}
  /\ Catch(j)
  /\ UNCHANGED <<lastMsg, dlq, calls>>

-----------------------------------------------------------------------------
(* PgmqBroker.reschedule: one transaction.  Its read takes no lock.        *)

RescheduleRead(c) ==
  /\ HasDlq /\ calls[c] = NoId
  /\ \E d \in DOMAIN dlq :
       /\ dlq[d].loc = "queue"
       /\ calls' = [calls EXCEPT ![c] = d]
  /\ UNCHANGED <<rows, lastMsg, dlq, jobs, faults, history>>

(* The writes and the commit.  A DLQ row that has left is not updated.     *)
RescheduleCommit(c) ==
  LET d == calls[c] IN
  /\ d # NoId
  /\ lastMsg < MaxMsgs
  /\ Insert(lastMsg + 1, OriginalOf(d))
  /\ dlq' = IF dlq[d].loc # "queue" THEN dlq
            ELSE IF HasDlqArchive
                 THEN [dlq EXCEPT ![d] = [@ EXCEPT !.loc = "archive", !.retry = lastMsg + 1]]
                 ELSE [dlq EXCEPT ![d] = [@ EXCEPT !.loc = "deleted"]]
  /\ calls' = [calls EXCEPT ![c] = NoId]
  /\ UNCHANGED <<jobs, faults, history>>

(* A statement raises: the transaction is rolled back. *)
RescheduleAbort(c) ==
  /\ calls[c] # NoId
  /\ calls' = [calls EXCEPT ![c] = NoId]
  /\ UNCHANGED <<rows, lastMsg, dlq, jobs, faults, history>>

-----------------------------------------------------------------------------
Fail(j) == ReadErrors(j) \/ WriteErrors(j) \/ RetryStatus(j) \/ RetryVt(j)
           \/ Payload(j) \/ SendDlq(j) \/ SetDlq(j)

ProcessTask(j) == CheckLimit(j) \/ Start(j) \/ Succeed(j) \/ Raise(j) \/ Fail(j)
                  \/ RemoveStatus(j) \/ Remove(j)

Reschedule(c) == RescheduleRead(c) \/ RescheduleCommit(c) \/ RescheduleAbort(c)

Next ==
  \/ Enqueue
  \/ Poll
  \/ PollEmpty
  \/ \E m \in MsgIds : Expire(m)
  \/ \E j \in Jobs : ProcessTask(j) \/ Crash(j) \/ CompleteRaises(j)
  \/ \E worker \in Workers : Die(worker)
  \/ \E c \in Callers : Reschedule(c)

Spec == Init /\ [][Next]_vars

(* The worker loop polls for ever, the event loop and the database serve   *)
(* every job, wait_for bounds the processor's code, and the clock passes   *)
(* the vt of a message nobody holds.  Callers and faults are free.         *)
Fairness ==
  /\ WF_vars(Poll)
  /\ \A j \in Jobs : WF_vars(ProcessTask(j))
  /\ \A m \in MsgIds : WF_vars(Expire(m) /\ ~Held(m))

FairSpec == Spec /\ Fairness
-----------------------------------------------------------------------------
(* Types. *)

(* Every variable has its type. *)
TypeOK ==
  /\ rows \in [MsgIds -> Row]
  /\ lastMsg \in 0..MaxMsgs
  /\ dlq \in Seq(DlqRow)
  /\ jobs \in [Jobs -> Job]
  /\ \A j \in Jobs : Active(j) => jobs[j].msg \in MsgIds
  /\ calls \in [Callers -> 0..Len(dlq)]
  /\ faults \in 0..MaxFaults
  /\ history \in [MsgIds -> History]

-----------------------------------------------------------------------------
(* Safety. *)

Left(m) == rows[m].loc \in {"archive", "deleted"}
About(d, m) == d \in DOMAIN dlq /\ dlq[d].orig = m

(* No task is lost: a message leaves the queue only after its processor    *)
(* returned, or with a DLQ message about it, or, for a queue without DLQ,  *)
(* after a failure.                                                        *)
NoLoss ==
  \A m \in MsgIds : Left(m) =>
    \/ history[m].ok
    \/ IF HasDlq THEN \E d \in DOMAIN dlq : About(d, m) ELSE history[m].fails > 0

(* The references between messages hold: a message with status failed      *)
(* refers to a DLQ message, the dlq header to a DLQ message about it.      *)
DlqReference ==
  \A m \in MsgIds :
    /\ HasDlq /\ rows[m].status = "failed" => rows[m].dlq # NoId
    /\ rows[m].dlq # NoId => About(rows[m].dlq, m)

(* A rescheduled DLQ message refers to the new message, the new message    *)
(* to the one that failed, which is older.                                 *)
RescheduleReference ==
  /\ \A d \in DOMAIN dlq : dlq[d].retry # NoId =>
       /\ dlq[d].retry \in MsgIds
       /\ HasArchive => rows[dlq[d].retry].orig = dlq[d].orig
  /\ \A m \in MsgIds : rows[m].orig # NoId =>
       rows[m].orig < m /\ \E d \in DOMAIN dlq : About(d, rows[m].orig)

(* Two jobs hold the same message only after its vt passed under a job.    *)
Exclusive ==
  \A i, j \in Jobs :
    i # j /\ Active(i) /\ Active(j) /\ jobs[i].msg = jobs[j].msg
      => history[jobs[i].msg].early > 0

(* The status of an archived message is its outcome, unless its vt passed  *)
(* under a job.                                                            *)
ArchivedOutcome ==
  \A m \in MsgIds : rows[m].loc = "archive" =>
    /\ rows[m].status = "completed" => history[m].ok
    /\ history[m].early = 0 => rows[m].status \in {"completed", "failed"}

(* A failure is dead-lettered at most once and never counted twice.        *)
FailuresBound ==
  \A m \in MsgIds :
    /\ Cardinality({d \in DOMAIN dlq : About(d, m)}) <= history[m].fails
    /\ rows[m].errs <= history[m].fails

(* A task is dead-lettered once, and once more at most for every fault and *)
(* every expiry under a job: fail stops after its DLQ message, or another  *)
(* holder repeats it.                                                      *)
LettersBound ==
  \A m \in MsgIds :
    Cardinality({d \in DOMAIN dlq : About(d, m)}) <= 1 + faults + history[m].early

(* No failure is missing from the errors header, faults and expiries under *)
(* a job aside.                                                            *)
NoErrorLost ==
  \A m \in MsgIds :
    faults = 0 /\ history[m].early = 0 /\ ~Held(m)
      => rows[m].errs = history[m].fails

(* The processor is called at most max_retries times for a message, and    *)
(* once more for every fault and every expiry under a job.                 *)
StartsBound ==
  \A m \in MsgIds :
    history[m].starts <= (IF MaxRetries > 1 THEN MaxRetries ELSE 1)
                         + faults + history[m].early

(* What the documentation says and the code does not keep. *)

(* No more jobs than concurrency_limit run the processor's code.           *)
ConcurrencyLimit ==
  Limit > 0 => Cardinality({j \in Jobs : At(j, "run")}) <= Limit

(* The message a job has just read is not in the count it compares with    *)
(* the concurrency limit.                                                  *)
JustReadNotCounted == \A j \in Jobs : At(j, "count") => ~Counted(jobs[j].msg)

-----------------------------------------------------------------------------
(* Steps. *)

(* A message that has left the queue never changes again.                  *)
ArchiveFrozen == [][\A m \in MsgIds : Left(m) => rows'[m] = rows[m]]_vars

(* A poll passes over no message but one whose row a statement of a job    *)
(* has locked: what it hands out comes before all that it leaves readable. *)
HandedOut(m) == \E j \in Idle : Active(j)' /\ jobs'[j].msg = m

PollsInOrder ==
  [][\A m \in MsgIds : \A k \in Readable \ Lockable :
       HandedOut(m) /\ Before(k, m) => HandedOut(k)]_vars

-----------------------------------------------------------------------------
(* Liveness. *)

(* A message whose last holder ended after start: it counts against the    *)
(* limit until it is started again.                                        *)
Abandoned(m) ==
  /\ InQueue(m) /\ rows[m].status = "processing"
  /\ \A j \in Jobs : Active(j) /\ jobs[j].msg = m => At(j, "count")

Jammed == Limit > 0 /\ Cardinality({m \in MsgIds : Abandoned(m)}) >= Limit

(* Every message sent leaves the queue, unless from some time on as many   *)
(* messages as the concurrency limit allows are abandoned for ever.        *)
Leaves == <>[]Jammed \/ \A m \in MsgIds : InQueue(m) ~> Left(m)
=============================================================================
