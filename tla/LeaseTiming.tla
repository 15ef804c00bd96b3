---------------------------- MODULE LeaseTiming ----------------------------
(***************************************************************************)
(* The clock behind Expire of TaskQueue: one message, its vt, and the jobs *)
(* that read it.  Time is in seconds.  A read leases the message for       *)
(* Timeout seconds from the read; wait_for grants the processor's code     *)
(* Timeout seconds from its call, which comes later by the statements in   *)
(* between (the count of the limit, the status).  A retry writes vt too.   *)
(*                                                                         *)
(* Statements that do not read or write vt are left to TaskQueue: a job is *)
(* between its read and the call of the processor's code, in that code, or *)
(* after it.  Whether fail retries, and whether the limit is reached, is a *)
(* free choice here.                                                       *)
(***************************************************************************)
EXTENDS Naturals

CONSTANTS
  Jobs,      \* process_task coroutines
  Timeout,   \* Processor.timeout, also the vt of its polls
  Delay,     \* what Processor.retry_delay answers
  Lag,       \* bound: seconds between a read and the call of the processor's code
  Epoch,     \* the time at which the message is sent, in seconds since 1970
  Horizon    \* bound: seconds observed from then on

ASSUME TimesAssumption ==
  /\ Timeout \in Nat \ {0} /\ Delay \in Nat /\ Lag \in Nat
  /\ Epoch \in Nat /\ Horizon \in Nat
ASSUME EpochAssumption == Epoch >= Timeout

VARIABLES
  now,      \* clock_timestamp() and time.time()
  vt,       \* vt of the message
  gone,     \* the message has been archived or deleted
  jobs,     \* the running process_task calls
  retryAt   \* not in the code: when vt was last written by a retry, or 0

vars == <<now, vt, gone, jobs, retryAt>>

-----------------------------------------------------------------------------
Phases == {"idle", "before", "run", "retry", "remove"}
Job == [pc : Phases, readAt : Nat, startAt : Nat]
IdleJob == [pc |-> "idle", readAt |-> 0, startAt |-> 0]

Active(j) == jobs[j].pc # "idle"
Running(j) == jobs[j].pc = "run"

(* WHERE vt <= clock_timestamp() *)
Readable == ~gone /\ vt <= now

(* bug: a poll without vt = timeout, which takes the broker's own default  *)
ReadVt_Default == now + 1

(* SET vt = clock_timestamp() + vt *)
ReadVt == now + Timeout

(* bug: int(time.time() + delay) read as a point in time *)
RetryVt_Absolute == now + Delay

(* int(time.time() + delay) reaches the set_vt that takes an INTEGER: the  *)
(* seconds from now on.                                                    *)
RetryVt == now + (now + Delay)

Init ==
  /\ now = Epoch /\ vt = Epoch /\ gone = FALSE
  /\ jobs = [j \in Jobs |-> IdleJob]
  /\ retryAt = 0

Move(j, pc) == jobs' = [jobs EXCEPT ![j] = [@ EXCEPT !.pc = pc]]
Finish(j) == jobs' = [jobs EXCEPT ![j] = IdleJob]

Read(j) ==
  /\ ~Active(j) /\ Readable
  /\ jobs' = [jobs EXCEPT ![j] = [pc |-> "before", readAt |-> now, startAt |-> 0]]
  /\ vt' = ReadVt /\ retryAt' = 0
  /\ UNCHANGED <<now, gone>>

(* A poll that finds nothing. *)
ReadNothing ==
  /\ ~Readable /\ \E j \in Jobs : ~Active(j)
  /\ UNCHANGED vars

(* wait_for calls the processor's code. *)
Begin(j) ==
  /\ jobs[j].pc = "before"
  /\ jobs' = [jobs EXCEPT ![j] = [@ EXCEPT !.pc = "run", !.startAt = now]]
  /\ UNCHANGED <<now, vt, gone, retryAt>>

(* The code returns, raises, or wait_for cancels it. *)
End(j) ==
  /\ Running(j)
  /\ \E pc \in {"retry", "remove"} : Move(j, pc)
  /\ UNCHANGED <<now, vt, gone, retryAt>>

(* set_vt of a retry: no effect on a message that has left. *)
Retry(j) ==
  /\ jobs[j].pc = "retry"
  /\ IF gone THEN UNCHANGED <<vt, retryAt>> ELSE vt' = RetryVt /\ retryAt' = now
  /\ Finish(j)
  /\ UNCHANGED <<now, gone>>

Remove(j) ==
  /\ jobs[j].pc = "remove"
  /\ gone' = TRUE
  /\ Finish(j)
  /\ UNCHANGED <<now, vt, retryAt>>

(* The limit is reached, or the coroutine ends anywhere. *)
Leave(j) ==
  /\ Active(j)
  /\ Finish(j)
  /\ UNCHANGED <<now, vt, gone, retryAt>>

Deadline(j) == jobs[j].startAt + Timeout

(* A second passes.  The event loop runs what is due first: no processor's *)
(* code outlives its timeout.                                              *)
Tick ==
  /\ now < Epoch + Horizon
  /\ \A j \in Jobs :
       /\ Running(j) => now < Deadline(j)
       /\ jobs[j].pc = "before" => now < jobs[j].readAt + Lag
  /\ now' = now + 1
  /\ UNCHANGED <<vt, gone, jobs, retryAt>>

Next ==
  \/ Tick
  \/ ReadNothing
  \/ \E j \in Jobs : Read(j) \/ Begin(j) \/ End(j) \/ Retry(j) \/ Remove(j) \/ Leave(j)

Spec == Init /\ [][Next]_vars

-----------------------------------------------------------------------------
(* Every variable has its type. *)
TypeOK ==
  /\ now \in Nat /\ vt \in Nat /\ gone \in BOOLEAN /\ retryAt \in Nat
  /\ jobs \in [Jobs -> Job]

(* A lease is not cut: whatever a holder whose lease has ended still does, *)
(* the reads of two holders are at least a timeout apart.                  *)
LeaseKept ==
  \A i, j \in Jobs : i # j /\ Active(i) /\ Active(j) =>
    \/ jobs[i].readAt + Timeout <= jobs[j].readAt
    \/ jobs[j].readAt + Timeout <= jobs[i].readAt

(* Two jobs run the processor's code for one message only during the lag   *)
(* that follows the later read, and never three when the lag is shorter    *)
(* than the timeout.                                                       *)
OverlapBound ==
  /\ \A i, j \in Jobs :
       Running(i) /\ Running(j) /\ jobs[i].readAt < jobs[j].readAt
         => now <= jobs[j].readAt + Lag
  /\ \A i, j, k \in Jobs :
       Lag < Timeout /\ Running(i) /\ Running(j) /\ Running(k)
         => i = j \/ j = k \/ i = k

(* What the documentation says and the code does not keep. *)

(* A message that is retried becomes readable after the retry delay.       *)
RetryDelay == retryAt # 0 => vt <= retryAt + Delay
=============================================================================
