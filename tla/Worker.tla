------------------------------- MODULE Worker -------------------------------
(***************************************************************************)
(* One worker process: a poll loop per processor, the tasks the loops      *)
(* create, and the slots (Worker.free_slots) all of them share.            *)
(*                                                                         *)
(* asyncio runs a coroutine from one await to the next without any other,  *)
(* so one action is what happens between two awaits.  A poll awaits for up *)
(* to a minute; slots are claimed and freed meanwhile.                     *)
(*                                                                         *)
(* A message is <<loop, msg_id>>: every processor has its own queue.  What *)
(* a task does to its message is TaskQueue's matter: here it ends with the *)
(* message gone or hidden until its vt.                                    *)
(***************************************************************************)
EXTENDS Integers, FiniteSets

CONSTANTS
  Loops,        \* the processors of the worker
  Slots,        \* Worker.concurrency_limit
  PerQueue,     \* bound: messages ever sent to one queue
  MaxReturns,   \* bound: tasks that end with their message still in the queue
  MaxFaults     \* bound: polls and prunes that raise, restarts of the process

ASSUME SlotsAssumption == Slots \in Nat \ {0}
ASSUME BoundsAssumption == PerQueue \in Nat /\ MaxReturns \in Nat /\ MaxFaults \in Nat
ASSUME LoopsAssumption == IsFiniteSet(Loops)

VARIABLES
  free,     \* Worker.free_slots
  loop,     \* loop[p]: the await the loop of p is in, and the qty of its poll
  due,      \* due[p]: _next_prune_at is None, lies ahead, or has passed
  msg,      \* the messages, and the tasks created for them
  returns, faults

vars == <<free, loop, due, msg, returns, faults>>

Msgs == Loops \X (1..PerQueue)

(* "task": create_task is called, _process has not begun; "running": it    *)
(* holds a slot.                                                           *)
MsgState == {"unsent", "ready", "hidden", "task", "running", "done"}
In(p, state) == {m \in Msgs : m[1] = p /\ msg[m] = state}
Running == {m \in Msgs : msg[m] = "running"}

Due == {"none", "ahead", "passed"}
Loop == [at : {"sleep", "poll", "prune", "stopped"}, asked : 0..Slots]
LoopAt(at, asked) == [at |-> at, asked |-> asked]

Init ==
  /\ free = Slots
  /\ loop = [p \in Loops |-> LoopAt("sleep", 0)]
  /\ \E interval \in {"none", "ahead"} : due = [p \in Loops |-> interval]
  /\ msg = [m \in Msgs |-> "unsent"]
  /\ returns = 0 /\ faults = 0

GoTo(p, at, asked) == loop' = [loop EXCEPT ![p] = LoopAt(at, asked)]
Fault == faults < MaxFaults /\ faults' = faults + 1

-----------------------------------------------------------------------------
(* The queues. *)

Enqueue(m) ==
  /\ msg[m] = "unsent"
  /\ msg' = [msg EXCEPT ![m] = "ready"]
  /\ UNCHANGED <<free, loop, due, returns, faults>>

(* vt passes.  Under a task it makes a second reader, see TaskQueue. *)
Expire(m) ==
  /\ msg[m] = "hidden"
  /\ msg' = [msg EXCEPT ![m] = "ready"]
  /\ UNCHANGED <<free, loop, due, returns, faults>>

-----------------------------------------------------------------------------
(* Worker._loop *)

(* bug: no await between the tasks of a poll and the next poll *)
TasksStarted_Never(p) == TRUE

(* The event loop starts created tasks in order, before the sleep ends.    *)
TasksStarted(p) == In(p, "task") = {}

(* The sleep ends; without a free slot the loop sleeps again. *)
Wake(p) ==
  /\ loop[p].at = "sleep" /\ TasksStarted(p)
  /\ free > 0
  /\ GoTo(p, "poll", free)
  /\ UNCHANGED <<free, due, msg, returns, faults>>

(* What a read with the qty of the poll may return. *)
Batches(p) ==
  LET ready == In(p, "ready")
      size == IF loop[p].asked < Cardinality(ready) THEN loop[p].asked
              ELSE Cardinality(ready)
  IN {batch \in SUBSET ready : Cardinality(batch) = size}

Read(batch, state) == msg' = [m \in Msgs |-> IF m \in batch THEN state ELSE msg[m]]

PollReturns(p) ==
  /\ loop[p].at = "poll" /\ In(p, "ready") # {}
  /\ \E batch \in Batches(p) : Read(batch, "task")
  /\ GoTo(p, "sleep", 0)
  /\ UNCHANGED <<free, due, returns, faults>>

(* bug: the comparison of the times the wrong way round *)
ShouldPrune_Inverted(p) == due[p] = "ahead"

ShouldPrune(p) == due[p] = "passed"

(* _next_prune: None for a worker without a prune_interval. *)
NextPrune(p) == IF due[p] = "none" THEN "none" ELSE "ahead"

PollEmpty(p) ==
  /\ loop[p].at = "poll" /\ In(p, "ready") = {}
  /\ GoTo(p, IF ShouldPrune(p) THEN "prune" ELSE "sleep", 0)
  /\ UNCHANGED <<free, due, msg, returns, faults>>

(* prune_interval passes. *)
BecomeDue(p) ==
  /\ due[p] = "ahead"
  /\ due' = [due EXCEPT ![p] = "passed"]
  /\ UNCHANGED <<free, loop, msg, returns, faults>>

PruneReturns(p) ==
  /\ loop[p].at = "prune"
  /\ due' = [due EXCEPT ![p] = NextPrune(p)]
  /\ GoTo(p, "sleep", 0)
  /\ UNCHANGED <<free, msg, returns, faults>>

(* bug: the try around the loop in place of its body *)
AfterException_Ends == "stopped"

(* The exception is logged, the loop sleeps and goes on. *)
AfterException == "sleep"

(* A poll raises, with its effect on the table or without; so may a prune, *)
(* which is due as before.                                                 *)
LoopRaises(p) ==
  /\ loop[p].at \in {"poll", "prune"}
  /\ Fault
  /\ \/ UNCHANGED msg
     \/ loop[p].at = "poll" /\ \E batch \in Batches(p) : Read(batch, "hidden")
  /\ GoTo(p, AfterException, 0)
  /\ UNCHANGED <<free, due, returns>>

-----------------------------------------------------------------------------
(* Worker._process *)

(* bug: one slot too many *)
CanClaim_OffByOne == free >= 0

CanClaim == free > 0

(* A task without a slot is dropped; its message stays hidden. *)
Start(m) ==
  /\ msg[m] = "task"
  /\ IF CanClaim
     THEN free' = free - 1 /\ msg' = [msg EXCEPT ![m] = "running"]
     ELSE free' = free /\ msg' = [msg EXCEPT ![m] = "hidden"]
  /\ UNCHANGED <<loop, due, returns, faults>>

(* bug: the slot is not freed *)
FreeSlot_Lost == free' = free

FreeSlot == free' = free + 1

(* process_task returns, raises or is cancelled; finally frees the slot.   *)
(* The message is gone, or it waits for its vt: a retry, a skip for the    *)
(* limit of the processor, an exception.                                   *)
End(m) ==
  /\ msg[m] = "running"
  /\ FreeSlot
  /\ \/ msg' = [msg EXCEPT ![m] = "done"] /\ UNCHANGED returns
     \/ /\ returns < MaxReturns /\ returns' = returns + 1
        /\ msg' = [msg EXCEPT ![m] = "hidden"]
  /\ UNCHANGED <<loop, due, faults>>

(* The process dies and is started again: the tasks are gone, __init__ and *)
(* ProcessorWorker.__init__ set the slots and the next prune anew.         *)
Restart ==
  /\ Fault
  /\ free' = Slots
  /\ loop' = [p \in Loops |-> LoopAt("sleep", 0)]
  /\ due' = [p \in Loops |-> NextPrune(p)]
  /\ msg' = [m \in Msgs |-> IF msg[m] \in {"task", "running"} THEN "hidden" ELSE msg[m]]
  /\ UNCHANGED returns

-----------------------------------------------------------------------------
LoopStep(p) == Wake(p) \/ PollReturns(p) \/ PollEmpty(p) \/ PruneReturns(p)

Next ==
  \/ \E m \in Msgs : Enqueue(m) \/ Expire(m) \/ Start(m) \/ End(m)
  \/ \E p \in Loops : LoopStep(p) \/ BecomeDue(p) \/ LoopRaises(p)
  \/ Restart

Spec == Init /\ [][Next]_vars

(* Sleeps and polls end, the event loop runs every task, wait_for bounds   *)
(* its code, and time passes.  Senders and faults are free.                *)
Fairness ==
  /\ \A p \in Loops : WF_vars(LoopStep(p)) /\ WF_vars(BecomeDue(p))
  /\ \A m \in Msgs : WF_vars(Start(m)) /\ WF_vars(End(m)) /\ WF_vars(Expire(m))

FairSpec == Spec /\ Fairness
-----------------------------------------------------------------------------
(* Every variable has its type. *)
TypeOK ==
  /\ free \in 0..Slots
  /\ loop \in [Loops -> Loop]
  /\ due \in [Loops -> Due]
  /\ msg \in [Msgs -> MsgState]
  /\ returns \in 0..MaxReturns /\ faults \in 0..MaxFaults

(* The slots and the running tasks add up to the limit: no slot is lost or *)
(* freed twice, and no more tasks run than the worker's concurrency_limit. *)
SlotsConserved ==
  Cardinality(Running) <= Slots /\ free = Slots - Cardinality(Running)

(* The messages that polls have read and may still read for slots: every   *)
(* loop but one may ask for slots that another one has asked for.  A       *)
(* worker with one loop reads only what it can start.                      *)
Asked == {a \in Loops \X (1..Slots) : a[2] <= loop[a[1]].asked}
SurplusBound ==
  Cardinality({m \in Msgs : msg[m] = "task"}) + Cardinality(Asked)
    <= free + (Cardinality(Loops) - 1) * Slots

(* Every message sent is run to its end, although tasks are dropped, come  *)
(* back and die with the process.                                          *)
Handled == \A m \in Msgs : msg[m] = "ready" ~> msg[m] = "done"

(* A worker with a prune_interval prunes the archives of every processor   *)
(* again and again, once its queue is worked off.                          *)
PrunedForEver == \A p \in Loops : due[p] # "none" => []<><<PruneReturns(p)>>_vars
=============================================================================
