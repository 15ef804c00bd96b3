---------------------------- MODULE GroupedRead ----------------------------
(***************************************************************************)
(* pgmq.read_grouped_rr_with_poll: readers of one queue whose messages     *)
(* belong to groups.  A group may be read from only when its head, the     *)
(* first of all its messages, hidden ones included, is visible.            *)
(*                                                                         *)
(* A poll is one transaction that repeats one statement.  The statement    *)
(* sees the rows as they were committed when it began (Begin) and acts on  *)
(* the rows as they are (Take): what another reader, a job or a sender     *)
(* commits in between is the matter of this module.  Jobs are reduced to   *)
(* what they do to the rows: a message that was read may leave at any time *)
(* (Settle), its vt may pass at any time (Expire), a job that has outlived *)
(* the vt may still set it anew (Postpone), and a read may come by while a *)
(* statement of a job has the lock of the row (Take).                      *)
(***************************************************************************)
EXTENDS Naturals, FiniteSets

CONSTANTS
  Readers,      \* polls that may be open at the same time
  GroupOf,      \* GroupOf[m]: the header x-pgmq-group; no header is a group too
  Qtys,         \* how many messages a poll asks for: the free slots of its worker
  Lifo,         \* direction DESC
  NoReader,
  MaxMsgs,      \* bound: messages ever sent
  MaxReturns,   \* bound: updates of a message after which it still comes back
  MaxFaults     \* bound: polls that fail or find rows locked by jobs, late set_vt

ASSUME QtyAssumption == Qtys \subseteq Nat \ {0} /\ Lifo \in BOOLEAN
ASSUME ReadersAssumption == NoReader \notin Readers
ASSUME BoundsAssumption == MaxMsgs \in Nat /\ MaxReturns \in Nat /\ MaxFaults \in Nat

VARIABLES
  rows,     \* q_<queue>, by msg_id; committed versions
  reader,   \* reader[w]: where the poll is, its qty, the snapshot, the rows it updated
  lock,     \* the advisory locks: lock[g] is the transaction that has it
  late,     \* not in the code: <<k, m>> - k was sent when m had been seen
  many,     \* not in the code: messages handed out by polls that asked for several
  faults

vars == <<rows, reader, lock, late, many, faults>>

MsgIds == 1..MaxMsgs

(* "assigned": the identity column has given the id, the sender has not    *)
(* committed.  version counts the UPDATEs of the row: jobs update only     *)
(* what was read, so that it is not 0 when the message has been read.      *)
Row == [at : {"unsent", "assigned", "queue", "left"}, hidden : BOOLEAN, version : Nat]
NewRow(at) == [at |-> at, hidden |-> FALSE, version |-> 0]

Groups == {GroupOf[m] : m \in MsgIds}

(* snap: the rows of the snapshot with their versions; taken: the rows     *)
(* updated and locked.                                                     *)
Reader(pc, qty, snap, taken) == [pc |-> pc, qty |-> qty, snap |-> snap, taken |-> taken]
Idle == Reader("idle", 0, << >>, {})

Init ==
  /\ rows = [m \in MsgIds |-> NewRow("unsent")]
  /\ reader = [w \in Readers |-> Idle]
  /\ lock = [g \in Groups |-> NoReader]
  /\ late = {} /\ many = {} /\ faults = 0

Queued == {m \in MsgIds : rows[m].at = "queue"}
SameGroup(k, m) == GroupOf[k] = GroupOf[m]
Before(k, m) == IF Lifo THEN k > m ELSE k < m
Precedes(k, m) == SameGroup(k, m) /\ Before(k, m)
RowLocked(m) == \E w \in Readers : m \in reader[w].taken

-----------------------------------------------------------------------------
(* The sender: the id is taken from the sequence before the commit. *)

Assign(m) ==
  /\ rows[m].at = "unsent" /\ \A k \in 1..(m - 1) : rows[k].at # "unsent"
  /\ rows' = [rows EXCEPT ![m].at = "assigned"]
  /\ UNCHANGED <<reader, lock, late, many, faults>>

Seen(m) ==
  rows[m].version > 0 \/ \E w \in Readers : m \in DOMAIN reader[w].snap \cup reader[w].taken

Arrive(k) ==
  /\ rows[k].at = "assigned"
  /\ rows' = [rows EXCEPT ![k].at = "queue"]
  /\ late' = late \cup {<<k, m>> : m \in {i \in MsgIds : Precedes(k, i) /\ Seen(i)}}
  /\ UNCHANGED <<reader, lock, many, faults>>

-----------------------------------------------------------------------------
(* The statement of read_grouped_rr *)

Begin(w) ==
  /\ reader[w].pc \in {"idle", "poll"}
  /\ \E qty \in IF reader[w].pc = "idle" THEN Qtys ELSE {reader[w].qty} :
       reader' = [reader EXCEPT ![w] = Reader("read", qty, [m \in Queued |-> rows[m].version], {})]
  /\ UNCHANGED <<rows, lock, late, many, faults>>

(* vt <= clock_timestamp() for the version in the snapshot: a row that was *)
(* updated since had a vt that has passed.                                 *)
SnapVisible(w, m) == rows[m].version = reader[w].snap[m] => ~rows[m].hidden

(* bug: the head is looked for among the visible messages *)
Heads_OfVisible(w) ==
  LET visible == {m \in DOMAIN reader[w].snap : SnapVisible(w, m)}
  IN {m \in visible : ~\E k \in visible : Precedes(k, m)}

(* fifo_groups *)
Heads(w) == {m \in DOMAIN reader[w].snap : ~\E k \in DOMAIN reader[w].snap : Precedes(k, m)}

(* bug: no advisory lock *)
CanLock_Any(w, g) == TRUE

(* eligible_groups, by their heads.  Whether the lock is tried before or   *)
(* after the head is found visible is the planner's choice.                *)
CanLock(w, g) == lock[g] \in {NoReader, w}
Lockable(w) == {h \in Heads(w) : CanLock(w, GroupOf[h])}
Eligible(w) == {h \in Lockable(w) : SnapVisible(w, h)}

(* bug: comp without equality *)
Available_AfterHead(w, heads) ==
  {m \in DOMAIN reader[w].snap : SnapVisible(w, m) /\ \E h \in heads : Precedes(h, m)}

(* available_messages *)
Available(w, heads) ==
  {m \in DOMAIN reader[w].snap : SnapVisible(w, m) /\ \E h \in heads : SameGroup(h, m)}

(* ordered_messages: the firsts of all groups, then the seconds, ..., the  *)
(* groups in the order of their heads; and the first qty of them.          *)
FirstOf(available, heads, qty) ==
  LET rank == [m \in available |-> Cardinality({k \in available : Precedes(k, m)})]
      headOf == [m \in available |-> CHOOSE h \in heads : SameGroup(h, m)]
      first(k, m) == rank[k] < rank[m] \/ (rank[k] = rank[m] /\ Before(headOf[k], headOf[m]))
  IN {m \in available : Cardinality({k \in available : first(k, m)}) < qty}

Selected(w) ==
  LET heads == Eligible(w)
      available == Available(w, heads)
  IN FirstOf(available, heads, reader[w].qty)

(* bug: an UPDATE without the guard on vt *)
Updatable_NoGuard(m) == m \in Queued /\ ~RowLocked(m)

(* FOR UPDATE SKIP LOCKED, and the final guard of the UPDATE.  Rows that   *)
(* jobs have locked are a choice of Take.                                  *)
Updatable(m) == m \in Queued /\ ~RowLocked(m) /\ ~rows[m].hidden

(* inUse: the rows a statement of a job has locked at this moment.  The    *)
(* advisory locks of an empty read are kept: the transaction goes on.      *)
Take(w) ==
  /\ reader[w].pc = "read"
  /\ LET free == {m \in Selected(w) : Updatable(m)}
     IN \E inUse \in SUBSET {m \in free : rows[m].version > 0} :
          LET taken == free \ inUse
          IN /\ inUse # {} => faults < MaxFaults
             /\ faults' = IF inUse = {} THEN faults ELSE faults + 1
             /\ reader' = [reader EXCEPT ![w] =
                             Reader(IF taken = {} THEN "poll" ELSE "commit",
                                    reader[w].qty, << >>, taken)]
  /\ \E tried \in {Lockable(w), Eligible(w)} :
       lock' = [g \in Groups |-> IF g \in {GroupOf[h] : h \in tried} THEN w ELSE lock[g]]
  /\ UNCHANGED <<rows, late, many>>

(* bug: locks of the session in place of the transaction's *)
Release_SessionLocks(w) == reader' = [reader EXCEPT ![w] = Idle] /\ lock' = lock

Release(w) ==
  /\ reader' = [reader EXCEPT ![w] = Idle]
  /\ lock' = [g \in Groups |-> IF lock[g] = w THEN NoReader ELSE lock[g]]

Commit(w) ==
  /\ reader[w].pc = "commit"
  /\ rows' = [m \in MsgIds |-> IF m \in reader[w].taken
                               THEN [rows[m] EXCEPT !.hidden = TRUE, !.version = @ + 1]
                               ELSE rows[m]]
  /\ many' = many \cup {m \in reader[w].taken : reader[w].qty > 1}
  /\ Release(w)
  /\ UNCHANGED <<late, faults>>

(* max_poll_seconds pass. *)
TimeOut(w) ==
  /\ reader[w].pc = "poll"
  /\ Release(w)
  /\ UNCHANGED <<rows, late, many, faults>>

(* The connection is lost, or the statement raises. *)
Rollback(w) ==
  /\ reader[w].pc # "idle" /\ faults < MaxFaults
  /\ faults' = faults + 1
  /\ Release(w)
  /\ UNCHANGED <<rows, late, many>>

-----------------------------------------------------------------------------
(* The jobs.  Their statements wait for a row lock. *)

Settle(m) ==
  /\ m \in Queued /\ rows[m].version > 0 /\ ~RowLocked(m)
  /\ rows' = [rows EXCEPT ![m] = NewRow("left")]
  /\ late' = {p \in late : m \notin {p[1], p[2]}}
  /\ many' = many \ {m}
  /\ UNCHANGED <<reader, lock, faults>>

Expire(m) ==
  /\ m \in Queued /\ rows[m].hidden /\ rows[m].version <= MaxReturns
  /\ rows' = [rows EXCEPT ![m].hidden = FALSE]
  /\ UNCHANGED <<reader, lock, late, many, faults>>

(* The retry of a job that outlived the vt: set_vt hides the row again.    *)
Postpone(m) ==
  /\ m \in Queued /\ ~rows[m].hidden /\ rows[m].version > 0 /\ ~RowLocked(m)
  /\ faults < MaxFaults /\ faults' = faults + 1
  /\ rows' = [rows EXCEPT ![m].hidden = TRUE, ![m].version = @ + 1]
  /\ UNCHANGED <<reader, lock, late, many>>

-----------------------------------------------------------------------------
Poll(w) == Begin(w) \/ Take(w) \/ Commit(w) \/ TimeOut(w)

Next ==
  \/ \E w \in Readers : Poll(w) \/ Rollback(w)
  \/ \E m \in MsgIds : Assign(m) \/ Arrive(m) \/ Settle(m) \/ Expire(m) \/ Postpone(m)

Spec == Init /\ [][Next]_vars

(* The workers poll for ever: Poll(w) is always enabled and always changes *)
(* reader[w], so this is its weak fairness in a form TLC evaluates fast.   *)
(* A read ends with the vt of the message or, after MaxReturns updates,    *)
(* with a job that settles it.                                             *)
Fairness ==
  /\ \A w \in Readers : []<><<reader'[w] # reader[w]>>_vars
  /\ \A m \in MsgIds : WF_vars(Expire(m)) /\ WF_vars(rows[m].version > MaxReturns /\ Settle(m))

FairSpec == Spec /\ Fairness
-----------------------------------------------------------------------------
(* Every variable has its type, and an advisory lock does not outlive the  *)
(* transaction that took it.                                               *)
TypeOK ==
  /\ rows \in [MsgIds -> Row]
  /\ \A w \in Readers :
       /\ reader[w].pc \in {"idle", "read", "poll", "commit"}
       /\ IF reader[w].pc = "idle" THEN reader[w].qty = 0 ELSE reader[w].qty \in Qtys
       /\ DOMAIN reader[w].snap \subseteq MsgIds /\ reader[w].taken \subseteq MsgIds
  /\ lock \in [Groups -> Readers \cup {NoReader}]
  /\ \A g \in Groups : lock[g] # NoReader => reader[lock[g]].pc # "idle"
  /\ late \subseteq MsgIds \X MsgIds /\ many \subseteq MsgIds
  /\ faults \in 0..MaxFaults

(* No message is handed to two readers, whatever a reader's snapshot has   *)
(* missed: what an open transaction is about to return is in the queue,    *)
(* visible, and in no other transaction's result.                          *)
ReadOnce ==
  \A w \in Readers : \A m \in reader[w].taken :
    /\ m \in Queued /\ ~rows[m].hidden
    /\ \A v \in Readers : m \in reader[v].taken => v = w

(* No two open reads hand out messages of one group, even if the head of   *)
(* the group was sent between their snapshots.                             *)
GroupOnce ==
  \A v, w \in Readers : v # w =>
    \A k \in reader[v].taken, m \in reader[w].taken : ~SameGroup(k, m)

(* The order of a group: a message is handed out only when all messages    *)
(* before it have left the queue, those aside that were sent when it had   *)
(* already been seen; or, by a poll that asked for several, when they have *)
(* been handed out before it or with it.                                   *)
InOrder ==
  \A m, k \in Queued :
    rows[m].version > 0 /\ Precedes(k, m) =>
      <<k, m>> \in late \/ (m \in many /\ rows[k].version > 0)

(* "Strict FIFO ordering within groups" (_processor.py): a message is      *)
(* handed out only when all before it have left the queue.                 *)
StrictOrder ==
  \A m, k \in Queued : rows[m].version > 0 /\ Precedes(k, m) => <<k, m>> \in late

(* Every message sent is read and leaves. *)
Leaves == \A m \in MsgIds : rows[m].at = "queue" ~> rows[m].at = "left"
=============================================================================
