------------------------------ MODULE Listing ------------------------------
(***************************************************************************)
(* The HTTP API: a client lists a table of a queue page by page while      *)
(* messages are sent, settled and pruned.  The DLQ and its archive are     *)
(* another such pair of tables, listed by the same code.                   *)
(*                                                                         *)
(* An answer takes two statements: the total, then the items of the page.  *)
(***************************************************************************)
EXTENDS Naturals, FiniteSets

CONSTANTS
  HasArchive,   \* PgmqBroker.archive is not None
  PageSize,     \* page_size of the client
  MaxMsgs       \* bound: messages ever sent

ASSUME ListingAssumption ==
  HasArchive \in BOOLEAN /\ PageSize \in Nat \ {0} /\ MaxMsgs \in Nat

VARIABLES
  where,   \* where[i]: the table message i is in
  list,    \* the client: its table, the next page, the total of the last one,
           \* how often it has seen each item, and where they were at first
  late     \* not in the code: the messages sent since the client began, after
           \* one with a greater id

vars == <<where, list, late>>

MsgIds == 1..MaxMsgs

(* "assigned": the identity column has given the id, the sender has not    *)
(* committed.                                                              *)
Places == {"unsent", "assigned", "queue", "archive", "gone"}
In(t) == {i \in MsgIds : where[i] = t}

(* _get_broker, _get_archive: other requests are answered with an error. *)
Served == IF HasArchive THEN {"queue", "archive"} ELSE {"queue"}

NewList(at, table, start) ==
  [at |-> at, table |-> table, page |-> 1, total |-> 0,
   seen |-> [i \in MsgIds |-> 0], start |-> start]

Init ==
  /\ where = [i \in MsgIds |-> "unsent"]
  /\ list = NewList("done", "queue", where)
  /\ late = {}

Move(i, from, to) ==
  /\ where[i] = from
  /\ where' = [where EXCEPT ![i] = to]
  /\ UNCHANGED list

(* The ids of a queue grow; senders may commit in another order. *)
Assign(i) ==
  /\ \A k \in 1..(i - 1) : where[k] # "unsent"
  /\ Move(i, "unsent", "assigned")
  /\ UNCHANGED late

Sent(i) == where[i] \notin {"unsent", "assigned"}

Arrive(i) ==
  /\ Move(i, "assigned", "queue")
  /\ late' = late \cup {k \in {i} : \E m \in MsgIds : m > k /\ Sent(m)}

(* Messages leave the queue, and are archived, in any order, and so are    *)
(* the archived ones pruned.                                               *)
Settle(i) == Move(i, "queue", IF HasArchive THEN "archive" ELSE "gone") /\ UNCHANGED late
Prune(i) == Move(i, "archive", "gone") /\ UNCHANGED late

(* bug: pages counted from zero *)
Offset_FromZero(page) == page * PageSize

Offset(page) == (page - 1) * PageSize

(* bug: ORDER BY msg_id DESC *)
Rank_Newest(t, i) == Cardinality({k \in In(t) : k > i})

(* ORDER BY msg_id *)
Rank(t, i) == Cardinality({k \in In(t) : k < i})

(* OFFSET LIMIT *)
Page(t, page) ==
  {i \in In(t) : Offset(page) <= Rank(t, i) /\ Rank(t, i) < Offset(page) + PageSize}

Request(t) ==
  /\ list.at = "done" /\ t \in Served
  /\ list' = NewList("count", t, where)
  /\ late' = {}
  /\ UNCHANGED where

CountItems ==
  /\ list.at = "count"
  /\ list' = [list EXCEPT !.at = "items", !.total = Cardinality(In(list.table))]
  /\ UNCHANGED <<where, late>>

(* The client asks for the next page while the total says there is one. *)
ListItems ==
  /\ list.at = "items"
  /\ list' = [list EXCEPT
       !.at = IF list.page * PageSize < list.total THEN "count" ELSE "done",
       !.page = @ + 1,
       !.seen = [i \in MsgIds |-> @[i] + IF i \in Page(list.table, list.page) THEN 1 ELSE 0]]
  /\ UNCHANGED <<where, late>>

Next ==
  \/ \E i \in MsgIds : Assign(i) \/ Arrive(i) \/ Settle(i) \/ Prune(i)
  \/ \E t \in {"queue", "archive"} : Request(t)
  \/ CountItems \/ ListItems

Spec == Init /\ [][Next]_vars
-----------------------------------------------------------------------------
(* Items that came into the table or left it since the client began. *)
Entered == [t \in {"queue", "archive"} |->
              IF t = "queue" THEN {"queue", "archive", "gone"} ELSE {"archive", "gone"}]
Added == {i \in MsgIds : list.start[i] \notin Entered[list.table]
                         /\ where[i] \in Entered[list.table]}
Removed == {i \in MsgIds : list.start[i] = list.table /\ where[i] # list.table}

(* Listing all pages shows an item of the archive twice, or misses one     *)
(* that was there all the time, only if one with a smaller id came or      *)
(* left: a listing nobody disturbs is complete.                            *)
ListedOnce ==
  list.at = "done" /\ list.page > 1 =>
    \A i \in MsgIds :
      /\ list.seen[i] > 1 => \E k \in Added : k < i
      /\ list.seen[i] = 0 /\ list.start[i] = list.table /\ where[i] = list.table
           => \E k \in Added \cup Removed : k < i

(* New items of a queue come last: one is shown twice only if another with *)
(* a smaller id was sent after it, while the client listed.                *)
QueueOnce ==
  list.table = "queue" => \A i \in MsgIds : list.seen[i] > 1 => \E k \in late : k < i
=============================================================================
