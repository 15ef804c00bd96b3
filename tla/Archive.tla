------------------------------ MODULE Archive ------------------------------
(***************************************************************************)
(* The archives of a queue and of its DLQ, the rows that are archived, and *)
(* the workers that prune them (Queue.prune) at the same time.             *)
(*                                                                         *)
(* A prune is one DELETE; it chooses its rows in the snapshot of the       *)
(* statement (Select) and deletes those that are still there (Delete).     *)
(***************************************************************************)
EXTENDS Naturals, FiniteSets

CONSTANTS
  Pruners,     \* workers that prune the same queue
  Options,     \* per archive: is it pruned, its ttl and its limit, or None
  None,
  Ids,         \* per archive: how many messages may get into it
  BatchSize,   \* prune_batch_size
  Lag,         \* bound: age of the transaction that archives
  Horizon,     \* bound: the clock
  MaxFaults    \* bound: prunes that raise

ASSUME SizesAssumption == BatchSize \in Nat \ {0}
ASSUME OptionsAssumption ==
  /\ None \notin Nat
  /\ \A t \in {"archive", "dlq archive"} :
       /\ Options[t].pruned \in BOOLEAN
       /\ Options[t].ttl \in Nat \cup {None} /\ Options[t].limit \in Nat \cup {None}
       /\ Ids[t] \in Nat
ASSUME BoundsAssumption == Lag \in Nat /\ Horizon \in Nat /\ MaxFaults \in Nat

VARIABLES
  rows,     \* rows[t][i]: the row of msg_id i in archive t
  now,      \* the clock
  pruner,   \* pruner[w]: the archive to prune next; the rows chosen to delete
  faults

vars == <<rows, now, pruner, faults>>

Tables == {"archive", "dlq archive"}
Msgs(t) == 1..Ids[t]

(* "queue" before it is archived *)
Row == [at : {"queue", "archive", "deleted"}, archived_at : Nat]
NewRow(at) == [at |-> at, archived_at |-> 0]
Present(t) == {i \in Msgs(t) : rows[t][i].at = "archive"}
Newer(t, k, i) == rows[t][k].archived_at > rows[t][i].archived_at

Start == [next |-> "archive", chosen |-> FALSE, batch |-> {}]

Init ==
  /\ rows = [t \in Tables |-> [i \in Msgs(t) |-> NewRow("queue")]]
  /\ now = 0
  /\ pruner = [w \in Pruners |-> Start]
  /\ faults = 0

(* archived_at is the start of the transaction.  No two are equal: they    *)
(* count microseconds, and no transaction of the code archives two rows.   *)
ArchiveRow(t, i) ==
  /\ rows[t][i].at = "queue"
  /\ \E at \in 0..now :
       /\ at + Lag >= now
       /\ \A k \in Present(t) : rows[t][k].archived_at # at
       /\ rows' = [rows EXCEPT ![t][i] = [at |-> "archive", archived_at |-> at]]
  /\ UNCHANGED <<now, pruner, faults>>

Tick ==
  /\ now < Horizon /\ now' = now + 1
  /\ UNCHANGED <<rows, pruner, faults>>

-----------------------------------------------------------------------------
(* Archive.prune *)

OverTtl(t, i) ==
  Options[t].ttl # None /\ rows[t][i].archived_at + Options[t].ttl < now

(* bug: ORDER BY archived_at without DESC *)
OverLimit_Oldest(t, i) ==
  Options[t].limit # None
    /\ Cardinality({k \in Present(t) : Newer(t, i, k)}) >= Options[t].limit

(* NOT IN (SELECT ... ORDER BY archived_at DESC LIMIT limit) *)
OverLimit(t, i) ==
  Options[t].limit # None
    /\ Cardinality({k \in Present(t) : Newer(t, k, i)}) >= Options[t].limit

(* bug: the conditions joined by AND *)
Condemned_And(t) == {i \in Present(t) : OverTtl(t, i) /\ OverLimit(t, i)}

Condemned(t) == {i \in Present(t) : OverTtl(t, i) \/ OverLimit(t, i)}

(* LIMIT without ORDER BY: any batch. *)
Batches(t) ==
  LET size == IF BatchSize < Cardinality(Condemned(t)) THEN BatchSize
              ELSE Cardinality(Condemned(t))
  IN {b \in SUBSET Condemned(t) : Cardinality(b) = size}

-----------------------------------------------------------------------------
(* Queue.prune: the archive, then the archive of the DLQ *)

AfterTable(t) == IF t = "archive" THEN [Start EXCEPT !.next = "dlq archive"] ELSE Start

Select(w) ==
  LET t == pruner[w].next
  IN /\ ~pruner[w].chosen
     /\ IF Options[t].pruned
        THEN \E b \in Batches(t) :
               pruner' = [pruner EXCEPT ![w] = [next |-> t, chosen |-> TRUE, batch |-> b]]
        ELSE pruner' = [pruner EXCEPT ![w] = AfterTable(t)]
     /\ UNCHANGED <<rows, now, faults>>

DeleteRows(t, batch) ==
  [rows EXCEPT ![t] = [i \in Msgs(t) |-> IF i \in batch THEN NewRow("deleted") ELSE @[i]]]

Delete(w) ==
  LET t == pruner[w].next
  IN /\ pruner[w].chosen
     /\ rows' = DeleteRows(t, pruner[w].batch)
     /\ pruner' = [pruner EXCEPT ![w] = AfterTable(t)]
     /\ UNCHANGED <<now, faults>>

(* The DELETE raises: the rest of this prune is skipped, also the archive  *)
(* of the DLQ.  The worker's loop goes on and starts the next one.         *)
PruneRaises(w) ==
  /\ pruner[w].chosen
  /\ faults < MaxFaults /\ faults' = faults + 1
  /\ pruner' = [pruner EXCEPT ![w] = Start]
  /\ UNCHANGED <<rows, now>>

-----------------------------------------------------------------------------
Prune(w) == Select(w) \/ Delete(w)

Next ==
  \/ \E t \in Tables : \E i \in Msgs(t) : ArchiveRow(t, i)
  \/ \E w \in Pruners : Prune(w) \/ PruneRaises(w)
  \/ Tick

Spec == Init /\ [][Next]_vars

(* The workers prune again and again (PrunedForEver of module Worker). *)
Fairness == WF_vars(Tick) /\ \A w \in Pruners : WF_vars(Prune(w))

FairSpec == Spec /\ Fairness
-----------------------------------------------------------------------------
(* A row never comes back, and the newest rows stay: one that is deleted   *)
(* is over its ttl, or limit newer rows stay, whatever other workers that  *)
(* prune at the same time have deleted since the rows were chosen.         *)
KeepsNewest ==
  [][\A t \in Tables : \A i \in Msgs(t) :
       /\ rows[t][i].at = "deleted" => rows'[t][i].at = "deleted"
       /\ i \in Present(t) /\ rows'[t][i].at = "deleted" =>
            \/ OverTtl(t, i)
            \/ /\ Options[t].limit # None
               /\ Cardinality({k \in Present(t) : Newer(t, k, i) /\ rows'[t][k].at = "archive"})
                    >= Options[t].limit]_vars

(* A pruned archive comes down to its limit and its ttl when nothing more  *)
(* is archived, in batches and although prunes raise.                      *)
Converges ==
  \A t \in Tables : Options[t].pruned =>
    <>[](Options[t].limit # None => Cardinality(Present(t)) <= Options[t].limit)
    /\ <>[](\A i \in Present(t) : ~OverTtl(t, i))
=============================================================================
