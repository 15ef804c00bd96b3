---------------------------- MODULE ArchiveProofs ----------------------------
(***************************************************************************)
(* KeepsNewest for any number of pruners and rows, any options and batch   *)
(* size: the argument that stale batches of concurrent prunes do no harm.  *)
(***************************************************************************)
EXTENDS Archive, LimitProofs

Types ==
  /\ DOMAIN rows = Tables /\ \A t \in Tables : rows[t] \in [Msgs(t) -> Row]
  /\ now \in Nat
  /\ DOMAIN pruner = Pruners
  /\ \A w \in Pruners : pruner[w].next \in Tables /\ pruner[w].batch \subseteq Msgs(pruner[w].next)

NewerThan(t, i) == {k \in Present(t) : Newer(t, k, i)}
Over(t, i) == OverTtl(t, i) \/ OverLimit(t, i)

(* What a prune has chosen stays prunable while others archive and delete. *)
StillOver(t, batch) ==
  \A i \in batch : rows[t][i].at # "queue" /\ (i \in Present(t) => Over(t, i))

PruneInv ==
  Types /\ \A w \in Pruners : StillOver(pruner[w].next, pruner[w].batch)

-----------------------------------------------------------------------------
LEMMA RowTypes ==
  ASSUME Types, NEW t \in Tables, NEW i \in Msgs(t)
  PROVE  rows[t][i] \in Row /\ rows[t][i].archived_at \in Nat
BY DEF Types, Row

LEMMA FiniteRows ==
  ASSUME NEW t \in Tables, NEW S, S \subseteq Msgs(t)
  PROVE  IsFiniteSet(S) /\ Cardinality(S) \in Nat
         /\ \A T \in SUBSET S : Cardinality(T) <= Cardinality(S)
<1>1. IsFiniteSet(Msgs(t))
  <2>1. Ids[t] \in Nat
    BY OptionsAssumption, Zenon DEF Tables
  <2> QED
    BY <2>1, FS_Interval DEF Msgs
<1>2. IsFiniteSet(S)
  BY <1>1, FS_Subset
<1> QED
  BY <1>2, FS_Subset, FS_CardinalityType

(* The ttl passes for the older of two rows first.                         *)
LEMMA OlderOverTtl ==
  ASSUME Types, NEW t \in Tables, NEW i \in Msgs(t), NEW k \in Msgs(t),
         Newer(t, k, i), OverTtl(t, k)
  PROVE  OverTtl(t, i)
<1>1. Options[t].ttl \in Nat
  BY OptionsAssumption DEF OverTtl, Tables
<1> QED
  BY <1>1, RowTypes DEF OverTtl, Newer, Types

(* The heart of the matter: when the rows of batch that are present are    *)
(* all over, then limit rows that are newer than a present row of it are   *)
(* not in the batch, or its ttl has passed.  The newest row of the batch   *)
(* that is newer has limit newer rows, none of which is in the batch.      *)
LEMMA LimitStays ==
  ASSUME Types, NEW t \in Tables, NEW batch, StillOver(t, batch),
         NEW i \in Present(t), Over(t, i), ~OverTtl(t, i)
  PROVE  Options[t].limit # None
         /\ Cardinality(NewerThan(t, i) \ batch) >= Options[t].limit
<1> DEFINE S == {i} \cup (batch \cap NewerThan(t, i))
           f == [x \in S |-> rows[t][x].archived_at]
<1>1. i \in Msgs(t) /\ S \subseteq Present(t) /\ S \subseteq Msgs(t) /\ S # {}
  BY DEF Present, NewerThan
<1>2. \A x \in S : f[x] \in Nat
  BY <1>1, RowTypes
<1>3. PICK m \in S : \A k \in S : ~(f[k] > f[m])
  <2>1. IsFiniteSet(S)
    BY <1>1, FiniteRows
  <2> HIDE DEF S, f
  <2> QED
    BY <1>1, <1>2, <2>1, Greatest
<1>4. m \in Present(t) /\ m \in Msgs(t) /\ (m = i \/ Newer(t, m, i))
  BY <1>1 DEF NewerThan
<1>5. OverLimit(t, m)
  <2>1. ~OverTtl(t, m)
    BY <1>1, <1>4, OlderOverTtl
  <2>2. Over(t, m)
    <3>1. CASE m = i
      BY <3>1
    <3>2. CASE m # i
      BY <3>2, <1>4 DEF StillOver
    <3> QED
      BY <3>1, <3>2
  <2> QED
    BY <2>1, <2>2 DEF Over
<1>6. NewerThan(t, m) \subseteq NewerThan(t, i) \ batch
  <2> SUFFICES ASSUME NEW k \in NewerThan(t, m) PROVE k \in NewerThan(t, i) /\ k \notin batch
    OBVIOUS
  <2>1. k \in Present(t) /\ k \in Msgs(t) /\ Newer(t, k, m)
    BY DEF NewerThan, Present
  <2>2. Newer(t, k, i)
    BY <2>1, <1>1, <1>4, RowTypes DEF Newer
  <2>3. k \in NewerThan(t, i)
    BY <2>1, <2>2 DEF NewerThan
  <2>4. k \notin batch
    <3>1. k \in S => ~(rows[t][k].archived_at > rows[t][m].archived_at)
      BY <1>3
    <3> QED
      BY <2>1, <2>3, <3>1 DEF Newer
  <2> QED
    BY <2>3, <2>4
<1>7. /\ Options[t].limit # None /\ Options[t].limit \in Nat
      /\ Cardinality(NewerThan(t, m)) >= Options[t].limit
  BY <1>5, OptionsAssumption DEF OverLimit, NewerThan, Tables
<1>8. /\ NewerThan(t, i) \ batch \subseteq Msgs(t)
      /\ NewerThan(t, m) \subseteq Msgs(t)
  BY DEF NewerThan, Present
<1>9. /\ Cardinality(NewerThan(t, m)) <= Cardinality(NewerThan(t, i) \ batch)
      /\ Cardinality(NewerThan(t, m)) \in Nat /\ Cardinality(NewerThan(t, i) \ batch) \in Nat
  BY <1>6, <1>8, FiniteRows
<1> QED
  BY <1>7, <1>9

-----------------------------------------------------------------------------
(* What a step does to the rows *)

LEMMA ArchiveStep ==
  ASSUME Types, NEW t \in Tables, NEW i \in Msgs(t), ArchiveRow(t, i)
  PROVE  /\ DOMAIN rows' = Tables
         /\ \A u \in Tables : rows'[u] \in [Msgs(u) -> Row]
         /\ rows[t][i].at = "queue" /\ rows'[t][i].at = "archive"
         /\ \A u \in Tables : \A k \in Msgs(u) :
              u # t \/ k # i => rows'[u][k] = rows[u][k]
         /\ now' = now /\ pruner' = pruner
<1>1. PICK at \in 0..now :
        rows' = [rows EXCEPT ![t][i] = [at |-> "archive", archived_at |-> at]]
  BY DEF ArchiveRow
<1> DEFINE r == [at |-> "archive", archived_at |-> at]
<1>2. r \in Row /\ r.at = "archive"
  BY DEF Row, Types
<1> HIDE DEF r
<1>3. rows' = [rows EXCEPT ![t] = [rows[t] EXCEPT ![i] = r]]
  BY <1>1 DEF r
<1>4. DOMAIN rows' = Tables /\ rows'[t] = [rows[t] EXCEPT ![i] = r]
      /\ \A u \in Tables : u # t => rows'[u] = rows[u]
  BY <1>3 DEF Types
<1>5. rows'[t] \in [Msgs(t) -> Row] /\ rows'[t][i] = r
      /\ \A k \in Msgs(t) : k # i => rows'[t][k] = rows[t][k]
  BY <1>2, <1>4 DEF Types
<1> QED
  BY <1>2, <1>4, <1>5 DEF Types, ArchiveRow

LEMMA DeleteStep ==
  ASSUME Types, NEW w \in Pruners, Delete(w)
  PROVE  LET t == pruner[w].next
             batch == pruner[w].batch
         IN /\ DOMAIN rows' = Tables
            /\ \A u \in Tables : rows'[u] \in [Msgs(u) -> Row]
            /\ \A k \in batch : rows'[t][k].at = "deleted"
            /\ \A u \in Tables : \A k \in Msgs(u) :
                 u # t \/ k \notin batch => rows'[u][k] = rows[u][k]
            /\ now' = now
            /\ pruner' = [pruner EXCEPT ![w] = AfterTable(t)]
<1> DEFINE t == pruner[w].next
           batch == pruner[w].batch
           table == [i \in Msgs(t) |-> IF i \in batch THEN NewRow("deleted") ELSE rows[t][i]]
<1>0. t \in Tables /\ batch \subseteq Msgs(t)
  BY DEF Types
<1>1. rows' = [rows EXCEPT ![t] = table] /\ now' = now
      /\ pruner' = [pruner EXCEPT ![w] = AfterTable(t)]
  BY DEF Delete, DeleteRows
<1>2. NewRow("deleted") \in Row /\ NewRow("deleted").at = "deleted"
  BY DEF NewRow, Row
<1>3. table \in [Msgs(t) -> Row]
  BY <1>0, <1>2 DEF Types
<1>4. /\ \A k \in batch : table[k].at = "deleted"
      /\ \A k \in Msgs(t) : k \notin batch => table[k] = rows[t][k]
  BY <1>0, <1>2
<1> HIDE DEF table
<1>5. DOMAIN rows' = Tables /\ rows'[t] = table
      /\ \A u \in Tables : u # t => rows'[u] = rows[u]
  BY <1>0, <1>1 DEF Types
<1> QED
  BY <1>0, <1>1, <1>3, <1>4, <1>5 DEF Types

LEMMA StartFields ==
  ASSUME NEW t \in Tables
  PROVE  /\ AfterTable(t).next \in Tables /\ AfterTable(t).batch = {}
         /\ Start.next \in Tables /\ Start.batch = {}
BY DEF AfterTable, Start, Tables

(* A pruner whose table and batch are another's or empty.                  *)
LEMMA PrunerStep ==
  ASSUME Types, NEW w \in Pruners, NEW r, pruner' = [pruner EXCEPT ![w] = r]
  PROVE  /\ DOMAIN pruner' = Pruners /\ pruner'[w] = r
         /\ \A v \in Pruners : v # w => pruner'[v] = pruner[v]
BY DEF Types

LEMMA SelectStep ==
  ASSUME Types, NEW w \in Pruners, Select(w)
  PROVE  /\ DOMAIN pruner' = Pruners /\ rows' = rows /\ now' = now
         /\ pruner'[w].next \in Tables
         /\ pruner'[w].batch \subseteq Condemned(pruner'[w].next)
         /\ \A v \in Pruners : v # w => pruner'[v] = pruner[v]
<1> DEFINE t == pruner[w].next
<1>0. t \in Tables /\ rows' = rows /\ now' = now
  BY DEF Types, Select
<1>1. CASE Options[t].pruned
  <2>1. PICK b \in Batches(t) :
          pruner' = [pruner EXCEPT ![w] = [next |-> t, chosen |-> TRUE, batch |-> b]]
    BY <1>1, Zenon DEF Select
  <2>2. b \subseteq Condemned(t)
    BY DEF Batches
  <2> DEFINE r == [next |-> t, chosen |-> TRUE, batch |-> b]
  <2>3. r.next = t /\ r.batch = b
    OBVIOUS
  <2> HIDE DEF r, t
  <2>4. DOMAIN pruner' = Pruners /\ pruner'[w] = r
        /\ \A v \in Pruners : v # w => pruner'[v] = pruner[v]
    BY <2>1, PrunerStep DEF r
  <2> QED
    BY <1>0, <2>2, <2>3, <2>4
<1>2. CASE ~Options[t].pruned
  <2>1. pruner' = [pruner EXCEPT ![w] = AfterTable(t)]
    BY <1>2, Zenon DEF Select
  <2> QED
    BY <1>0, <2>1, PrunerStep, StartFields
<1> QED
  BY <1>1, <1>2

-----------------------------------------------------------------------------
LEMMA PruneInvInit == Init => PruneInv
<1> SUFFICES ASSUME Init PROVE PruneInv
  OBVIOUS
<1>1. NewRow("queue") \in Row
  BY DEF NewRow, Row
<1>2. Start.next \in Tables /\ Start.batch = {}
  BY DEF Start, Tables
<1> QED
  BY <1>1, <1>2 DEF Init, PruneInv, Types, StillOver

(* What is over stays so when a batch of rows that are over is deleted,    *)
(* rows are archived and the clock goes on.                                *)
LEMMA BatchKept ==
  ASSUME Types, NEW t \in Tables, NEW b \in SUBSET Msgs(t), StillOver(t, b),
         NEW gone, StillOver(t, gone),
         now' \in Nat, now' >= now,
         \A k \in Msgs(t) : rows[t][k].at # "queue" /\ k \notin gone => rows'[t][k] = rows[t][k],
         \A k \in gone : rows'[t][k].at = "deleted"
  PROVE  StillOver(t, b)'
<1> SUFFICES ASSUME NEW i \in b
             PROVE  rows'[t][i].at # "queue" /\ (i \in Present(t)' => Over(t, i)')
  BY DEF StillOver
<1>1. i \in Msgs(t) /\ rows[t][i].at # "queue" /\ (i \in Present(t) => Over(t, i))
  BY DEF StillOver
<1>2. rows'[t][i].at # "queue"
  BY <1>1
<1>3. ASSUME i \in Present(t)' PROVE Over(t, i)'
  <2>1. rows'[t][i] = rows[t][i] /\ i \in Present(t) /\ Over(t, i)
    BY <1>1, <1>3 DEF Present
  <2>2. CASE OverTtl(t, i)
    <3>1. Options[t].ttl # None /\ Options[t].ttl \in Nat
      BY <2>2, OptionsAssumption DEF OverTtl, Tables
    <3> QED
      BY <1>1, <2>1, <2>2, <3>1, RowTypes DEF Over, OverTtl, Types
  <2>3. CASE ~OverTtl(t, i)
    <3>1. /\ Options[t].limit # None
          /\ Cardinality(NewerThan(t, i) \ gone) >= Options[t].limit
      BY <2>1, <2>3, LimitStays
    <3>2. Options[t].limit \in Nat
      BY <3>1, OptionsAssumption DEF Tables
    <3>3. NewerThan(t, i) \ gone \subseteq NewerThan(t, i)'
      BY <2>1 DEF NewerThan, Present, Newer
    <3>4. NewerThan(t, i)' \subseteq Msgs(t)
      BY DEF NewerThan, Present
    <3>5. /\ Cardinality(NewerThan(t, i) \ gone) <= Cardinality(NewerThan(t, i)')
          /\ Cardinality(NewerThan(t, i) \ gone) \in Nat
          /\ Cardinality(NewerThan(t, i)') \in Nat
      BY <3>3, <3>4, FiniteRows
    <3>6. Cardinality(NewerThan(t, i)') >= Options[t].limit
      BY <3>1, <3>2, <3>5
    <3> QED
      BY <3>1, <3>6 DEF Over, OverLimit, NewerThan
  <2> QED
    BY <2>2, <2>3
<1> QED
  BY <1>2, <1>3

LEMMA PruneInvFrom ==
  ASSUME Types',
         \A w \in Pruners : \A u \in Tables : \A b \in SUBSET Msgs(u) :
           u = pruner'[w].next /\ b = pruner'[w].batch => StillOver(u, b)'
  PROVE  PruneInv'
<1> SUFFICES ASSUME NEW w \in Pruners
             PROVE  StillOver(pruner[w].next, pruner[w].batch)'
  BY DEF PruneInv
<1>1. pruner'[w].next \in Tables /\ pruner'[w].batch \in SUBSET Msgs(pruner'[w].next)
  BY DEF Types
<1> QED
  BY <1>1 DEF StillOver, Present, Over, OverTtl, OverLimit, Newer

LEMMA PruneInvStep == PruneInv /\ [Next]_vars => PruneInv'
<1> SUFFICES ASSUME PruneInv, [Next]_vars PROVE PruneInv'
  OBVIOUS
<1>0. Types /\ now \in Nat
      /\ \A w \in Pruners : /\ pruner[w].next \in Tables
                           /\ pruner[w].batch \subseteq Msgs(pruner[w].next)
                           /\ StillOver(pruner[w].next, pruner[w].batch)
  BY DEF PruneInv, Types
<1>1. \A u \in Tables : StillOver(u, {})
  BY DEF StillOver
(* The rows of pruner w are chosen from what they were before the step.    *)
<1> DEFINE Same(w) == pruner'[w] = pruner[w]
           Batch(w, u, b) == /\ u \in Tables /\ b \in SUBSET Msgs(u)
                             /\ u = pruner'[w].next /\ b = pruner'[w].batch
<1>2. ASSUME NEW w \in Pruners, Same(w), NEW u, NEW b, Batch(w, u, b)
      PROVE  StillOver(u, b)
  BY <1>0, <1>2
<1>3. ASSUME NEW t \in Tables, NEW i \in Msgs(t), ArchiveRow(t, i) PROVE PruneInv'
  <2>1. Types' /\ now' \in Nat /\ now' >= now
    BY <1>0, <1>3, ArchiveStep DEF Types
  <2>2. ASSUME NEW w \in Pruners, NEW u, NEW b, Batch(w, u, b) PROVE StillOver(u, b)'
    <3>1. Same(w)
      BY <1>0, <1>3, ArchiveStep
    <3>2. \A k \in Msgs(u) : rows[u][k].at # "queue" => rows'[u][k] = rows[u][k]
      BY <1>0, <1>3, <2>2, ArchiveStep
    <3> HIDE DEF Same
    <3> QED
      BY <1>0, <1>1, <1>2, <2>1, <2>2, <3>1, <3>2, BatchKept
  <2> QED
    BY <2>1, <2>2, PruneInvFrom
<1>4. ASSUME NEW w \in Pruners, Select(w) PROVE PruneInv'
  <2>1. Types' /\ rows' = rows /\ now' = now
    BY <1>0, <1>4, SelectStep DEF Types, Condemned, Present
  <2>2. ASSUME NEW v \in Pruners, NEW u, NEW b, Batch(v, u, b) PROVE StillOver(u, b)
    <3>1. CASE v = w
      BY <1>0, <1>4, <2>2, <3>1, SelectStep DEF StillOver, Condemned, Present, Over
    <3>2. CASE v # w
      BY <1>0, <1>2, <1>4, <2>2, <3>2, SelectStep
    <3> QED
      BY <3>1, <3>2
  <2>3. ASSUME NEW v \in Pruners, NEW u, NEW b, Batch(v, u, b) PROVE StillOver(u, b)'
    BY <2>1, <2>2, <2>3 DEF StillOver, Present, Over, OverTtl, OverLimit, Newer
  <2> QED
    BY <2>1, <2>3, PruneInvFrom
<1>5. ASSUME NEW w \in Pruners, Delete(w) PROVE PruneInv'
  <2>0. PICK t, batch : t = pruner[w].next /\ batch = pruner[w].batch
    OBVIOUS
  <2>1. t \in Tables /\ StillOver(t, batch)
    BY <1>0, <2>0
  <2>2. /\ DOMAIN rows' = Tables /\ \A u \in Tables : rows'[u] \in [Msgs(u) -> Row]
        /\ \A k \in batch : rows'[t][k].at = "deleted"
        /\ \A u \in Tables : \A k \in Msgs(u) :
             u # t \/ k \notin batch => rows'[u][k] = rows[u][k]
        /\ now' = now
    BY <1>0, <1>5, <2>0, DeleteStep
  <2>3. DOMAIN pruner' = Pruners /\ pruner'[w].next \in Tables /\ pruner'[w].batch = {}
        /\ \A v \in Pruners : v # w => pruner'[v] = pruner[v]
    BY <1>0, <1>5, DeleteStep, PrunerStep, StartFields
  <2>4. Types' /\ now' \in Nat /\ now' >= now
    BY <1>0, <2>2, <2>3 DEF Types
  <2>5. ASSUME NEW v \in Pruners, NEW u, NEW b, Batch(v, u, b) PROVE StillOver(u, b)'
    <3>1. CASE v = w
      BY <2>3, <2>5, <3>1 DEF StillOver
    <3>2. CASE v # w
      <4>1. StillOver(u, b) /\ u \in Tables /\ b \in SUBSET Msgs(u)
        BY <1>2, <2>3, <2>5, <3>2
      <4>2. CASE u = t
        BY <1>0, <2>1, <2>2, <2>4, <4>1, <4>2, BatchKept
      <4>3. CASE u # t
        <5>1. \A k \in Msgs(u) : rows'[u][k] = rows[u][k]
          BY <2>2, <4>1, <4>3
        <5> QED
          BY <1>0, <1>1, <2>4, <4>1, <5>1, BatchKept
      <4> QED
        BY <4>2, <4>3
    <3> QED
      BY <3>1, <3>2
  <2> QED
    BY <2>4, <2>5, PruneInvFrom
<1>6. ASSUME NEW w \in Pruners, PruneRaises(w) PROVE PruneInv'
  <2>1. rows' = rows /\ now' = now /\ pruner' = [pruner EXCEPT ![w] = Start]
    BY <1>6 DEF PruneRaises
  <2>2. DOMAIN pruner' = Pruners /\ pruner'[w].next \in Tables /\ pruner'[w].batch = {}
        /\ \A v \in Pruners : v # w => pruner'[v] = pruner[v]
    BY <1>0, <2>1, PrunerStep, StartFields DEF Tables
  <2>3. Types' /\ now' \in Nat /\ now' >= now
    BY <1>0, <2>1, <2>2 DEF Types
  <2>4. ASSUME NEW v \in Pruners, NEW u, NEW b, Batch(v, u, b) PROVE StillOver(u, b)'
    <3>1. CASE v = w
      BY <2>2, <2>4, <3>1 DEF StillOver
    <3>2. CASE v # w
      <4>1. StillOver(u, b) /\ u \in Tables /\ b \in SUBSET Msgs(u)
        BY <1>2, <2>2, <2>4, <3>2
      <4> QED
        BY <1>0, <1>1, <2>1, <2>3, <4>1, BatchKept
    <3> QED
      BY <3>1, <3>2
  <2> QED
    BY <2>3, <2>4, PruneInvFrom
<1>7. ASSUME Tick \/ UNCHANGED vars PROVE PruneInv'
  <2>1. rows' = rows /\ pruner' = pruner /\ now' \in Nat /\ now' >= now
    BY <1>0, <1>7 DEF Tick, Types, vars
  <2>2. Types'
    BY <1>0, <2>1 DEF Types
  <2>3. ASSUME NEW v \in Pruners, NEW u, NEW b, Batch(v, u, b) PROVE StillOver(u, b)'
    <3>1. StillOver(u, b) /\ u \in Tables /\ b \in SUBSET Msgs(u)
      BY <1>2, <2>1, <2>3
    <3> QED
      BY <1>0, <1>1, <2>1, <3>1, BatchKept
  <2> QED
    BY <2>2, <2>3, PruneInvFrom
<1> QED
  BY <1>3, <1>4, <1>5, <1>6, <1>7 DEF Next, Prune

-----------------------------------------------------------------------------
(* The state predicate of KeepsNewest *)
Kept ==
  \A t \in Tables : \A i \in Msgs(t) :
    /\ rows[t][i].at = "deleted" => rows'[t][i].at = "deleted"
    /\ i \in Present(t) /\ rows'[t][i].at = "deleted" =>
         \/ OverTtl(t, i)
         \/ /\ Options[t].limit # None
            /\ Cardinality({k \in Present(t) : Newer(t, k, i) /\ rows'[t][k].at = "archive"})
                 >= Options[t].limit

LEMMA KeptStep == PruneInv /\ [Next]_vars => Kept
<1> SUFFICES ASSUME PruneInv, [Next]_vars, NEW t \in Tables, NEW i \in Msgs(t)
             PROVE  /\ rows[t][i].at = "deleted" => rows'[t][i].at = "deleted"
                    /\ i \in Present(t) /\ rows'[t][i].at = "deleted" =>
                         \/ OverTtl(t, i)
                         \/ /\ Options[t].limit # None
                            /\ Cardinality({k \in Present(t) : Newer(t, k, i)
                                              /\ rows'[t][k].at = "archive"})
                                 >= Options[t].limit
  BY DEF Kept
<1>0. Types
  BY DEF PruneInv
<1> DEFINE stay == {k \in Present(t) : Newer(t, k, i) /\ rows'[t][k].at = "archive"}
           Goal == /\ rows[t][i].at = "deleted" => rows'[t][i].at = "deleted"
                   /\ i \in Present(t) /\ rows'[t][i].at = "deleted" =>
                        \/ OverTtl(t, i)
                        \/ Options[t].limit # None /\ Cardinality(stay) >= Options[t].limit
<1> SUFFICES Goal
  OBVIOUS
<1>1. ASSUME rows'[t][i] = rows[t][i] PROVE Goal
  BY <1>1 DEF Present
<1>2. ASSUME NEW u \in Tables, NEW j \in Msgs(u), ArchiveRow(u, j) PROVE Goal
  <2>1. rows'[t][i] = rows[t][i] \/ (rows[t][i].at = "queue" /\ rows'[t][i].at = "archive")
    BY <1>0, <1>2, ArchiveStep
  <2> QED
    BY <1>1, <2>1
<1>3. ASSUME NEW w \in Pruners, Delete(w) PROVE Goal
  <2> DEFINE u == pruner[w].next
             batch == pruner[w].batch
  <2>0. u \in Tables /\ batch \subseteq Msgs(u) /\ StillOver(u, batch)
    BY DEF PruneInv, Types
  <2>1. /\ \A k \in batch : rows'[u][k].at = "deleted"
        /\ \A x \in Tables : \A k \in Msgs(x) :
             x # u \/ k \notin batch => rows'[x][k] = rows[x][k]
    BY <1>0, <1>3, DeleteStep
  <2> HIDE DEF u, batch
  <2>2. CASE t # u \/ i \notin batch
    BY <1>1, <2>1, <2>2
  <2>3. CASE t = u /\ i \in batch
    <3>1. rows'[t][i].at = "deleted"
      BY <2>1, <2>3
    <3>2. ASSUME i \in Present(t), ~OverTtl(t, i)
          PROVE  Options[t].limit # None /\ Cardinality(stay) >= Options[t].limit
      <4>1. Over(t, i)
        BY <2>0, <2>3, <3>2 DEF StillOver
      <4>2. /\ Options[t].limit # None
            /\ Cardinality(NewerThan(t, i) \ batch) >= Options[t].limit
        BY <1>0, <2>0, <2>3, <3>2, <4>1, LimitStays
      <4>3. NewerThan(t, i) \ batch = stay
        <5>1. \A k \in NewerThan(t, i) : k \in Msgs(t) /\ k \in Present(t)
                 /\ rows[t][k].at = "archive" /\ Newer(t, k, i)
          BY DEF NewerThan, Present
        <5>2. \A k \in NewerThan(t, i) \ batch : rows'[t][k] = rows[t][k]
          BY <2>1, <5>1
        <5>3. NewerThan(t, i) \ batch \subseteq stay
          BY <5>1, <5>2
        <5>4. ASSUME NEW k \in stay PROVE k \in NewerThan(t, i) \ batch
          BY <2>1, <2>3 DEF NewerThan
        <5> QED
          BY <5>3, <5>4
      <4> QED
        BY <4>2, <4>3
    <3> QED
      BY <3>1, <3>2
  <2> QED
    BY <2>2, <2>3
<1>4. ASSUME rows' = rows PROVE Goal
  BY <1>1, <1>4
<1> QED
  BY <1>2, <1>3, <1>4 DEF Next, Prune, Select, PruneRaises, Tick, vars

(* Whatever the number of workers that prune at the same time: a row that  *)
(* is deleted is over its ttl or limit newer rows stay, and it never comes *)
(* back.                                                                   *)
THEOREM KeepsNewestCorrect == Spec => KeepsNewest
<1>1. PruneInv /\ [Next]_vars => PruneInv'
  BY PruneInvStep
<1>2. PruneInv /\ [Next]_vars => [Kept]_vars
  BY KeptStep
<1>3. KeepsNewest <=> [][Kept]_vars
  BY DEF KeepsNewest, Kept
<1> QED
  BY <1>1, <1>2, <1>3, PruneInvInit, PTL DEF Spec
=============================================================================
