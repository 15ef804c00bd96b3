--------------------------- MODULE ListingProofs ---------------------------
(***************************************************************************)
(* What a listing shows, for every value of the constants of Listing.      *)
(***************************************************************************)
EXTENDS Listing, FiniteSetTheorems, TLAPS

Tables == {"queue", "archive"}

ListType ==
  [at : {"done", "count", "items"}, table : Tables, page : Nat \ {0}, total : Nat,
   seen : [MsgIds -> Nat], start : [MsgIds -> Places]]

TypeOK ==
  /\ where \in [MsgIds -> Places]
  /\ list \in ListType
  /\ late \subseteq MsgIds

(* A message goes one way. *)
Onward(p) ==
  CASE p = "unsent"   -> Places
    [] p = "assigned" -> Places \ {"unsent"}
    [] p = "queue"    -> {"queue", "archive", "gone"}
    [] p = "archive"  -> {"archive", "gone"}
    [] OTHER          -> {"gone"}

WayInv ==
  /\ \A i \in MsgIds : where[i] \in Onward(list.start[i])
  /\ \A k \in late : Sent(k) /\ list.start[k] \in {"unsent", "assigned"}

(* The messages that, coming in, move the items after them to a later      *)
(* place: into a queue only those whose senders were overtaken do.         *)
Pushing == IF list.table = "queue" THEN late ELSE Added

(* What has been shown is behind the next page, unless it was pushed. *)
RepeatInv ==
  \A i \in MsgIds : (\A k \in Pushing : ~(k < i)) =>
    /\ list.seen[i] \in {0, 1}
    /\ list.seen[i] = 1 =>
         /\ where[i] \in Entered[list.table]
         /\ where[i] = list.table => Rank(list.table, i) < Offset(list.page)

(* An item whose place in the order nobody has changed. *)
Steady(i) ==
  /\ list.start[i] = list.table /\ where[i] = list.table
  /\ \A k \in Added \cup Removed : ~(k < i)

(* What is still to be shown is on a page to come, and the total says that *)
(* there is one.                                                           *)
MissInv ==
  \A i \in MsgIds : Steady(i) /\ list.seen[i] = 0 =>
    /\ list.at = "done" => list.page = 1
    /\ list.at # "done" => Rank(list.table, i) >= Offset(list.page)
    /\ list.at = "items" => Rank(list.table, i) < list.total

ListInv == TypeOK /\ WayInv /\ RepeatInv /\ MissInv

-----------------------------------------------------------------------------
(* Ranks and pages. *)

LEMMA FiniteIds ==
  ASSUME NEW S \in SUBSET MsgIds
  PROVE  IsFiniteSet(S) /\ Cardinality(S) \in Nat
<1>1. IsFiniteSet(MsgIds)
  BY ListingAssumption, FS_Interval DEF MsgIds
<1>2. IsFiniteSet(S)
  BY <1>1, FS_Subset
<1> QED
  BY <1>2, FS_CardinalityType

LEMMA SubsetRank ==
  ASSUME NEW S \in SUBSET MsgIds, NEW T \in SUBSET S
  PROVE  Cardinality(T) \in Nat /\ Cardinality(S) \in Nat /\ Cardinality(T) <= Cardinality(S)
BY FiniteIds, FS_Subset

(* An item of a table has fewer items before it than the table has. *)
LEMMA RankBelowCount ==
  ASSUME NEW S \in SUBSET MsgIds, NEW i \in S
  PROVE  Cardinality({k \in S : k < i}) < Cardinality(S)
<1>1. IsFiniteSet(S) /\ IsFiniteSet({k \in S : k < i})
  BY FiniteIds
<1>2. i \in Nat
  BY ListingAssumption DEF MsgIds
<1>3. {k \in S : k < i} \subseteq S /\ {k \in S : k < i} # S
  BY <1>2
<1> QED
  BY <1>1, <1>3, FS_Subset, FS_CardinalityType

LEMMA NextPage ==
  ASSUME NEW page \in Nat \ {0}
  PROVE  /\ Offset(page) \in Nat
         /\ Offset(page + 1) = Offset(page) + PageSize
         /\ Offset(page + 1) = page * PageSize
         /\ PageSize \in Nat \ {0}
<1>1. PageSize \in Nat /\ PageSize # 0
  BY ListingAssumption
<1>2. (page + 1) - 1 = page
  OBVIOUS
<1>3. PICK before \in Nat : page = before + 1
  <2>1. page - 1 \in Nat /\ page = (page - 1) + 1
    OBVIOUS
  <2> QED
    BY <2>1
<1>4. (before + 1) * PageSize = before * PageSize + PageSize
  BY <1>1
<1>5. page - 1 = before
  BY <1>3
<1> QED
  BY <1>1, <1>2, <1>3, <1>4, <1>5 DEF Offset

-----------------------------------------------------------------------------
(* One message moves on; the client does nothing. *)

Moving(k, to) ==
  /\ where' = [where EXCEPT ![k] = to]
  /\ list' = list
  /\ <<where[k], to>> \in {<<"unsent", "assigned">>, <<"assigned", "queue">>,
                          <<"queue", "archive">>, <<"queue", "gone">>, <<"archive", "gone">>}
  /\ late' = IF to = "queue" THEN late \cup {i \in {k} : \E m \in MsgIds : m > i /\ Sent(m)}
             ELSE late

LEMMA MessageSteps ==
  ASSUME TypeOK, NEW k \in MsgIds, Assign(k) \/ Arrive(k) \/ Settle(k) \/ Prune(k)
  PROVE  \E to \in Places : Moving(k, to)
<1>1. CASE Assign(k)
  BY <1>1 DEF Assign, Move, Moving, Places
<1>2. CASE Arrive(k)
  BY <1>2 DEF Arrive, Move, Moving, Places
<1>3. CASE Settle(k)
  BY <1>3 DEF Settle, Move, Moving, Places
<1>4. CASE Prune(k)
  BY <1>4 DEF Prune, Move, Moving, Places
<1> QED
  BY <1>1, <1>2, <1>3, <1>4

LEMMA MovingType ==
  ASSUME ListInv, NEW k \in MsgIds, NEW to \in Places, Moving(k, to)
  PROVE  /\ TypeOK' /\ WayInv'
         /\ late \subseteq late' /\ Added \subseteq Added' /\ Removed \subseteq Removed'
<1>1. where \in [MsgIds -> Places] /\ where' = [where EXCEPT ![k] = to] /\ list' = list
  BY DEF ListInv, TypeOK, Moving
<1>2. TypeOK'
  <2>1. late' \subseteq MsgIds
    BY DEF ListInv, TypeOK, Moving
  <2> QED
    BY <1>1, <2>1 DEF ListInv, TypeOK
<1>3. list.start \in [MsgIds -> Places] /\ list.table \in Tables
  BY DEF ListInv, TypeOK, ListType
<1>4. \A i \in MsgIds : where[i] \in Onward(list.start[i])
  BY DEF ListInv, WayInv
<1>5. \A i \in MsgIds : where'[i] \in Onward(list.start[i])
  <2>1. SUFFICES ASSUME NEW i \in MsgIds PROVE where'[i] \in Onward(list.start[i])
    OBVIOUS
  <2>2. CASE i = k
    BY <1>1, <1>3, <1>4, <2>2 DEF Onward, Moving, Places
  <2>3. CASE i # k
    BY <1>1, <1>4, <2>3
  <2> QED
    BY <2>2, <2>3
<1>6. \A i \in late' : Sent(i)' /\ list.start[i] \in {"unsent", "assigned"}
  <2>1. SUFFICES ASSUME NEW i \in late' PROVE Sent(i)' /\ list.start[i] \in {"unsent", "assigned"}
    OBVIOUS
  <2>2. i \in MsgIds
    BY <1>2 DEF TypeOK
  <2>3. CASE i \in late
    <3>1. Sent(i) /\ list.start[i] \in {"unsent", "assigned"}
      BY <2>3 DEF ListInv, WayInv
    <3> QED
      BY <3>1, <1>1, <2>2 DEF Sent, Moving
  <2>4. CASE i \notin late
    <3>1. i = k /\ to = "queue" /\ where[k] = "assigned"
      BY <2>4 DEF Moving
    <3>2. list.start[k] \in {"unsent", "assigned"}
      BY <3>1, <1>3, <1>4 DEF Onward, Places
    <3> QED
      BY <3>1, <3>2, <1>1 DEF Sent
  <2> QED
    BY <2>3, <2>4
<1>7. Added \subseteq Added'
  BY <1>1, <1>3 DEF Added, Entered, Tables, Moving
<1>8. Removed \subseteq Removed'
  <2>1. \A i \in MsgIds : list.start[i] = list.table /\ where[i] # list.table
          => where'[i] # list.table
    <3>1. SUFFICES ASSUME list.start[k] = list.table, where[k] # list.table
                   PROVE  to # list.table
      BY <1>1
    <3> QED
      BY <3>1, <1>3, <1>4 DEF Onward, Tables, Moving
  <2> QED
    BY <2>1, <1>1 DEF Removed
<1> QED
  BY <1>1, <1>2, <1>5, <1>6, <1>7, <1>8 DEF WayInv, Moving

(* An item that was shown falls back only if one comes in before it.  That *)
(* one pushes: if the table is a queue, its sender was overtaken.          *)
LEMMA MovingRepeat ==
  ASSUME ListInv, NEW k \in MsgIds, NEW to \in Places, Moving(k, to)
  PROVE  RepeatInv'
<1> DEFINE t == list.table
<1>1. /\ where \in [MsgIds -> Places] /\ where' = [where EXCEPT ![k] = to] /\ list' = list
      /\ list.start \in [MsgIds -> Places] /\ t \in Tables /\ late' \subseteq MsgIds
      /\ list.page \in Nat \ {0} /\ WayInv /\ RepeatInv
  BY MovingType DEF ListInv, TypeOK, ListType, Moving
<1>2. Pushing \subseteq Pushing'
  BY MovingType, <1>1 DEF Pushing
<1>3. SUFFICES ASSUME NEW i \in MsgIds, \A j \in Pushing' : ~(j < i)
               PROVE  /\ list.seen[i] \in {0, 1}
                      /\ list.seen[i] = 1 =>
                           /\ where'[i] \in Entered[t]
                           /\ where'[i] = t => Rank(t, i)' < Offset(list.page)
  BY <1>1 DEF RepeatInv, Offset
<1>4. /\ list.seen[i] \in {0, 1}
      /\ list.seen[i] = 1 => where[i] \in Entered[t]
      /\ list.seen[i] = 1 /\ where[i] = t => Rank(t, i) < Offset(list.page)
  BY <1>1, <1>2, <1>3 DEF RepeatInv
<1>5. ASSUME list.seen[i] = 1
      PROVE  where'[i] \in Entered[t]
  BY <1>1, <1>4, <1>5 DEF Entered, Tables, Moving
<1>6. ASSUME list.seen[i] = 1, where'[i] = t
      PROVE  Rank(t, i)' < Offset(list.page)
  <2>1. where[i] = t
    BY <1>1, <1>4, <1>6 DEF Entered, Tables, Moving
  <2>2. ASSUME NEW j \in MsgIds, where'[j] = t, j < i
        PROVE  where[j] = t
    <3>1. SUFFICES ASSUME j = k, where[j] # t PROVE FALSE
      BY <1>1, <2>2
    <3>2. to = t /\ k < i
      BY <1>1, <2>2, <3>1
    <3>3. CASE t = "queue"
      <4>1. where[k] = "assigned" /\ Sent(i)
        BY <2>1, <3>2, <3>3 DEF Moving, Sent
      <4>2. i > k
        BY <3>2, ListingAssumption DEF MsgIds
      <4>3. k \in late'
        BY <3>2, <3>3, <4>1, <4>2 DEF Moving
      <4> QED
        BY <1>1, <1>3, <3>2, <3>3, <4>3 DEF Pushing
    <3>4. CASE t = "archive"
      <4>1. where[k] = "queue"
        BY <3>2, <3>4 DEF Moving
      <4>2. list.start[k] \notin {"archive", "gone"}
        BY <1>1, <4>1 DEF WayInv, Onward
      <4>3. k \in Added'
        BY <1>1, <3>2, <3>4, <4>2 DEF Added, Entered
      <4> QED
        BY <1>1, <1>3, <3>2, <3>4, <4>3 DEF Pushing
    <3> QED
      BY <1>1, <3>3, <3>4 DEF Tables
  <2>3. {j \in MsgIds : where'[j] = t /\ j < i} \subseteq {j \in MsgIds : where[j] = t /\ j < i}
    BY <2>2
  <2>4. /\ {j \in In(t) : j < i} = {j \in MsgIds : where[j] = t /\ j < i}
        /\ {j \in In(t) : j < i}' = {j \in MsgIds : where'[j] = t /\ j < i}
    BY <1>1 DEF In
  <2>5. Cardinality({j \in MsgIds : where'[j] = t /\ j < i})
          <= Cardinality({j \in MsgIds : where[j] = t /\ j < i})
        /\ Cardinality({j \in MsgIds : where'[j] = t /\ j < i}) \in Nat
        /\ Cardinality({j \in MsgIds : where[j] = t /\ j < i}) \in Nat
    BY <2>3, SubsetRank
  <2>6. Rank(t, i)' <= Rank(t, i) /\ Rank(t, i)' \in Nat /\ Rank(t, i) \in Nat
    BY <1>1, <2>4, <2>5 DEF Rank
  <2>7. Rank(t, i) < Offset(list.page) /\ Offset(list.page) \in Nat
    BY <1>1, <1>4, <1>6, <2>1, NextPage
  <2> QED
    BY <2>6, <2>7
<1> QED
  BY <1>4, <1>5, <1>6

(* The rank of a steady item does not change. *)
LEMMA MovingMiss ==
  ASSUME ListInv, NEW k \in MsgIds, NEW to \in Places, Moving(k, to)
  PROVE  MissInv'
<1> DEFINE t == list.table
<1>1. /\ where \in [MsgIds -> Places] /\ where' = [where EXCEPT ![k] = to] /\ list' = list
      /\ list.start \in [MsgIds -> Places] /\ t \in Tables
      /\ WayInv /\ MissInv
      /\ Added \subseteq Added' /\ Removed \subseteq Removed'
  BY MovingType DEF ListInv, TypeOK, ListType, Moving
<1>2. ASSUME NEW i \in MsgIds, Steady(i)'
      PROVE  Steady(i) /\ Rank(t, i)' = Rank(t, i)
  <2>1. /\ list.start[i] = t /\ where'[i] = t
        /\ \A j \in Added' \cup Removed' : ~(j < i)
    BY <1>1, <1>2 DEF Steady
  <2>2. where[i] = t
    <3>1. SUFFICES ASSUME i = k, where[i] # t PROVE FALSE
      BY <1>1, <2>1
    <3>2. to = t /\ where[k] \in Onward(t)
      BY <1>1, <2>1, <3>1 DEF WayInv
    <3> QED
      BY <1>1, <3>1, <3>2 DEF Onward, Tables, Moving
  <2>3. Steady(i)
    BY <1>1, <2>1, <2>2 DEF Steady
  <2>4. ASSUME NEW j \in MsgIds, j < i
        PROVE  where'[j] = t <=> where[j] = t
    <3>1. CASE j # k
      BY <1>1, <3>1
    <3>2. CASE j = k
      <4>1. k \notin Added' /\ k \notin Removed'
        BY <2>1, <2>4, <3>2
      <4>2. /\ list.start[k] \in Entered[t] \/ to \notin Entered[t]
            /\ list.start[k] # t \/ to = t
        BY <1>1, <4>1 DEF Added, Removed
      <4>3. where[k] \in Onward(list.start[k]) /\ list.start[k] \in Places
        BY <1>1 DEF WayInv
      <4> QED
        BY <1>1, <3>2, <4>2, <4>3 DEF Entered, Tables, Onward, Places, Moving
    <3> QED
      BY <3>1, <3>2
  <2>5. {j \in MsgIds : where'[j] = t /\ j < i} = {j \in MsgIds : where[j] = t /\ j < i}
    BY <2>4
  <2>6. /\ {j \in In(t) : j < i} = {j \in MsgIds : where[j] = t /\ j < i}
        /\ {j \in In(t) : j < i}' = {j \in MsgIds : where'[j] = t /\ j < i}
    BY <1>1 DEF In
  <2> QED
    BY <1>1, <2>3, <2>5, <2>6 DEF Rank
<1>3. SUFFICES ASSUME NEW i \in MsgIds, Steady(i)', list.seen[i] = 0
               PROVE  /\ list.at = "done" => list.page = 1
                      /\ list.at # "done" => Rank(t, i)' >= Offset(list.page)
                      /\ list.at = "items" => Rank(t, i)' < list.total
  BY <1>1 DEF MissInv, Offset
<1>4. Steady(i) /\ Rank(t, i)' = Rank(t, i)
  BY <1>2, <1>3
<1> QED
  BY <1>1, <1>3, <1>4 DEF MissInv

-----------------------------------------------------------------------------
(* The client. *)

LEMMA RequestInv ==
  ASSUME ListInv, NEW table \in Tables, Request(table)
  PROVE  ListInv'
<1>1. /\ list' = NewList("count", table, where) /\ late' = {} /\ where' = where
      /\ where \in [MsgIds -> Places]
  BY DEF ListInv, TypeOK, Request
<1>2. /\ list'.table = table /\ list'.page = 1 /\ list'.start = where /\ list'.at = "count"
      /\ list'.seen = [i \in MsgIds |-> 0]
  BY <1>1 DEF NewList
<1>3. TypeOK'
  BY <1>1 DEF TypeOK, ListType, NewList
<1>4. WayInv'
  BY <1>1, <1>2 DEF WayInv, Onward, Places
<1>5. RepeatInv'
  BY <1>2 DEF RepeatInv
<1>6. MissInv'
  <2>1. Offset(1) = 0
    BY ListingAssumption DEF Offset
  <2>2. ASSUME NEW i \in MsgIds
        PROVE  Rank(table, i)' \in Nat
    <3>1. {j \in In(table)' : j < i} \in SUBSET MsgIds
      BY DEF In
    <3> QED
      BY <3>1, FiniteIds DEF Rank
  <2>3. \A i \in MsgIds : Rank(table, i)' >= 0
    BY <2>2
  <2> QED
    BY <1>2, <2>1, <2>3 DEF MissInv, Offset
<1> QED
  BY <1>3, <1>4, <1>5, <1>6 DEF ListInv

LEMMA CountInv ==
  ASSUME ListInv, CountItems
  PROVE  ListInv'
<1> DEFINE t == list.table
<1>1. /\ where' = where /\ late' = late /\ where \in [MsgIds -> Places]
      /\ list \in ListType /\ list.at = "count"
      /\ list' = [list EXCEPT !.at = "items", !.total = Cardinality(In(t))]
  BY DEF ListInv, TypeOK, CountItems
<1>2. In(t) \in SUBSET MsgIds /\ Cardinality(In(t)) \in Nat
  BY FiniteIds DEF In
<1>3. /\ list' \in ListType /\ list'.at = "items" /\ list'.total = Cardinality(In(t))
      /\ list'.table = t /\ list'.page = list.page /\ list'.seen = list.seen
      /\ list'.start = list.start
  BY <1>1, <1>2 DEF ListType
<1>4. In(t)' = In(t) /\ Added' = Added /\ Removed' = Removed
  BY <1>1, <1>3 DEF In, Added, Removed
<1>5. TypeOK'
  BY <1>1, <1>3 DEF ListInv, TypeOK
<1>6. WayInv'
  BY <1>1, <1>3 DEF ListInv, WayInv, Sent
<1>7. RepeatInv'
  BY <1>1, <1>3, <1>4 DEF ListInv, RepeatInv, Pushing, Rank, Offset
<1>8. MissInv'
  <2>1. SUFFICES ASSUME NEW i \in MsgIds, Steady(i)', list.seen[i] = 0
                 PROVE  Rank(t, i)' >= Offset(list.page) /\ Rank(t, i)' < Cardinality(In(t))
    BY <1>3 DEF MissInv, Offset
  <2>2. Steady(i) /\ Rank(t, i)' = Rank(t, i)
    BY <1>1, <1>3, <1>4, <2>1 DEF Steady, Rank
  <2>3. Rank(t, i) >= Offset(list.page)
    BY <1>1, <2>1, <2>2 DEF ListInv, MissInv
  <2>4. Rank(t, i) < Cardinality(In(t))
    <3>1. i \in In(t)
      BY <2>2 DEF Steady, In
    <3> QED
      BY <1>2, <3>1, RankBelowCount DEF Rank
  <2> QED
    BY <2>2, <2>3, <2>4
<1> QED
  BY <1>5, <1>6, <1>7, <1>8 DEF ListInv

LEMMA ItemsInv ==
  ASSUME ListInv, ListItems
  PROVE  ListInv'
<1> DEFINE t    == list.table
           page == list.page
           shown(i) == IF i \in Page(t, page) THEN 1 ELSE 0
<1>1. /\ where' = where /\ late' = late /\ where \in [MsgIds -> Places]
      /\ list \in ListType /\ list.at = "items"
      /\ list' = [list EXCEPT
                    !.at = IF page * PageSize < list.total THEN "count" ELSE "done",
                    !.page = page + 1,
                    !.seen = [i \in MsgIds |-> list.seen[i] + shown(i)]]
  BY DEF ListInv, TypeOK, ListItems
<1>2. /\ page \in Nat \ {0} /\ page + 1 \in Nat \ {0} /\ list.seen \in [MsgIds -> Nat]
      /\ list.total \in Nat
  BY <1>1 DEF ListType
<1>3. [i \in MsgIds |-> list.seen[i] + shown(i)] \in [MsgIds -> Nat]
  BY <1>2
<1>4. /\ list'.at = IF page * PageSize < list.total THEN "count" ELSE "done"
      /\ list'.total = list.total /\ list'.table = t /\ list'.page = page + 1
      /\ list'.seen = [i \in MsgIds |-> list.seen[i] + shown(i)]
      /\ list'.start = list.start
  BY <1>1 DEF ListType
<1>5. list' \in ListType
  BY <1>1, <1>2, <1>3 DEF ListType
<1>6. In(t)' = In(t) /\ Added' = Added /\ Removed' = Removed
  BY <1>1, <1>4 DEF In, Added, Removed
<1>7. TypeOK'
  BY <1>1, <1>5 DEF ListInv, TypeOK
<1>8. WayInv'
  BY <1>1, <1>4 DEF ListInv, WayInv, Sent
<1>9. ASSUME NEW i \in MsgIds
      PROVE  /\ Rank(t, i) \in Nat /\ Rank(t, i)' = Rank(t, i)
             /\ i \in Page(t, page) <=>
                  where[i] = t /\ Offset(page) <= Rank(t, i) /\ Rank(t, i) < Offset(page + 1)
             /\ list'.seen[i] = list.seen[i] + shown(i)
  <2>1. {k \in In(t) : k < i} \in SUBSET MsgIds
    BY DEF In
  <2>2. Rank(t, i) \in Nat /\ Rank(t, i)' = Rank(t, i)
    BY <2>1, <1>6, FiniteIds DEF Rank
  <2> QED
    BY <1>2, <1>4, <2>2, NextPage DEF Page, In
<1>10. /\ Offset(page) \in Nat /\ Offset(page + 1) \in Nat /\ Offset(page) < Offset(page + 1)
       /\ Offset(page + 1) = page * PageSize
  <2>1. /\ Offset(page) \in Nat /\ Offset(page + 1) = Offset(page) + PageSize
        /\ Offset(page + 1) = page * PageSize /\ PageSize \in Nat \ {0}
    BY <1>2, NextPage, Zenon
  <2>2. \A o \in Nat, size \in Nat \ {0} : o + size \in Nat /\ o < o + size
    OBVIOUS
  <2> QED
    BY <2>1, <2>2
<1>11. RepeatInv'
  <2>1. SUFFICES ASSUME NEW i \in MsgIds, \A k \in Pushing : ~(k < i)
                 PROVE  /\ list'.seen[i] \in {0, 1}
                        /\ list'.seen[i] = 1 =>
                             /\ where[i] \in Entered[t]
                             /\ where[i] = t => Rank(t, i) < Offset(page + 1)
    BY <1>1, <1>4, <1>6, <1>9 DEF RepeatInv, Pushing, Offset
  <2>2. /\ list.seen[i] \in {0, 1}
        /\ list.seen[i] = 1 =>
             /\ where[i] \in Entered[t]
             /\ where[i] = t => Rank(t, i) < Offset(page)
    BY <2>1 DEF ListInv, RepeatInv
  <2>3. CASE i \in Page(t, page)
    <3>1. /\ where[i] = t /\ Rank(t, i) \in Nat /\ Offset(page) <= Rank(t, i)
          /\ Rank(t, i) < Offset(page + 1) /\ list'.seen[i] = list.seen[i] + 1
      BY <1>9, <2>3
    <3>2. list.seen[i] = 0
      BY <1>10, <2>2, <3>1
    <3>3. where[i] \in Entered[t]
      BY <1>1, <3>1 DEF Entered, ListType, Tables
    <3> QED
      BY <3>1, <3>2, <3>3
  <2>4. CASE i \notin Page(t, page)
    <3>1. list'.seen[i] = list.seen[i] /\ Rank(t, i) \in Nat
      BY <1>2, <1>9, <2>4
    <3> QED
      BY <1>10, <2>2, <3>1
  <2> QED
    BY <2>3, <2>4
<1>12. MissInv'
  <2>1. SUFFICES ASSUME NEW i \in MsgIds, Steady(i)', list'.seen[i] = 0
                 PROVE  /\ list'.at = "count"
                        /\ Rank(t, i) >= Offset(page + 1)
    BY <1>4, <1>9 DEF MissInv, Offset
  <2>2. Steady(i)
    BY <1>1, <1>4, <1>6, <2>1 DEF Steady
  <2>3. list.seen[i] = 0 /\ i \notin Page(t, page)
    BY <1>2, <1>9, <2>1
  <2>4. Rank(t, i) >= Offset(page) /\ Rank(t, i) < list.total
    BY <1>1, <2>2, <2>3 DEF ListInv, MissInv
  <2>5. where[i] = t
    BY <2>2 DEF Steady
  <2>6. Rank(t, i) >= Offset(page + 1)
    BY <1>9, <1>10, <2>3, <2>4, <2>5
  <2>7. page * PageSize < list.total
    BY <1>2, <1>9, <1>10, <2>4, <2>6
  <2> QED
    BY <1>4, <2>6, <2>7
<1> QED
  BY <1>7, <1>8, <1>11, <1>12 DEF ListInv

LEMMA ListInit == Init => ListInv
<1> SUFFICES ASSUME Init PROVE ListInv
  OBVIOUS
<1>1. /\ where = [i \in MsgIds |-> "unsent"] /\ late = {}
      /\ list = NewList("done", "queue", where)
  BY DEF Init
<1>2. where \in [MsgIds -> Places]
  BY <1>1 DEF Places
<1>3. TypeOK
  BY <1>1, <1>2 DEF TypeOK, ListType, NewList, Tables
<1>4. WayInv
  BY <1>1 DEF WayInv, Onward, NewList, Places
<1>5. RepeatInv
  BY <1>1 DEF RepeatInv, NewList
<1>6. MissInv
  BY <1>1 DEF MissInv, NewList
<1> QED
  BY <1>3, <1>4, <1>5, <1>6 DEF ListInv

LEMMA ListStep == ListInv /\ [Next]_vars => ListInv'
<1> SUFFICES ASSUME ListInv, [Next]_vars PROVE ListInv'
  OBVIOUS
<1>1. ASSUME NEW k \in MsgIds, Assign(k) \/ Arrive(k) \/ Settle(k) \/ Prune(k)
      PROVE  ListInv'
  <2>1. PICK to \in Places : Moving(k, to)
    BY <1>1, MessageSteps DEF ListInv
  <2> QED
    BY <2>1, MovingType, MovingRepeat, MovingMiss DEF ListInv
<1>2. ASSUME NEW t \in Tables, Request(t)
      PROVE  ListInv'
  BY <1>2, RequestInv
<1>3. CASE CountItems
  BY <1>3, CountInv
<1>4. CASE ListItems
  BY <1>4, ItemsInv
<1>5. CASE UNCHANGED vars
  <2>1. where' = where /\ list' = list /\ late' = late
    BY <1>5 DEF vars
  <2> QED
    BY <2>1 DEF ListInv, TypeOK, WayInv, RepeatInv, MissInv, Pushing, Steady, Added, Removed,
       Rank, In, Offset, Sent
<1> QED
  BY <1>1, <1>2, <1>3, <1>4, <1>5 DEF Next, Tables

LEMMA ListCorrect == Spec => []ListInv
BY ListInit, ListStep, PTL DEF Spec

(* Listing all pages of a table shows an item twice, or misses one that    *)
(* was there all the time, only if one with a smaller id came or left      *)
(* (_list_items): however long the list, and however the pages cut it.     *)
THEOREM ListedOnceCorrect == Spec => []ListedOnce
<1>1. ListInv => ListedOnce
  <2> SUFFICES ASSUME ListInv, list.at = "done", list.page > 1, NEW i \in MsgIds
               PROVE  /\ list.seen[i] > 1 => \E k \in Added : k < i
                      /\ list.seen[i] = 0 /\ list.start[i] = list.table /\ where[i] = list.table
                           => \E k \in Added \cup Removed : k < i
    BY DEF ListedOnce
  <2>1. Pushing \subseteq Added
    BY DEF ListInv, TypeOK, WayInv, Pushing, Added, Entered, Sent, Places
  <2>2. ASSUME \A k \in Added : ~(k < i)
        PROVE  ~(list.seen[i] > 1)
    <3>1. list.seen[i] \in {0, 1}
      BY <2>1, <2>2 DEF ListInv, RepeatInv
    <3> QED
      BY <3>1
  <2>3. ASSUME \A k \in Added \cup Removed : ~(k < i),
               list.seen[i] = 0, list.start[i] = list.table, where[i] = list.table
        PROVE  FALSE
    <3>1. list.page = 1
      BY <2>3 DEF ListInv, MissInv, Steady
    <3> QED
      BY <3>1
  <2> QED
    BY <2>2, <2>3
<1> QED
  BY <1>1, ListCorrect, PTL

(* New items of a queue come last: at any moment of a listing, an item has *)
(* been shown twice only if a message with a smaller id was committed      *)
(* after it, since the client began.                                       *)
THEOREM QueueOnceCorrect == Spec => []QueueOnce
<1>1. ListInv => QueueOnce
  <2> SUFFICES ASSUME ListInv, list.table = "queue", NEW i \in MsgIds,
                      \A k \in late : ~(k < i)
               PROVE  ~(list.seen[i] > 1)
    BY DEF QueueOnce
  <2>1. list.seen[i] \in {0, 1}
    BY DEF ListInv, RepeatInv, Pushing
  <2> QED
    BY <2>1
<1> QED
  BY <1>1, ListCorrect, PTL
=============================================================================
