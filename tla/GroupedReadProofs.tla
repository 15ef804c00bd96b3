-------------------------- MODULE GroupedReadProofs --------------------------
(***************************************************************************)
(* The properties of GroupedRead, for any number of readers and groups and *)
(* whatever the polls ask for.                                             *)
(***************************************************************************)
EXTENDS GroupedRead, LimitProofs

Pcs == {"idle", "read", "poll", "commit"}

(* What the step lemmas need of the types. *)
Types ==
  /\ rows \in [MsgIds -> Row]
  /\ \A w \in Readers : reader[w].pc \in Pcs
                        /\ DOMAIN reader[w].snap \subseteq MsgIds
                        /\ reader[w].taken \subseteq MsgIds
  /\ \A w \in Readers : IF reader[w].pc = "idle" THEN reader[w].qty = 0 ELSE reader[w].qty \in Qtys
  /\ DOMAIN reader = Readers

-----------------------------------------------------------------------------
(* How a step changes the readers: all but one stay as they are.           *)
LEMMA ReaderStep ==
  ASSUME Types, NEW w \in Readers, NEW r, reader' = [reader EXCEPT ![w] = r]
  PROVE  /\ reader'[w] = r /\ DOMAIN reader' = Readers
         /\ \A v \in Readers : v # w => reader'[v] = reader[v]
BY DEF Types

LEMMA Records ==
  ASSUME NEW pc, NEW qty, NEW snap, NEW taken
  PROVE  /\ Reader(pc, qty, snap, taken).pc = pc /\ Reader(pc, qty, snap, taken).qty = qty
         /\ Reader(pc, qty, snap, taken).snap = snap
         /\ Reader(pc, qty, snap, taken).taken = taken
         /\ Idle.pc = "idle" /\ Idle.qty = 0 /\ DOMAIN Idle.snap = {} /\ Idle.taken = {}
BY DEF Reader, Idle

LEMMA ReleaseStep ==
  ASSUME Types, NEW w \in Readers, Release(w)
  PROVE  /\ reader'[w].pc = "idle" /\ reader'[w].qty = 0
         /\ DOMAIN reader'[w].snap = {} /\ reader'[w].taken = {}
         /\ DOMAIN reader' = Readers
         /\ \A v \in Readers : v # w => reader'[v] = reader[v]
<1>1. reader' = [reader EXCEPT ![w] = Idle]
  BY DEF Release
<1> QED
  BY <1>1, ReaderStep, Records

LEMMA BeginStep ==
  ASSUME Types, NEW w \in Readers, Begin(w)
  PROVE  /\ reader'[w].pc = "read" /\ reader'[w].qty \in Qtys
         /\ DOMAIN reader'[w].snap = Queued
         /\ reader'[w].taken = {}
         /\ DOMAIN reader' = Readers
         /\ \A v \in Readers : v # w => reader'[v] = reader[v]
         /\ rows' = rows /\ late' = late /\ many' = many
<1>1. PICK qty \in IF reader[w].pc = "idle" THEN Qtys ELSE {reader[w].qty} :
        reader' = [reader EXCEPT ![w] = Reader("read", qty, [m \in Queued |-> rows[m].version], {})]
  BY DEF Begin
<1>2. qty \in Qtys
  BY <1>1 DEF Types
<1> DEFINE r == Reader("read", qty, [m \in Queued |-> rows[m].version], {})
<1>3. reader' = [reader EXCEPT ![w] = r] /\ rows' = rows /\ late' = late /\ many' = many
  BY <1>1 DEF Begin
<1>4. r.pc = "read" /\ r.qty = qty /\ r.snap = [m \in Queued |-> rows[m].version] /\ r.taken = {}
  BY Records
<1>5. DOMAIN r.snap = Queued
  BY <1>4
<1> HIDE DEF r
<1> QED
  BY <1>3, <1>4, <1>5, <1>2, ReaderStep

LEMMA TakeStep ==
  ASSUME Types, NEW w \in Readers, Take(w)
  PROVE  /\ reader[w].pc = "read"
         /\ reader'[w].pc \in {"poll", "commit"} /\ reader'[w].qty = reader[w].qty
         /\ DOMAIN reader'[w].snap = {}
         /\ reader'[w].taken \subseteq {m \in Selected(w) : Updatable(m)}
         /\ \A m \in Selected(w) : Updatable(m) /\ ~(rows[m].version > 0) => m \in reader'[w].taken
         /\ reader'[w].pc = "poll" => reader'[w].taken = {}
         /\ DOMAIN reader' = Readers
         /\ \A v \in Readers : v # w => reader'[v] = reader[v]
         /\ rows' = rows /\ late' = late /\ many' = many
<1> DEFINE free == {m \in Selected(w) : Updatable(m)}
<1>1. /\ rows' = rows /\ late' = late /\ many' = many
      /\ reader[w].pc = "read"
  BY Zenon DEF Take
<1>2. PICK inUse \in SUBSET {m \in free : rows[m].version > 0} :
        LET taken == free \ inUse
        IN /\ inUse # {} => faults < MaxFaults
           /\ faults' = IF inUse = {} THEN faults ELSE faults + 1
           /\ reader' = [reader EXCEPT ![w] =
                           Reader(IF taken = {} THEN "poll" ELSE "commit",
                                  reader[w].qty, << >>, taken)]
  BY Zenon DEF Take
<1> DEFINE taken == free \ inUse
           pc == IF taken = {} THEN "poll" ELSE "commit"
           r == Reader(pc, reader[w].qty, << >>, taken)
<1>3. reader' = [reader EXCEPT ![w] = r]
  BY Zenon, <1>2
<1>4. r.pc = pc /\ r.qty = reader[w].qty /\ r.snap = << >> /\ r.taken = taken
  BY Records
<1>5. DOMAIN r.snap = {} /\ pc \in {"poll", "commit"} /\ (pc = "poll" => taken = {})
  <2>1. DOMAIN << >> = {}
    OBVIOUS
  <2> QED
    BY <1>4, <2>1
<1>6. /\ taken \subseteq {m \in Selected(w) : Updatable(m)}
      /\ \A m \in Selected(w) : Updatable(m) /\ ~(rows[m].version > 0) => m \in taken
  OBVIOUS
<1> HIDE DEF r, pc, taken
<1>7. /\ reader'[w] = r /\ DOMAIN reader' = Readers
      /\ \A v \in Readers : v # w => reader'[v] = reader[v]
  BY <1>3, ReaderStep
<1>8. /\ reader'[w].pc = pc /\ reader'[w].qty = reader[w].qty
      /\ DOMAIN reader'[w].snap = {} /\ reader'[w].taken = taken
  BY <1>4, <1>5, <1>7
<1> QED
  BY <1>1, <1>5, <1>6, <1>7, <1>8

LEMMA TakenUpdatable == ASSUME NEW m, Updatable(m)
                        PROVE  m \in MsgIds /\ m \in Queued /\ ~rows[m].hidden /\ ~RowLocked(m)
BY DEF Updatable, Queued

LEMMA ReadAgain ==
  ASSUME NEW row \in Row
  PROVE  [row EXCEPT !.hidden = TRUE, !.version = row.version + 1] \in Row
<1>1. \A n \in Nat : [row EXCEPT !.hidden = TRUE, !.version = n] \in Row
  BY DEF Row
<1>2. row.version + 1 \in Nat
  BY DEF Row
<1> QED
  BY <1>1, <1>2

(* How a step changes a row. *)
LEMMA PostponeRow ==
  ASSUME Types, NEW i \in MsgIds, Postpone(i)
  PROVE  /\ rows' \in [MsgIds -> Row] /\ reader' = reader /\ late' = late /\ many' = many
         /\ i \in Queued /\ ~RowLocked(i)
         /\ rows[i].version > 0 /\ rows'[i].version > 0 /\ rows'[i].at = rows[i].at
         /\ \A m \in MsgIds : m # i => rows'[m] = rows[m]
<1>1. rows[i] \in Row /\ rows \in [MsgIds -> Row]
  BY DEF Types
<1>2. rows' = [rows EXCEPT ![i] = [rows[i] EXCEPT !.hidden = TRUE, !.version = rows[i].version + 1]]
  BY <1>1 DEF Postpone
<1>3. [rows[i] EXCEPT !.hidden = TRUE, !.version = rows[i].version + 1] \in Row
  BY <1>1, ReadAgain
<1>4. rows'[i].version = rows[i].version + 1 /\ rows'[i].at = rows[i].at /\ rows[i].version \in Nat
  BY <1>1, <1>2 DEF Row
<1>5. rows[i].version > 0 /\ i \in Queued /\ ~RowLocked(i)
      /\ reader' = reader /\ late' = late /\ many' = many
  BY DEF Postpone
<1>6. rows'[i].version > 0
  BY <1>4, <1>5
<1> QED
  BY <1>1, <1>2, <1>3, <1>4, <1>5, <1>6

LEMMA CommitRow ==
  ASSUME Types, NEW w \in Readers, Commit(w), NEW m \in MsgIds
  PROVE  /\ m \notin reader[w].taken => rows'[m] = rows[m]
         /\ m \in reader[w].taken => /\ rows'[m].at = rows[m].at /\ rows'[m].hidden
                                     /\ rows'[m].version = rows[m].version + 1
         /\ rows' \in [MsgIds -> Row] /\ late' = late
<1>1. rows' = [k \in MsgIds |-> IF k \in reader[w].taken
                                THEN [rows[k] EXCEPT !.hidden = TRUE, !.version = @ + 1]
                                ELSE rows[k]]
      /\ late' = late
  BY DEF Commit
<1>2. \A k \in MsgIds : rows[k] \in Row
  BY DEF Types
<1>3. ASSUME NEW k \in MsgIds
      PROVE  [rows[k] EXCEPT !.hidden = TRUE, !.version = @ + 1] \in Row
  BY <1>2, ReadAgain DEF Row
<1> QED
  BY <1>1, <1>2, <1>3 DEF Row

-----------------------------------------------------------------------------
LEMMA TypesInit == Init => Types
<1> SUFFICES ASSUME Init PROVE Types
  OBVIOUS
<1>1. NewRow("unsent") \in Row
  BY DEF NewRow, Row
<1>2. rows \in [MsgIds -> Row]
  BY <1>1 DEF Init
<1>3. \A w \in Readers : reader[w] = Idle
  BY DEF Init
<1>4. DOMAIN reader = Readers
  BY DEF Init
<1> QED
  BY <1>2, <1>3, <1>4, Records DEF Types, Pcs

LEMMA TypesStep == Types /\ [Next]_vars => Types'
<1> SUFFICES ASSUME Types, [Next]_vars PROVE Types'
  OBVIOUS
<1> USE DEF Types
<1>1. ASSUME NEW w \in Readers, Begin(w) PROVE Types'
  BY <1>1, BeginStep DEF Pcs, Queued
<1>2. ASSUME NEW w \in Readers, Take(w) PROVE Types'
  BY <1>2, TakeStep, TakenUpdatable DEF Pcs
<1>3. ASSUME NEW w \in Readers, Commit(w) PROVE Types'
  <2>1. Release(w)
    BY <1>3 DEF Commit
  <2>2. rows' \in [MsgIds -> Row]
    <3>1. CASE MsgIds = {}
      BY <1>3, <3>1 DEF Commit
    <3>2. CASE MsgIds # {}
      BY <1>3, <3>2, CommitRow
    <3> QED BY <3>1, <3>2
  <2> QED
    BY <2>1, <2>2, ReleaseStep DEF Pcs
<1>4. ASSUME NEW w \in Readers, TimeOut(w) \/ Rollback(w) PROVE Types'
  BY <1>4, ReleaseStep DEF TimeOut, Rollback, Pcs
<1>5. ASSUME NEW m \in MsgIds, Assign(m) \/ Arrive(m) \/ Settle(m) \/ Expire(m) \/ Postpone(m) PROVE Types'
  <2>1. reader' = reader
    BY <1>5 DEF Assign, Arrive, Settle, Expire, Postpone
  <2>2. rows[m] \in Row
    OBVIOUS
  <2>3. /\ [rows[m] EXCEPT !.at = "assigned"] \in Row
        /\ [rows[m] EXCEPT !.at = "queue"] \in Row
        /\ [rows[m] EXCEPT !.hidden = FALSE] \in Row
        /\ NewRow("left") \in Row
    BY <2>2 DEF Row, NewRow
  <2>4. rows' \in [MsgIds -> Row]
    BY <1>5, <2>3, PostponeRow DEF Assign, Arrive, Settle, Expire
  <2> QED
    BY <2>1, <2>4
<1>6. CASE UNCHANGED vars
  BY <1>6 DEF vars
<1> QED
  BY <1>1, <1>2, <1>3, <1>4, <1>5, <1>6 DEF Next, Poll

-----------------------------------------------------------------------------
LEMMA ReadOnceInit == Init => ReadOnce
BY Records DEF Init, ReadOnce

LEMMA ReadOnceStep == Types /\ ReadOnce /\ [Next]_vars => ReadOnce'
<1> SUFFICES ASSUME Types, ReadOnce, [Next]_vars,
                    NEW u \in Readers, NEW m \in reader'[u].taken
             PROVE  /\ m \in MsgIds /\ rows'[m].at = "queue" /\ ~rows'[m].hidden
                    /\ \A v \in Readers : m \in reader'[v].taken => v = u
  BY DEF ReadOnce, Queued
<1>1. ASSUME NEW v \in Readers, NEW k \in reader[v].taken
      PROVE  /\ k \in MsgIds /\ rows[k].at = "queue" /\ ~rows[k].hidden
             /\ \A x \in Readers : k \in reader[x].taken => x = v
  BY <1>1 DEF ReadOnce, Queued
<1> DEFINE Goal == /\ m \in MsgIds /\ rows'[m].at = "queue" /\ ~rows'[m].hidden
                   /\ \A v \in Readers : m \in reader'[v].taken => v = u
<1> SUFFICES Goal
  OBVIOUS
<1>2. ASSUME NEW w \in Readers, Begin(w) PROVE Goal
  BY <1>1, <1>2, BeginStep
<1>3. ASSUME NEW w \in Readers, Take(w) PROVE Goal
  <2>1. \A k \in reader'[w].taken :
          /\ k \in MsgIds /\ rows[k].at = "queue" /\ ~rows[k].hidden
          /\ \A v \in Readers : k \notin reader[v].taken
    BY <1>3, TakeStep, TakenUpdatable DEF RowLocked, Queued
  <2>2. rows' = rows /\ \A v \in Readers : v # w => reader'[v] = reader[v]
    BY <1>3, TakeStep
  <2> QED
    BY <1>1, <2>1, <2>2
<1>4. ASSUME NEW w \in Readers, Commit(w) PROVE Goal
  <2>1. Release(w)
    BY <1>4 DEF Commit
  <2>2. reader'[w].taken = {} /\ \A v \in Readers : v # w => reader'[v] = reader[v]
    BY <2>1, ReleaseStep
  <2>3. u # w /\ m \in reader[u].taken /\ m \notin reader[w].taken
    BY <1>1, <2>2
  <2>4. rows'[m] = rows[m]
    BY <1>1, <1>4, <2>3, CommitRow
  <2> QED
    BY <1>1, <2>2, <2>3, <2>4
<1>5. ASSUME NEW w \in Readers, TimeOut(w) \/ Rollback(w) PROVE Goal
  <2>1. Release(w) /\ rows' = rows
    BY <1>5 DEF TimeOut, Rollback
  <2> QED
    BY <1>1, <2>1, ReleaseStep
<1>6. ASSUME NEW k \in MsgIds, Assign(k) \/ Arrive(k) \/ Settle(k) \/ Expire(k) \/ Postpone(k)
      PROVE  Goal
  <2>1. reader' = reader
    BY <1>6 DEF Assign, Arrive, Settle, Expire, Postpone
  <2>2. /\ m \in MsgIds /\ rows[m].at = "queue" /\ ~rows[m].hidden
        /\ \A v \in Readers : m \in reader'[v].taken => v = u
    BY <1>1, <2>1
  <2>3. Settle(k) \/ Postpone(k) => k # m
    BY <2>1 DEF Settle, Postpone, RowLocked
  <2>4. rows'[m].at = "queue" /\ ~rows'[m].hidden
    <3>1. rows \in [MsgIds -> Row] /\ rows[k] \in Row
      BY DEF Types
    <3> QED
      BY <1>6, <2>2, <2>3, <3>1, PostponeRow DEF Assign, Arrive, Settle, Expire, Row
  <2> QED
    BY <2>2, <2>4
<1>7. CASE UNCHANGED vars
  BY <1>1, <1>7 DEF vars
<1> QED
  BY <1>2, <1>3, <1>4, <1>5, <1>6, <1>7 DEF Next, Poll

(* No message is handed to two readers: what an open grouped read is about *)
(* to return is in the queue, visible and in no other read's result.       *)
THEOREM ReadOnceCorrect == Spec => []ReadOnce
BY TypesInit, TypesStep, ReadOnceInit, ReadOnceStep, PTL DEF Spec

-----------------------------------------------------------------------------
(* The advisory locks.  A poll has the lock of every group it has taken a  *)
(* message of, until its transaction ends.                                 *)

LockInv ==
  /\ lock \in [Groups -> Readers \cup {NoReader}]
  /\ \A g \in Groups : lock[g] # NoReader => reader[lock[g]].pc # "idle"
  /\ \A w \in Readers : reader[w].pc # "commit" => reader[w].taken = {}
  /\ \A w \in Readers : \A m \in reader[w].taken : lock[GroupOf[m]] = w

LEMMA GroupsOf == \A m \in MsgIds : GroupOf[m] \in Groups
BY DEF Groups

LEMMA SelectedGroup ==
  ASSUME Types, NEW w \in Readers, NEW m \in Selected(w)
  PROVE  /\ m \in DOMAIN reader[w].snap /\ m \in MsgIds
         /\ m \in Available(w, Eligible(w))
         /\ \E h \in Eligible(w) : SameGroup(h, m)
<1>1. m \in Available(w, Eligible(w))
  BY Zenon DEF Selected, FirstOf
<1> QED
  BY <1>1 DEF Available, Types

(* What the statement does to the locks: it takes free ones only, and all  *)
(* those of the groups it selects from.                                    *)
LEMMA TakeLocks ==
  ASSUME Types, NEW w \in Readers, Take(w), lock \in [Groups -> Readers \cup {NoReader}]
  PROVE  /\ lock' \in [Groups -> Readers \cup {NoReader}]
         /\ \A g \in Groups : lock'[g] = lock[g] \/ (lock'[g] = w /\ lock[g] = NoReader)
         /\ \A m \in Selected(w) : lock'[GroupOf[m]] = w
<1>1. PICK tried \in {Lockable(w), Eligible(w)} :
        lock' = [g \in Groups |-> IF g \in {GroupOf[h] : h \in tried} THEN w ELSE lock[g]]
  BY Zenon DEF Take
<1>2. Eligible(w) \subseteq tried /\ tried \subseteq Lockable(w)
  BY <1>1 DEF Eligible
<1>3. \A g \in Groups : lock'[g] = lock[g] \/ (lock'[g] = w /\ lock[g] = NoReader)
  <2> SUFFICES ASSUME NEW g \in Groups, NEW h \in tried, g = GroupOf[h]
               PROVE  lock[g] = NoReader \/ lock[g] = w
    BY <1>1
  <2> QED
    BY <1>2 DEF Lockable, CanLock
<1>4. ASSUME NEW m \in Selected(w)
      PROVE  lock'[GroupOf[m]] = w
  <2>1. PICK h \in Eligible(w) : SameGroup(h, m)
    BY SelectedGroup
  <2>2. GroupOf[m] = GroupOf[h] /\ h \in tried /\ m \in MsgIds
    BY <1>2, <2>1, SelectedGroup DEF SameGroup
  <2> QED
    BY <1>1, <2>2, GroupsOf
<1> QED
  BY <1>1, <1>3, <1>4

LEMMA ReleaseLocks ==
  ASSUME Types, LockInv, NEW w \in Readers, Release(w)
  PROVE  LockInv'
<1>1. \A g \in Groups : lock'[g] = IF lock[g] = w THEN NoReader ELSE lock[g]
  BY DEF Release
<1>2. lock' \in [Groups -> Readers \cup {NoReader}]
  BY DEF Release, LockInv
<1>3. /\ reader'[w].taken = {} /\ \A v \in Readers : v # w => reader'[v] = reader[v]
  BY ReleaseStep
<1>4. ASSUME NEW g \in Groups, lock'[g] # NoReader
      PROVE  reader'[lock'[g]].pc # "idle"
  BY <1>1, <1>3, <1>4 DEF LockInv
<1>5. ASSUME NEW v \in Readers, reader'[v].pc # "commit"
      PROVE  reader'[v].taken = {}
  BY <1>3, <1>5 DEF LockInv
<1>6. ASSUME NEW v \in Readers, NEW m \in reader'[v].taken
      PROVE  lock'[GroupOf[m]] = v
  <2>1. v # w /\ m \in reader[v].taken /\ m \in MsgIds
    BY <1>3, <1>6 DEF Types
  <2> QED
    BY <1>1, <2>1, GroupsOf DEF LockInv
<1> QED
  BY <1>2, <1>4, <1>5, <1>6 DEF LockInv

LEMMA LockInit == Init => LockInv
<1> SUFFICES ASSUME Init PROVE LockInv
  OBVIOUS
<1>1. \A w \in Readers : reader[w] = Idle
  BY DEF Init
<1> QED
  BY <1>1, Records DEF Init, LockInv

LEMMA LockStep == Types /\ LockInv /\ [Next]_vars => LockInv'
<1> SUFFICES ASSUME Types, LockInv, [Next]_vars PROVE LockInv'
  OBVIOUS
<1>1. ASSUME NEW w \in Readers, Begin(w) PROVE LockInv'
  <2>1. /\ reader'[w].pc = "read" /\ reader'[w].taken = {}
        /\ \A v \in Readers : v # w => reader'[v] = reader[v]
    BY <1>1, BeginStep
  <2>2. lock' = lock
    BY <1>1 DEF Begin
  <2> QED
    BY <2>1, <2>2 DEF LockInv
<1>2. ASSUME NEW w \in Readers, Take(w) PROVE LockInv'
  <2>1. /\ reader[w].pc = "read"
        /\ reader'[w].pc \in {"poll", "commit"}
        /\ reader'[w].taken \subseteq {m \in Selected(w) : Updatable(m)}
        /\ reader'[w].pc = "poll" => reader'[w].taken = {}
        /\ \A v \in Readers : v # w => reader'[v] = reader[v]
    BY <1>2, TakeStep
  <2>2. /\ lock' \in [Groups -> Readers \cup {NoReader}]
        /\ \A g \in Groups : lock'[g] = lock[g] \/ (lock'[g] = w /\ lock[g] = NoReader)
        /\ \A m \in Selected(w) : lock'[GroupOf[m]] = w
    BY <1>2, TakeLocks DEF LockInv
  <2>3. \A g \in Groups : lock'[g] # NoReader => reader'[lock'[g]].pc # "idle"
    BY <2>1, <2>2 DEF LockInv
  <2>4. ASSUME NEW v \in Readers, NEW m \in reader'[v].taken
        PROVE  lock'[GroupOf[m]] = v
    <3>1. CASE v = w
      BY <2>1, <2>2, <2>4, <3>1
    <3>2. CASE v # w
      <4>1. m \in reader[v].taken /\ m \in MsgIds
        BY <2>1, <2>4, <3>2 DEF Types
      <4>2. lock[GroupOf[m]] = v /\ v # NoReader
        BY <4>1, ReadersAssumption DEF LockInv
      <4> QED
        BY <2>2, <4>1, <4>2, GroupsOf
    <3> QED
      BY <3>1, <3>2
  <2>5. \A v \in Readers : reader'[v].pc # "commit" => reader'[v].taken = {}
    BY <2>1 DEF LockInv
  <2> QED
    BY <2>2, <2>3, <2>4, <2>5 DEF LockInv
<1>3. ASSUME NEW w \in Readers, Commit(w) \/ TimeOut(w) \/ Rollback(w) PROVE LockInv'
  BY <1>3, ReleaseLocks DEF Commit, TimeOut, Rollback
<1>4. ASSUME NEW m \in MsgIds, Assign(m) \/ Arrive(m) \/ Settle(m) \/ Expire(m) \/ Postpone(m) PROVE LockInv'
  <2>1. reader' = reader /\ lock' = lock
    BY <1>4 DEF Assign, Arrive, Settle, Expire, Postpone
  <2> QED
    BY <2>1 DEF LockInv
<1>5. CASE UNCHANGED vars
  BY <1>5 DEF vars, LockInv
<1> QED
  BY <1>1, <1>2, <1>3, <1>4, <1>5 DEF Next, Poll

(* No two open reads hand out messages of one group: the locks do what the *)
(* snapshots cannot.                                                       *)
THEOREM GroupOnceCorrect == Spec => []GroupOnce
<1>1. Types /\ LockInv => GroupOnce
  BY DEF LockInv, GroupOnce, SameGroup
<1> QED
  BY <1>1, TypesInit, TypesStep, LockInit, LockStep, PTL DEF Spec

-----------------------------------------------------------------------------
(* Types. *)

Histories == late \subseteq MsgIds \X MsgIds /\ many \subseteq MsgIds /\ faults \in 0..MaxFaults

LEMMA HistoriesStep == Types /\ Histories /\ [Next]_vars => Histories'
<1> SUFFICES ASSUME Types, Histories, [Next]_vars PROVE Histories'
  OBVIOUS
<1>1. CASE UNCHANGED <<late, many, faults>>
  BY <1>1 DEF Histories
<1>2. ASSUME NEW m \in MsgIds, Arrive(m)
      PROVE  Histories'
  BY <1>2 DEF Arrive, Histories
<1>3. ASSUME NEW m \in MsgIds, Settle(m)
      PROVE  Histories'
  BY <1>3 DEF Settle, Histories
<1>4. ASSUME NEW w \in Readers, Commit(w)
      PROVE  Histories'
  BY <1>4 DEF Commit, Histories, Types
<1>5. ASSUME NEW w \in Readers, Rollback(w)
      PROVE  Histories'
  <2>1. faults' = faults + 1 /\ faults < MaxFaults /\ late' = late /\ many' = many
    BY <1>5 DEF Rollback
  <2> QED
    BY <2>1, BoundsAssumption DEF Histories
<1>6. ASSUME (\E w \in Readers : Take(w)) \/ \E m \in MsgIds : Postpone(m)
      PROVE  Histories'
  <2>1. faults' = faults \/ (faults < MaxFaults /\ faults' = faults + 1)
    <3>1. ASSUME NEW w \in Readers, Take(w)
          PROVE  faults' = faults \/ (faults < MaxFaults /\ faults' = faults + 1)
      <4>1. \E inUse : /\ inUse # {} => faults < MaxFaults
                       /\ faults' = IF inUse = {} THEN faults ELSE faults + 1
        BY <3>1, Zenon DEF Take
      <4> QED
        BY <4>1
    <3> QED
      BY <1>6, <3>1 DEF Postpone
  <2>2. late' = late /\ many' = many
    BY <1>6, TakeStep, PostponeRow
  <2> QED
    BY <2>1, <2>2, BoundsAssumption DEF Histories
<1> QED
  BY <1>1, <1>2, <1>3, <1>4, <1>5, <1>6
     DEF Next, Poll, Begin, TimeOut, Assign, Expire, vars

(* Every reachable state has its type, and no advisory lock outlives the   *)
(* transaction that took it: a group is never closed for good.             *)
THEOREM TypeCorrect == Spec => []TypeOK
<1>1. Init => Histories
  BY BoundsAssumption DEF Init, Histories
<1>2. Types /\ LockInv /\ Histories => TypeOK
  BY DEF Types, LockInv, Histories, TypeOK, Pcs
<1> QED
  BY <1>1, <1>2, TypesInit, TypesStep, LockInit, LockStep, HistoriesStep, PTL DEF Spec

-----------------------------------------------------------------------------
(* The selection.  The order in which available messages are chosen.       *)

RankIn(S, m) == Cardinality({k \in S : Precedes(k, m)})
HeadIn(heads, m) == CHOOSE h \in heads : SameGroup(h, m)
First(S, heads, k, m) ==
  \/ RankIn(S, k) < RankIn(S, m)
  \/ RankIn(S, k) = RankIn(S, m) /\ Before(HeadIn(heads, k), HeadIn(heads, m))
FirstsOf(S, heads, m) == {k \in S : First(S, heads, k, m)}

LEMMA FirstOfIs ==
  ASSUME NEW S, NEW heads, NEW qty
  PROVE  FirstOf(S, heads, qty) = {m \in S : Cardinality(FirstsOf(S, heads, m)) < qty}
<1> DEFINE rank == [m \in S |-> Cardinality({k \in S : Precedes(k, m)})]
           headOf == [m \in S |-> CHOOSE h \in heads : SameGroup(h, m)]
           first(k, m) == rank[k] < rank[m] \/ (rank[k] = rank[m] /\ Before(headOf[k], headOf[m]))
<1>1. FirstOf(S, heads, qty) = {m \in S : Cardinality({k \in S : first(k, m)}) < qty}
  BY Zenon DEF FirstOf
<1>2. \A m \in S : rank[m] = RankIn(S, m) /\ headOf[m] = HeadIn(heads, m)
  BY Zenon DEF RankIn, HeadIn
<1> HIDE DEF rank, headOf
<1>3. \A k, m \in S : first(k, m) <=> First(S, heads, k, m)
  BY <1>2 DEF First
<1> HIDE DEF first
<1>4. \A m \in S : {k \in S : first(k, m)} = FirstsOf(S, heads, m)
  BY <1>3 DEF FirstsOf
<1> QED
  BY <1>1, <1>4

LEMMA IdSets ==
  ASSUME NEW S \in SUBSET MsgIds
  PROVE  /\ IsFiniteSet(S) /\ Cardinality(S) \in Nat
         /\ \A m \in S : m \in Nat
<1>1. IsFiniteSet(MsgIds) /\ MsgIds \subseteq Nat
  BY FS_Interval, BoundsAssumption DEF MsgIds
<1> QED
  BY <1>1, FS_Subset, FS_CardinalityType

LEMMA IdCard ==
  ASSUME NEW S \in SUBSET MsgIds, NEW T \in SUBSET S
  PROVE  /\ Cardinality(T) \in Nat /\ Cardinality(S) \in Nat
         /\ Cardinality(T) <= Cardinality(S)
         /\ T # S => Cardinality(T) < Cardinality(S)
BY IdSets, CardMono

(* A message has a smaller rank than those it precedes.                    *)
LEMMA RankGrows ==
  ASSUME NEW S \in SUBSET MsgIds, NEW k \in S, NEW m \in S, Precedes(k, m)
  PROVE  /\ RankIn(S, k) < RankIn(S, m)
         /\ RankIn(S, k) \in Nat /\ RankIn(S, m) \in Nat
<1> DEFINE of(i) == {j \in S : Precedes(j, i)}
<1>1. \A i \in S : i \in Nat
  BY IdSets
<1>2. of(k) \subseteq of(m)
  BY <1>1 DEF Precedes, SameGroup, Before
<1>3. k \in of(m) /\ k \notin of(k)
  BY <1>1 DEF Precedes, SameGroup, Before
<1>4. of(k) \in SUBSET of(m) /\ of(m) \in SUBSET MsgIds /\ of(k) # of(m)
  BY <1>2, <1>3
<1> HIDE DEF of
<1>5. Cardinality(of(k)) < Cardinality(of(m)) /\ Cardinality(of(k)) \in Nat
      /\ Cardinality(of(m)) \in Nat
  BY <1>4, IdCard
<1> QED
  BY <1>5 DEF of, RankIn

LEMMA RankType ==
  ASSUME NEW S \in SUBSET MsgIds, NEW m
  PROVE  RankIn(S, m) \in Nat
<1>1. {k \in S : Precedes(k, m)} \in SUBSET MsgIds
  OBVIOUS
<1> QED
  BY <1>1, IdSets DEF RankIn

(* With a message all available ones of its group before it are selected:  *)
(* a poll never leaves out one to hand out another behind it.              *)
LEMMA SelectedBefore ==
  ASSUME NEW S \in SUBSET MsgIds, NEW heads, NEW qty \in Nat,
         NEW m \in FirstOf(S, heads, qty), NEW k \in S, Precedes(k, m)
  PROVE  k \in FirstOf(S, heads, qty) /\ qty # 1
<1>1. m \in S /\ Cardinality(FirstsOf(S, heads, m)) < qty
  BY FirstOfIs
<1>2. RankIn(S, k) < RankIn(S, m) /\ \A j \in S : RankIn(S, j) \in Nat
  BY <1>1, RankGrows, RankType
<1>3. \A j \in S : First(S, heads, j, k) => First(S, heads, j, m)
  BY <1>1, <1>2 DEF First
<1>4. FirstsOf(S, heads, k) \in SUBSET FirstsOf(S, heads, m)
  BY <1>3 DEF FirstsOf
<1>5. k \in FirstsOf(S, heads, m) /\ FirstsOf(S, heads, m) \in SUBSET MsgIds
  BY <1>2 DEF FirstsOf, First
<1>6. /\ Cardinality(FirstsOf(S, heads, k)) <= Cardinality(FirstsOf(S, heads, m))
      /\ Cardinality(FirstsOf(S, heads, k)) \in Nat /\ Cardinality(FirstsOf(S, heads, m)) \in Nat
  BY <1>4, <1>5, IdCard
<1>7. Cardinality({}) < Cardinality(FirstsOf(S, heads, m)) /\ Cardinality({}) \in Nat
  BY <1>5, IdCard
<1>8. Cardinality(FirstsOf(S, heads, k)) < qty /\ qty # 1
  BY <1>1, <1>6, <1>7
<1> QED
  BY <1>8, FirstOfIs

(* The order is a strict total one.                                        *)
LEMMA FirstOrder ==
  ASSUME NEW S \in SUBSET MsgIds, NEW heads \in SUBSET MsgIds,
         \A m \in S : \E h \in heads : SameGroup(h, m)
  PROVE  /\ \A k, m \in S : k # m => First(S, heads, k, m) \/ First(S, heads, m, k)
         /\ \A m \in S : ~First(S, heads, m, m)
         /\ \A j, k, m \in S : First(S, heads, j, k) /\ First(S, heads, k, m)
                               => First(S, heads, j, m)
<1>1. \A m \in S : HeadIn(heads, m) \in heads /\ SameGroup(HeadIn(heads, m), m)
  BY DEF HeadIn
<1>2. \A m \in S : HeadIn(heads, m) \in Nat /\ m \in Nat /\ RankIn(S, m) \in Nat
  BY <1>1, IdSets, RankType
<1>3. ASSUME NEW k \in S, NEW m \in S, k # m
      PROVE  First(S, heads, k, m) \/ First(S, heads, m, k)
  <2>1. CASE RankIn(S, k) # RankIn(S, m)
    BY <1>2, <2>1 DEF First
  <2>2. CASE RankIn(S, k) = RankIn(S, m)
    <3>1. ~Precedes(k, m) /\ ~Precedes(m, k)
      BY <1>2, <2>2, RankGrows
    <3>2. ~SameGroup(k, m)
      BY <1>2, <1>3, <3>1 DEF Precedes, SameGroup, Before
    <3>3. HeadIn(heads, k) # HeadIn(heads, m)
      BY <1>1, <3>2 DEF SameGroup
    <3>4. Before(HeadIn(heads, k), HeadIn(heads, m)) \/ Before(HeadIn(heads, m), HeadIn(heads, k))
      BY <1>2, <3>3 DEF Before
    <3> QED
      BY <2>2, <3>4 DEF First
  <2> QED
    BY <2>1, <2>2
<1>4. ASSUME NEW m \in S
      PROVE  ~First(S, heads, m, m)
  BY <1>2 DEF First, Before
<1>5. ASSUME NEW j \in S, NEW k \in S, NEW m \in S,
             First(S, heads, j, k), First(S, heads, k, m)
      PROVE  First(S, heads, j, m)
  BY <1>2, <1>5 DEF First, Before
<1> QED
  BY <1>3, <1>4, <1>5

(* The LIMIT of the statement over this order: as many are selected as     *)
(* were asked for, or all when there are fewer.                            *)
LEMMA SelectedCount ==
  ASSUME NEW S \in SUBSET MsgIds, NEW heads \in SUBSET MsgIds,
         \A m \in S : \E h \in heads : SameGroup(h, m),
         NEW qty \in Nat
  PROVE  Cardinality(FirstOf(S, heads, qty))
           = IF qty < Cardinality(S) THEN qty ELSE Cardinality(S)
<1> DEFINE R == {p \in S \X S : First(S, heads, p[1], p[2])}
<1>1. \A k, m \in S : <<k, m>> \in R <=> First(S, heads, k, m)
  OBVIOUS
<1> HIDE DEF R
<1>2. StrictTotal(S, R)
  BY <1>1, FirstOrder DEF StrictTotal
<1>3. \A m \in S : Below(S, R, m) = FirstsOf(S, heads, m)
  BY <1>1 DEF Below, FirstsOf
<1>4. FirstOf(S, heads, qty) = FirstN(S, R, qty)
  BY <1>3, FirstOfIs DEF FirstN
<1>5. IsFiniteSet(S)
  BY IdSets
<1> QED
  BY <1>2, <1>4, <1>5, LimitCorrect

LEMMA SelectedIs ==
  ASSUME Types, NEW w \in Readers
  PROVE  LET heads == Eligible(w)
             available == Available(w, heads)
         IN  /\ Selected(w) = FirstOf(available, heads, reader[w].qty)
             /\ available \in SUBSET MsgIds /\ heads \in SUBSET MsgIds
             /\ \A m \in available : \E h \in heads : SameGroup(h, m)
             /\ reader[w].qty \in Nat
             /\ reader[w].pc # "idle" => reader[w].qty # 0
<1>1. Selected(w) = FirstOf(Available(w, Eligible(w)), Eligible(w), reader[w].qty)
  BY Zenon DEF Selected
<1>2. Eligible(w) \subseteq DOMAIN reader[w].snap
  BY DEF Eligible, Lockable, Heads
<1>3. /\ Available(w, Eligible(w)) \subseteq DOMAIN reader[w].snap
      /\ \A m \in Available(w, Eligible(w)) : \E h \in Eligible(w) : SameGroup(h, m)
  BY DEF Available
<1>4. DOMAIN reader[w].snap \subseteq MsgIds
  BY DEF Types
<1>5. reader[w].qty \in Nat /\ (reader[w].pc # "idle" => reader[w].qty # 0)
  <2>1. IF reader[w].pc = "idle" THEN reader[w].qty = 0 ELSE reader[w].qty \in Qtys
    BY DEF Types
  <2>2. \A n \in Qtys : n \in Nat /\ n # 0
    BY QtyAssumption
  <2> QED
    BY <2>1, <2>2
<1> QED
  BY <1>1, <1>2, <1>3, <1>4, <1>5, Zenon

LEMMA SelectedBound ==
  ASSUME Types, NEW w \in Readers
  PROVE  Cardinality(Selected(w)) <= reader[w].qty /\ reader[w].qty \in Nat
<1> DEFINE available == Available(w, Eligible(w))
<1>1. /\ Selected(w) = FirstOf(available, Eligible(w), reader[w].qty)
      /\ available \in SUBSET MsgIds /\ Eligible(w) \in SUBSET MsgIds
      /\ \A m \in available : \E h \in Eligible(w) : SameGroup(h, m)
      /\ reader[w].qty \in Nat
  BY SelectedIs, Zenon
<1> HIDE DEF available
<1>2. Cardinality(FirstOf(available, Eligible(w), reader[w].qty))
        = IF reader[w].qty < Cardinality(available) THEN reader[w].qty ELSE Cardinality(available)
  BY <1>1, SelectedCount
<1>3. Cardinality(available) \in Nat
  BY <1>1, IdSets
<1> QED
  BY <1>1, <1>2, <1>3 DEF available

(* What a poll is about to return.                                         *)
ReadBound == \A w \in Readers : Cardinality(reader[w].taken) <= reader[w].qty

LEMMA ReadBoundStep == Types /\ ReadBound /\ [Next]_vars => ReadBound'
<1> SUFFICES ASSUME Types, ReadBound, [Next]_vars PROVE ReadBound'
  OBVIOUS
<1>1. Cardinality({}) = 0
  BY IdSets, FS_EmptySet
<1>2. ASSUME NEW w \in Readers, Begin(w) PROVE ReadBound'
  <2>1. /\ reader'[w].taken = {} /\ reader'[w].qty \in Qtys
        /\ \A v \in Readers : v # w => reader'[v] = reader[v]
    BY <1>2, BeginStep
  <2>2. Cardinality(reader'[w].taken) <= reader'[w].qty
    <3>1. Cardinality(reader'[w].taken) = 0
      BY <1>1, <2>1
    <3>2. reader'[w].qty \in Nat
      BY <2>1, QtyAssumption
    <3>3. \A n \in Nat : 0 <= n
      OBVIOUS
    <3> QED
      BY <3>1, <3>2, <3>3
  <2> QED
    BY <2>1, <2>2 DEF ReadBound
<1>3. ASSUME NEW w \in Readers, Take(w) PROVE ReadBound'
  <2>1. /\ reader'[w].taken \in SUBSET Selected(w) /\ reader'[w].qty = reader[w].qty
        /\ \A v \in Readers : v # w => reader'[v] = reader[v]
    BY <1>3, TakeStep
  <2>2. Cardinality(Selected(w)) <= reader[w].qty /\ reader[w].qty \in Nat
    BY SelectedBound
  <2>3. Selected(w) \in SUBSET MsgIds
    BY SelectedGroup
  <2>4. /\ Cardinality(reader'[w].taken) <= Cardinality(Selected(w))
        /\ Cardinality(reader'[w].taken) \in Nat
        /\ Cardinality(Selected(w)) \in Nat
    BY <2>1, <2>3, IdCard
  <2>5. Cardinality(reader'[w].taken) <= reader'[w].qty
    BY <2>1, <2>2, <2>4
  <2> QED
    BY <2>1, <2>5 DEF ReadBound
<1>4. ASSUME NEW w \in Readers, Commit(w) \/ TimeOut(w) \/ Rollback(w) PROVE ReadBound'
  <2>1. /\ reader'[w].taken = {} /\ reader'[w].qty = 0
        /\ \A v \in Readers : v # w => reader'[v] = reader[v]
    BY <1>4, ReleaseStep DEF Commit, TimeOut, Rollback
  <2> QED
    BY <1>1, <2>1 DEF ReadBound
<1>5. ASSUME NEW m \in MsgIds, Assign(m) \/ Arrive(m) \/ Settle(m) \/ Expire(m) \/ Postpone(m) PROVE ReadBound'
  <2>1. reader' = reader
    BY <1>5 DEF Assign, Arrive, Settle, Expire, Postpone
  <2> QED
    BY <2>1 DEF ReadBound
<1>6. CASE UNCHANGED vars
  BY <1>6 DEF vars, ReadBound
<1> QED
  BY <1>2, <1>3, <1>4, <1>5, <1>6 DEF Next, Poll

(* A grouped read returns no more messages than the worker has free slots, *)
(* however groups and ranks tie (pgmq.read_grouped_rr, LIMIT qty).         *)
THEOREM ReadBoundCorrect == Spec => []ReadBound
<1>1. Init => ReadBound
  <2> SUFFICES ASSUME Init PROVE ReadBound
    OBVIOUS
  <2>1. \A w \in Readers : reader[w].taken = {} /\ reader[w].qty = 0
    BY Records DEF Init
  <2>2. Cardinality({}) = 0
    BY IdSets, FS_EmptySet
  <2>3. \A w \in Readers : Cardinality(reader[w].taken) = 0 /\ reader[w].qty = 0
    BY <2>1, <2>2, Zenon
  <2> QED
    BY <2>3 DEF ReadBound
<1> QED
  BY <1>1, TypesInit, TypesStep, ReadBoundStep, PTL DEF Spec

-----------------------------------------------------------------------------
(* InOrder.  A reader acts on a snapshot, so what orders its message       *)
(* against the messages in the table must be kept from the snapshot to the *)
(* commit: a message that precedes and is not in the snapshot came late.   *)

LateFor(k, m) == Precedes(k, m) => <<k, m>> \in late

SnapOrder(w) ==
  \A m \in DOMAIN reader[w].snap :
    /\ rows[m].at \in {"queue", "left"}
    /\ m \in Queued => \A k \in Queued : k \in DOMAIN reader[w].snap \/ LateFor(k, m)

(* What is not late has been handed out before, or is with it.             *)
Together(w, k, m) ==
  LateFor(k, m) \/ (reader[w].qty > 1 /\ (rows[k].version > 0 \/ k \in reader[w].taken))

TakenOrder(w) == \A m \in reader[w].taken : \A k \in Queued : Together(w, k, m)

ReadFor(k, m) == LateFor(k, m) \/ (m \in many /\ rows[k].version > 0)

Fresh == \A m \in MsgIds : rows[m].at \in {"unsent", "assigned"} => rows[m].version = 0

(* Only a read hides a message. *)
HiddenRead == \A m \in MsgIds : rows[m].hidden => rows[m].version > 0

OrderInv ==
  /\ Types /\ LockInv /\ ReadOnce /\ InOrder /\ Fresh /\ HiddenRead
  /\ \A w \in Readers : SnapOrder(w) /\ TakenOrder(w)

(* A read of one message takes the head of its group in the snapshot.      *)
LEMMA SelectedHead ==
  ASSUME Types, NEW w \in Readers, reader[w].qty = 1, NEW m \in Selected(w)
  PROVE  m \in DOMAIN reader[w].snap /\ \A k \in DOMAIN reader[w].snap : ~Precedes(k, m)
<1> DEFINE heads == Eligible(w)
           available == Available(w, heads)
<1>1. /\ m \in available /\ m \in DOMAIN reader[w].snap /\ m \in Nat
      /\ \E h \in heads : SameGroup(h, m)
  BY SelectedGroup, BoundsAssumption DEF MsgIds
<1>2. PICK h \in heads : SameGroup(h, m)
  BY <1>1
<1>3. /\ h \in DOMAIN reader[w].snap /\ SnapVisible(w, h)
      /\ \A k \in DOMAIN reader[w].snap : ~Precedes(k, h)
  BY DEF Eligible, Lockable, Heads
<1>4. h \in available
  BY <1>3 DEF Available, SameGroup
<1>5. ~Precedes(h, m)
  <2>1. /\ m \in FirstOf(available, heads, reader[w].qty)
        /\ available \in SUBSET MsgIds /\ reader[w].qty \in Nat
    BY SelectedIs, Zenon
  <2> HIDE DEF available, heads
  <2> QED
    BY <1>4, <2>1, SelectedBefore
<1>6. h \in Nat /\ ~Precedes(m, h)
  BY <1>1, <1>3, BoundsAssumption DEF Types, MsgIds
<1>7. h = m
  BY <1>1, <1>2, <1>5, <1>6 DEF Precedes, SameGroup, Before
<1> QED
  BY <1>1, <1>3, <1>7

(* A message of the snapshot that nobody has read, and that comes before a *)
(* selected one, is taken with it: nobody else can have locked it.         *)
LEMMA TakenWith ==
  ASSUME Types, LockInv, HiddenRead, NEW w \in Readers, reader[w].pc = "read",
         NEW m \in Selected(w), NEW k \in Queued, k \in DOMAIN reader[w].snap,
         Precedes(k, m), ~(rows[k].version > 0)
  PROVE  k \in Selected(w) /\ Updatable(k)
<1> DEFINE heads == Eligible(w)
           available == Available(w, heads)
<1>1. k \in MsgIds /\ ~rows[k].hidden
  BY DEF Queued, HiddenRead
<1>2. PICK h \in heads : SameGroup(h, m)
  BY SelectedGroup
<1>3. SameGroup(h, k)
  BY <1>2 DEF Precedes, SameGroup
<1>4. k \in available
  BY <1>1, <1>3 DEF Available, SnapVisible
<1>5. k \in Selected(w)
  <2>1. /\ Selected(w) = FirstOf(available, heads, reader[w].qty)
        /\ available \in SUBSET MsgIds /\ reader[w].qty \in Nat
    BY SelectedIs, Zenon
  <2> HIDE DEF available, heads
  <2> QED
    BY <1>4, <2>1, SelectedBefore
<1>6. ASSUME NEW v \in Readers, k \in reader[v].taken PROVE FALSE
  <2>1. lock[GroupOf[k]] = v /\ v # NoReader /\ v # w
    BY <1>6, ReadersAssumption DEF LockInv
  <2>2. lock[GroupOf[h]] \in {NoReader, w} /\ GroupOf[h] = GroupOf[k]
    BY <1>3 DEF Eligible, Lockable, CanLock, SameGroup
  <2> QED
    BY <2>1, <2>2
<1> QED
  BY <1>1, <1>5, <1>6 DEF Updatable, RowLocked

LEMMA HiddenStep == Types /\ HiddenRead /\ [Next]_vars => HiddenRead'
<1> SUFFICES ASSUME Types, HiddenRead, [Next]_vars, NEW m \in MsgIds, rows'[m].hidden
             PROVE  rows'[m].version > 0
  BY DEF HiddenRead
<1>1. rows \in [MsgIds -> Row] /\ rows[m] \in Row /\ rows[m].version \in Nat
      /\ (rows[m].hidden => rows[m].version > 0)
  BY DEF Types, HiddenRead, Row
<1>2. ASSUME NEW w \in Readers, Commit(w) PROVE rows'[m].version > 0
  <2>1. \/ rows'[m] = rows[m]
        \/ rows'[m].version = rows[m].version + 1
    BY <1>2, CommitRow
  <2> QED
    BY <1>1, <2>1
<1>3. CASE UNCHANGED rows
  BY <1>1, <1>3
<1>4. ASSUME NEW k \in MsgIds, Assign(k) \/ Arrive(k) \/ Settle(k) \/ Expire(k) \/ Postpone(k)
      PROVE  rows'[m].version > 0
  <2>1. CASE k # m
    <3>1. rows'[m] = rows[m]
      BY <1>1, <1>4, <2>1 DEF Assign, Arrive, Settle, Expire, Postpone
    <3> QED
      BY <1>1, <3>1
  <2>2. CASE k = m
    BY <1>1, <1>4, <2>2, PostponeRow DEF Assign, Arrive, Settle, Expire, NewRow, Row
  <2> QED
    BY <2>1, <2>2
<1>5. ASSUME NEW w \in Readers, Take(w) PROVE rows'[m].version > 0
  BY <1>1, <1>5, TakeStep
<1> QED
  BY <1>2, <1>3, <1>4, <1>5 DEF Next, Poll, Begin, TimeOut, Rollback, vars

LEMMA OrderInit == Init => OrderInv
<1> SUFFICES ASSUME Init PROVE OrderInv
  OBVIOUS
<1>1. Types /\ ReadOnce /\ LockInv
  BY TypesInit, ReadOnceInit, LockInit
<1>2. \A m \in MsgIds : rows[m].at = "unsent" /\ rows[m].version = 0 /\ ~rows[m].hidden
  BY DEF Init, NewRow
<1>3. Queued = {} /\ Fresh /\ HiddenRead
  BY <1>2 DEF Queued, Fresh, HiddenRead
<1>4. \A w \in Readers : DOMAIN reader[w].snap = {} /\ reader[w].taken = {}
  BY Records DEF Init
<1> QED
  BY <1>1, <1>3, <1>4 DEF OrderInv, InOrder, SnapOrder, TakenOrder

(* Steps that leave the rows where they are, and read what was read.       *)
LEMMA OrderKept ==
  ASSUME OrderInv, late' = late, many' = many,
         \A m \in MsgIds : /\ rows'[m].at = rows[m].at
                           /\ rows'[m].version > 0 <=> rows[m].version > 0
                           /\ m \notin Queued => rows'[m] = rows[m]
  PROVE  /\ Queued' = Queued /\ InOrder' /\ Fresh'
         /\ \A w \in Readers : reader'[w] = reader[w] => SnapOrder(w)' /\ TakenOrder(w)'
<1>1. Queued' = Queued
  BY DEF Queued
<1>2. \A k, m : LateFor(k, m)' <=> LateFor(k, m)
  BY DEF LateFor, Precedes, SameGroup, Before
<1>3. InOrder'
  <2>1. InOrder
    BY DEF OrderInv
  <2> QED
    BY <1>1, <2>1 DEF InOrder, Queued, Precedes, SameGroup, Before
<1>4. Fresh'
  BY DEF OrderInv, Fresh, Queued
<1>5. ASSUME NEW w \in Readers, reader'[w] = reader[w]
      PROVE  SnapOrder(w)' /\ TakenOrder(w)'
  <2>1. DOMAIN reader[w].snap \subseteq MsgIds
    BY DEF OrderInv, Types
  <2> QED
    BY <1>1, <1>2, <1>5, <2>1 DEF OrderInv, SnapOrder, TakenOrder, Together, Queued
<1> QED
  BY <1>1, <1>3, <1>4, <1>5

LEMMA OrderStep == OrderInv /\ [Next]_vars => OrderInv'
<1> SUFFICES ASSUME OrderInv, [Next]_vars PROVE OrderInv'
  OBVIOUS
<1>0. /\ Types' /\ LockInv' /\ ReadOnce' /\ HiddenRead'
      /\ Types /\ LockInv /\ ReadOnce /\ HiddenRead /\ Fresh /\ InOrder
  BY TypesStep, LockStep, ReadOnceStep, HiddenStep DEF OrderInv
<1> DEFINE Orders(w) == SnapOrder(w)' /\ TakenOrder(w)'
           Rest == InOrder' /\ Fresh' /\ \A w \in Readers : Orders(w)
<1> SUFFICES Rest
  BY <1>0 DEF OrderInv
<1>1. ASSUME NEW w \in Readers, Begin(w) PROVE Rest
  <2>1. Queued' = Queued /\ InOrder' /\ Fresh' /\ \A v \in Readers : v # w => Orders(v)
    BY <1>1, BeginStep, OrderKept, <1>0
  <2>2. DOMAIN reader'[w].snap = Queued' /\ reader'[w].taken = {} /\ rows' = rows
    BY <1>1, <1>0, <2>1, BeginStep
  <2>3. Orders(w)
    BY <2>2 DEF SnapOrder, TakenOrder, Queued
  <2> QED
    BY <2>1, <2>3
<1>2. ASSUME NEW w \in Readers, Take(w) PROVE Rest
  <2>1. Queued' = Queued /\ InOrder' /\ Fresh' /\ \A v \in Readers : v # w => Orders(v)
    BY <1>2, TakeStep, OrderKept, <1>0
  <2>2. /\ reader[w].pc = "read" /\ reader'[w].qty = reader[w].qty
        /\ DOMAIN reader'[w].snap = {} /\ late' = late /\ rows' = rows
        /\ reader'[w].taken \subseteq {m \in Selected(w) : Updatable(m)}
        /\ \A m \in Selected(w) : Updatable(m) /\ ~(rows[m].version > 0) => m \in reader'[w].taken
    BY <1>2, <1>0, TakeStep
  <2>3. \A k, m : LateFor(k, m)' <=> LateFor(k, m)
    BY <2>2 DEF LateFor, Precedes, SameGroup, Before
  <2>4. ASSUME NEW m \in reader'[w].taken, NEW k \in Queued
        PROVE  \/ LateFor(k, m)
               \/ reader[w].qty > 1 /\ (rows[k].version > 0 \/ k \in reader'[w].taken)
    <3>1. m \in Selected(w) /\ m \in Queued /\ m \in DOMAIN reader[w].snap
      BY <1>0, <2>2, <2>4, TakenUpdatable, SelectedGroup
    <3>2. k \in DOMAIN reader[w].snap \/ LateFor(k, m)
      BY <3>1 DEF OrderInv, SnapOrder
    <3>3. CASE ~Precedes(k, m)
      BY <3>3 DEF LateFor
    <3>4. CASE reader[w].qty = 1
      BY <1>0, <3>1, <3>2, <3>4, SelectedHead DEF LateFor
    <3>5. CASE Precedes(k, m) /\ reader[w].qty # 1 /\ k \in DOMAIN reader[w].snap
      <4>1. reader[w].qty \in Nat /\ reader[w].qty # 0
        BY <1>0, <2>2, SelectedIs
      <4>2. ASSUME ~(rows[k].version > 0) PROVE k \in reader'[w].taken
        BY <1>0, <2>2, <3>1, <3>5, <4>2, TakenWith
      <4> QED
        BY <3>5, <4>1, <4>2
    <3> QED
      BY <3>2, <3>3, <3>4, <3>5
  <2>5. Orders(w)
    BY <2>1, <2>2, <2>3, <2>4 DEF SnapOrder, TakenOrder, Together
  <2> QED
    BY <2>1, <2>5
<1>3. ASSUME NEW w \in Readers, TimeOut(w) \/ Rollback(w) PROVE Rest
  <2>1. Release(w) /\ rows' = rows /\ late' = late /\ many' = many
    BY <1>3 DEF TimeOut, Rollback
  <2>2. InOrder' /\ Fresh' /\ \A v \in Readers : v # w => Orders(v)
    BY <2>1, ReleaseStep, OrderKept, <1>0
  <2>3. Orders(w)
    BY <2>1, <1>0, ReleaseStep DEF SnapOrder, TakenOrder
  <2> QED
    BY <2>2, <2>3
<1>4. ASSUME NEW w \in Readers, Commit(w) PROVE Rest
  <2>1. /\ Release(w) /\ late' = late
        /\ many' = many \cup {m \in reader[w].taken : reader[w].qty > 1}
    BY <1>4 DEF Commit
  <2>2. /\ DOMAIN reader'[w].snap = {} /\ reader'[w].taken = {}
        /\ \A v \in Readers : v # w => reader'[v] = reader[v]
    BY <1>0, <2>1, ReleaseStep
  <2>3. \A m \in MsgIds : /\ rows'[m].at = rows[m].at
                          /\ m \notin reader[w].taken => rows'[m] = rows[m]
                          /\ m \in reader[w].taken \/ rows[m].version > 0 => rows'[m].version > 0
    <3> SUFFICES ASSUME NEW m \in MsgIds
                 PROVE  /\ rows'[m].at = rows[m].at
                        /\ m \notin reader[w].taken => rows'[m] = rows[m]
                        /\ m \in reader[w].taken \/ rows[m].version > 0 => rows'[m].version > 0
      OBVIOUS
    <3>1. rows[m].version \in Nat
      BY <1>0 DEF Types, Row
    <3> QED
      BY <1>0, <1>4, <3>1, CommitRow
  <2>4. Queued' = Queued
    BY <2>3 DEF Queued
  <2>5. \A k, m : LateFor(k, m)' <=> LateFor(k, m)
    BY <2>1 DEF LateFor, Precedes, SameGroup, Before
  <2>6. InOrder'
    <3> SUFFICES ASSUME NEW m \in Queued', NEW k \in Queued', rows'[m].version > 0
                 PROVE  ReadFor(k, m)'
      BY DEF InOrder, LateFor, ReadFor
    <3>1. CASE m \in reader[w].taken
      <4>1. Together(w, k, m) /\ k \in MsgIds
        BY <3>1, <2>4 DEF OrderInv, TakenOrder, Queued
      <4>2. CASE LateFor(k, m)
        BY <4>2, <2>5 DEF ReadFor
      <4>3. CASE ~LateFor(k, m)
        <5>1. m \in many' /\ rows'[k].version > 0
          BY <2>1, <2>3, <3>1, <4>1, <4>3 DEF Together
        <5> QED
          BY <5>1 DEF ReadFor
      <4> QED
        BY <4>2, <4>3
    <3>2. CASE m \notin reader[w].taken
      <4>1. m \in Queued /\ k \in Queued /\ rows'[m] = rows[m]
        BY <3>2, <2>3, <2>4 DEF Queued
      <4>2. ReadFor(k, m)
        BY <4>1, <1>0 DEF InOrder, LateFor, ReadFor
      <4>3. m \in many => m \in many'
        BY <2>1
      <4> QED
        BY <4>1, <4>2, <4>3, <2>3, <2>5 DEF ReadFor, Queued
    <3> QED
      BY <3>1, <3>2
  <2>7. Fresh'
    BY <1>0, <2>3 DEF Fresh, ReadOnce, Queued
  <2>8. ASSUME NEW v \in Readers PROVE Orders(v)
    <3>1. CASE v = w
      BY <3>1, <2>2 DEF SnapOrder, TakenOrder
    <3>2. CASE v # w
      <4>1. reader'[v] = reader[v] /\ DOMAIN reader[v].snap \subseteq MsgIds
        BY <3>2, <2>2, <1>0 DEF Types
      <4> QED
        BY <4>1, <2>3, <2>4, <2>5 DEF OrderInv, SnapOrder, TakenOrder, Together, Queued
    <3> QED
      BY <3>1, <3>2
  <2> QED
    BY <2>6, <2>7, <2>8
<1>5. ASSUME NEW i \in MsgIds, Assign(i) PROVE Rest
  <2>1. /\ reader' = reader /\ late' = late /\ many' = many /\ rows[i].at = "unsent"
        /\ rows'[i].at = "assigned" /\ rows'[i].version = rows[i].version
        /\ \A m \in MsgIds : m # i => rows'[m] = rows[m]
    <3>1. rows \in [MsgIds -> Row] /\ rows[i] \in Row
      BY <1>0 DEF Types
    <3> QED
      BY <1>5, <3>1 DEF Assign, Row
  <2>2. Queued' = Queued
    BY <2>1 DEF Queued
  <2>3. \A k, m : LateFor(k, m)' <=> LateFor(k, m)
    BY <2>1 DEF LateFor, Precedes, SameGroup, Before
  <2>4. InOrder' /\ Fresh'
    <3>1. \A m \in Queued : rows'[m] = rows[m]
      BY <2>1 DEF Queued
    <3> QED
      BY <1>0, <2>1, <2>2, <3>1 DEF InOrder, Fresh, Precedes, SameGroup, Before
  <2>5. ASSUME NEW v \in Readers PROVE Orders(v)
    <3>1. DOMAIN reader[v].snap \subseteq MsgIds /\ SnapOrder(v) /\ TakenOrder(v)
      BY <1>0 DEF Types, OrderInv
    <3>2. \A m \in DOMAIN reader[v].snap : rows'[m] = rows[m]
      BY <2>1, <3>1 DEF SnapOrder
    <3> QED
      BY <2>1, <2>2, <2>3, <3>1, <3>2 DEF SnapOrder, TakenOrder, Together, Queued
  <2> QED
    BY <2>4, <2>5
<1>6. ASSUME NEW i \in MsgIds, Arrive(i) PROVE Rest
  <2>1. /\ reader' = reader /\ many' = many /\ rows[i].at = "assigned"
        /\ rows'[i].at = "queue" /\ rows'[i].version = rows[i].version
        /\ \A m \in MsgIds : m # i => rows'[m] = rows[m]
    <3>1. rows \in [MsgIds -> Row] /\ rows[i] \in Row
      BY <1>0 DEF Types
    <3> QED
      BY <1>6, <3>1 DEF Arrive, Row
  <2>2. Queued' = Queued \cup {i} /\ i \notin Queued /\ rows[i].version = 0
    BY <2>1, <1>0 DEF Queued, Fresh
  <2>3. \A k, m : LateFor(k, m) => LateFor(k, m)'
    BY <1>6 DEF Arrive, LateFor, Precedes, SameGroup, Before
  <2>4. \A m \in MsgIds : Seen(m) => LateFor(i, m)'
    BY <1>6 DEF Arrive, LateFor, Precedes, SameGroup, Before
  <2>5. InOrder'
    <3> SUFFICES ASSUME NEW m \in Queued', NEW k \in Queued', rows'[m].version > 0
                 PROVE  ReadFor(k, m)'
      BY DEF InOrder, LateFor, ReadFor
    <3>1. m \in Queued /\ m \in MsgIds /\ rows'[m] = rows[m]
      BY <2>1, <2>2 DEF Queued
    <3>2. CASE k = i
      BY <3>1, <3>2, <2>4 DEF Seen, ReadFor
    <3>3. CASE k # i
      <4>1. k \in Queued /\ rows'[k] = rows[k]
        BY <3>3, <2>1, <2>2 DEF Queued
      <4>2. ReadFor(k, m)
        BY <3>1, <4>1, <1>0 DEF InOrder, LateFor, ReadFor
      <4> QED
        BY <4>1, <4>2, <2>1, <2>3 DEF ReadFor
    <3> QED
      BY <3>2, <3>3
  <2>6. Fresh'
    BY <1>0, <2>1 DEF Fresh
  <2>7. ASSUME NEW v \in Readers PROVE Orders(v)
    <3>1. /\ DOMAIN reader[v].snap \subseteq MsgIds /\ SnapOrder(v) /\ TakenOrder(v)
          /\ reader[v].taken \subseteq Queued /\ reader'[v] = reader[v]
      BY <1>0, <2>1 DEF Types, OrderInv, ReadOnce
    <3>2. \A m \in DOMAIN reader[v].snap \cup reader[v].taken : Seen(m) /\ m \in MsgIds
      BY <3>1 DEF Seen, Queued
    <3>3. SnapOrder(v)'
      <4> SUFFICES ASSUME NEW m \in DOMAIN reader[v].snap
                   PROVE  /\ rows'[m].at \in {"queue", "left"}
                          /\ m \in Queued' => \A k \in Queued' :
                               k \in DOMAIN reader[v].snap \/ LateFor(k, m)'
        BY <3>1 DEF SnapOrder
      <4>1. rows[m].at \in {"queue", "left"} /\ m # i /\ rows'[m] = rows[m]
        BY <2>1, <3>1, <3>2 DEF SnapOrder
      <4>2. ASSUME m \in Queued', NEW k \in Queued'
            PROVE  k \in DOMAIN reader[v].snap \/ LateFor(k, m)'
        <5>1. m \in Queued
          BY <4>1, <4>2, <2>2
        <5>2. CASE k = i
          BY <5>2, <2>4, <3>2
        <5>3. CASE k # i
          BY <5>1, <5>3, <4>2, <2>2, <2>3, <3>1 DEF SnapOrder
        <5> QED
          BY <5>2, <5>3
      <4> QED
        BY <4>1, <4>2
    <3>4. TakenOrder(v)'
      <4> SUFFICES ASSUME NEW m \in reader[v].taken, NEW k \in Queued'
                   PROVE  Together(v, k, m)'
        BY <3>1 DEF TakenOrder
      <4>1. CASE k = i
        BY <4>1, <2>4, <3>2 DEF Together
      <4>2. CASE k # i
        <5>1. k \in Queued /\ rows'[k] = rows[k] /\ Together(v, k, m)
          BY <4>2, <2>1, <2>2, <3>1 DEF TakenOrder, Queued
        <5> QED
          BY <5>1, <2>3, <3>1 DEF Together
      <4> QED
        BY <4>1, <4>2
    <3> QED
      BY <3>3, <3>4
  <2> QED
    BY <2>5, <2>6, <2>7
<1>7. ASSUME NEW i \in MsgIds, Settle(i) PROVE Rest
  <2>1. /\ reader' = reader /\ many' = many \ {i} /\ rows'[i].at = "left" /\ ~RowLocked(i)
        /\ \A m \in MsgIds : m # i => rows'[m] = rows[m]
    <3>1. rows \in [MsgIds -> Row]
      BY <1>0 DEF Types
    <3> QED
      BY <1>7, <3>1 DEF Settle, NewRow
  <2>2. Queued' = Queued \ {i}
    BY <2>1 DEF Queued
  <2>3. \A k, m : k # i /\ m # i /\ LateFor(k, m) => LateFor(k, m)'
    BY <1>7 DEF Settle, LateFor, Precedes, SameGroup, Before
  <2>4. InOrder'
    <3> SUFFICES ASSUME NEW m \in Queued', NEW k \in Queued', rows'[m].version > 0
                 PROVE  ReadFor(k, m)'
      BY DEF InOrder, LateFor, ReadFor
    <3>1. m \in Queued /\ k \in Queued /\ m # i /\ k # i
          /\ rows'[m] = rows[m] /\ rows'[k] = rows[k]
      BY <2>1, <2>2 DEF Queued
    <3>2. ReadFor(k, m)
      BY <3>1, <1>0 DEF InOrder, LateFor, ReadFor
    <3> QED
      BY <3>1, <3>2, <2>1, <2>3 DEF ReadFor
  <2>5. Fresh'
    BY <1>0, <2>1 DEF Fresh
  <2>6. ASSUME NEW v \in Readers PROVE Orders(v)
    <3>1. /\ DOMAIN reader[v].snap \subseteq MsgIds /\ SnapOrder(v) /\ TakenOrder(v)
          /\ reader'[v] = reader[v] /\ i \notin reader[v].taken
      BY <1>0, <2>1 DEF Types, OrderInv, RowLocked
    <3>2. SnapOrder(v)'
      <4> SUFFICES ASSUME NEW m \in DOMAIN reader[v].snap
                   PROVE  /\ rows'[m].at \in {"queue", "left"}
                          /\ m \in Queued' => \A k \in Queued' :
                               k \in DOMAIN reader[v].snap \/ LateFor(k, m)'
        BY <3>1 DEF SnapOrder
      <4> QED
        BY <2>1, <2>2, <2>3, <3>1 DEF SnapOrder
    <3>3. TakenOrder(v)'
      <4> SUFFICES ASSUME NEW m \in reader[v].taken, NEW k \in Queued'
                   PROVE  Together(v, k, m)'
        BY <3>1 DEF TakenOrder
      <4>1. /\ k \in Queued /\ k # i /\ m # i /\ rows'[k] = rows[k]
            /\ Together(v, k, m)
        BY <2>1, <2>2, <3>1 DEF TakenOrder, Queued
      <4> QED
        BY <4>1, <2>3, <3>1 DEF Together
    <3> QED
      BY <3>2, <3>3
  <2> QED
    BY <2>4, <2>5, <2>6
<1>8. ASSUME NEW i \in MsgIds, Expire(i) PROVE Rest
  <2>1. /\ reader' = reader /\ late' = late /\ many' = many
        /\ \A m \in MsgIds : /\ rows'[m].at = rows[m].at /\ rows'[m].version = rows[m].version
                             /\ m \notin Queued => rows'[m] = rows[m]
    <3>1. rows \in [MsgIds -> Row] /\ rows[i] \in Row
      BY <1>0 DEF Types
    <3> QED
      BY <1>8, <3>1 DEF Expire, Row, Queued
  <2> QED
    BY <2>1, OrderKept
<1>9. CASE UNCHANGED vars
  <2>1. rows' = rows /\ late' = late /\ many' = many /\ reader' = reader
    BY <1>9 DEF vars
  <2> QED
    BY <2>1, OrderKept
<1>10. ASSUME NEW i \in MsgIds, Postpone(i) PROVE Rest
  <2>1. /\ reader' = reader /\ late' = late /\ many' = many
        /\ \A m \in MsgIds : /\ rows'[m].at = rows[m].at
                             /\ rows'[m].version > 0 <=> rows[m].version > 0
                             /\ m \notin Queued => rows'[m] = rows[m]
    BY <1>0, <1>10, PostponeRow
  <2> QED
    BY <2>1, OrderKept
<1> QED
  BY <1>1, <1>2, <1>3, <1>4, <1>5, <1>6, <1>7, <1>8, <1>9, <1>10 DEF Next, Poll

(* A group is read in order: while a message is in the queue, none behind  *)
(* it has been handed out by a poll that asked for one message, those      *)
(* aside that had been seen when it was sent; and by a poll that asked for *)
(* several, only after it or together with it.                             *)
THEOREM InOrderCorrect == Spec => []InOrder
<1>1. OrderInv => InOrder
  BY DEF OrderInv
<1> QED
  BY <1>1, OrderInit, OrderStep, PTL DEF Spec

(* With polls that ask for one message at a time the order is the strict   *)
(* one that poll documents (_processor.py), late messages aside.           *)
THEOREM StrictOrderCorrect == ASSUME Qtys = {1} PROVE Spec => []StrictOrder
<1> DEFINE One == Types /\ many = {}
<1>1. Init => One
  BY TypesInit DEF Init
<1>2. One /\ [Next]_vars => One'
  <2> SUFFICES ASSUME Types, many = {}, [Next]_vars PROVE many' = {}
    BY TypesStep
  <2>1. ASSUME NEW w \in Readers, Commit(w) PROVE many' = {}
    <3>1. reader[w].qty = 1
      <4>1. IF reader[w].pc = "idle" THEN reader[w].qty = 0 ELSE reader[w].qty \in Qtys
        BY DEF Types
      <4>2. reader[w].pc = "commit"
        BY <2>1 DEF Commit
      <4> QED
        BY <4>1, <4>2
    <3>2. many' = {m \in reader[w].taken : reader[w].qty > 1}
      BY <2>1 DEF Commit
    <3>3. ~(reader[w].qty > 1)
      BY <3>1
    <3> QED
      BY <3>2, <3>3
  <2>2. ASSUME NEW m \in MsgIds, Settle(m) PROVE many' = {}
    BY <2>2 DEF Settle
  <2>3. CASE many' = many
    BY <2>3
  <2>4. ASSUME NEW w \in Readers, Take(w) PROVE many' = many
    BY <2>4, TakeStep
  <2> QED
    BY <2>1, <2>2, <2>3, <2>4
       DEF Next, Poll, Begin, TimeOut, Rollback, Assign, Arrive, Expire, Postpone, vars
<1>3. One /\ OrderInv => StrictOrder
  BY DEF OrderInv, InOrder, StrictOrder
<1> HIDE DEF One
<1> QED
  BY <1>1, <1>2, <1>3, OrderInit, OrderStep, PTL DEF Spec
=============================================================================
