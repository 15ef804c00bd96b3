---------------------------- MODULE WorkerProofs ----------------------------
(***************************************************************************)
(* The slots of a worker, for any number of loops, slots and messages: the *)
(* types, SlotsConserved and SurplusBound.                                 *)
(***************************************************************************)
EXTENDS Worker, FiniteSetTheorems, FunctionTheorems, TLAPS

Tasks == {m \in Msgs : msg[m] = "task"}

(* A loop asks for messages only while it polls, and polls only when every *)
(* task of its last poll has begun.                                        *)
LoopInv ==
  \A p \in Loops :
    /\ loop[p].at # "poll" => loop[p].asked = 0
    /\ loop[p].at = "poll" => In(p, "task") = {}
    /\ Cardinality(In(p, "task")) <= Slots

SlotInv == TypeOK /\ SlotsConserved /\ LoopInv /\ SurplusBound

-----------------------------------------------------------------------------
LEMMA FinitePairs ==
  ASSUME NEW n \in Nat, NEW S, S \subseteq Loops \X (1..n)
  PROVE  /\ IsFiniteSet(S) /\ Cardinality(S) \in Nat
         /\ \A T \in SUBSET S : Cardinality(T) <= Cardinality(S)
<1>1. IsFiniteSet(1..n)
  BY FS_Interval
<1>2. IsFiniteSet(Loops \X (1..n))
  BY <1>1, LoopsAssumption, FS_Product
<1>3. IsFiniteSet(S)
  BY <1>2, FS_Subset
<1> QED
  BY <1>3, FS_Subset, FS_CardinalityType

LEMMA FiniteMsgs ==
  ASSUME NEW S, S \subseteq Msgs
  PROVE  /\ IsFiniteSet(S) /\ Cardinality(S) \in Nat
         /\ \A T \in SUBSET S : Cardinality(T) <= Cardinality(S)
BY BoundsAssumption, FinitePairs DEF Msgs

LEMMA LoopsCounted == Cardinality(Loops) \in Nat /\ Slots \in Nat /\ Slots > 0
BY LoopsAssumption, SlotsAssumption, FS_CardinalityType

LEMMA GoToStep ==
  ASSUME loop \in [Loops -> Loop], NEW p \in Loops,
         NEW at \in {"sleep", "poll", "prune", "stopped"}, NEW asked \in 0..Slots,
         GoTo(p, at, asked)
  PROVE  /\ loop' \in [Loops -> Loop]
         /\ loop'[p].at = at /\ loop'[p].asked = asked
         /\ \A q \in Loops : q # p => loop'[q] = loop[q]
<1>1. LoopAt(at, asked) \in Loop /\ LoopAt(at, asked).at = at /\ LoopAt(at, asked).asked = asked
  BY DEF LoopAt, Loop
<1> QED
  BY <1>1 DEF GoTo

-----------------------------------------------------------------------------
(* Types *)

LEMMA TypeInit == Init => TypeOK
<1>1. LoopAt("sleep", 0) \in Loop
  BY LoopsCounted DEF LoopAt, Loop
<1> QED
  BY <1>1, LoopsCounted, BoundsAssumption DEF Init, TypeOK, MsgState, Due

(* What msg and loop become is in their types, whatever the action.        *)
LEMMA TypeStep == SlotsConserved' /\ TypeOK /\ [Next]_vars => TypeOK'
<1> SUFFICES ASSUME SlotsConserved', TypeOK, [Next]_vars PROVE TypeOK'
  OBVIOUS
<1>0. free' \in 0..Slots
  <2>1. Running' \subseteq Msgs
    BY DEF Running
  <2> QED
    BY <2>1, FiniteMsgs, LoopsCounted DEF SlotsConserved
<1> DEFINE Rest == /\ loop' \in [Loops -> Loop] /\ due' \in [Loops -> Due]
                   /\ msg' \in [Msgs -> MsgState]
                   /\ returns' \in 0..MaxReturns /\ faults' \in 0..MaxFaults
<1> SUFFICES Rest
  BY <1>0 DEF TypeOK
<1>1. 0 \in 0..Slots /\ LoopAt("sleep", 0) \in Loop
  BY LoopsCounted DEF LoopAt, Loop
<1>2. Fault => faults' \in 0..MaxFaults
  BY BoundsAssumption DEF Fault, TypeOK
<1>4. ASSUME NEW p \in Loops, NEW batch \in Batches(p), NEW s \in MsgState, Read(batch, s)
      PROVE  msg' \in [Msgs -> MsgState]
  BY <1>4 DEF Read, TypeOK
<1>5. ASSUME NEW m \in Msgs, Enqueue(m) \/ Expire(m) \/ Start(m) \/ End(m) PROVE Rest
  BY <1>5, BoundsAssumption DEF Enqueue, Expire, Start, End, TypeOK, MsgState
<1>6. ASSUME NEW p \in Loops, Wake(p) PROVE Rest
  BY <1>6, GoToStep DEF Wake, TypeOK
<1>7. ASSUME NEW p \in Loops, PollReturns(p) PROVE Rest
  <2>1. loop' \in [Loops -> Loop]
    BY <1>1, <1>7, GoToStep DEF PollReturns, TypeOK
  <2>2. msg' \in [Msgs -> MsgState]
    BY <1>4, <1>7 DEF PollReturns, MsgState
  <2> QED
    BY <1>7, <2>1, <2>2 DEF PollReturns, TypeOK
<1>8. ASSUME NEW p \in Loops, PollEmpty(p) PROVE Rest
  <2>1. loop' \in [Loops -> Loop]
    BY <1>1, <1>8, GoToStep DEF PollEmpty, TypeOK
  <2> QED
    BY <1>8, <2>1 DEF PollEmpty, TypeOK
<1>9. ASSUME NEW p \in Loops, PruneReturns(p) PROVE Rest
  <2>1. loop' \in [Loops -> Loop]
    BY <1>1, <1>9, GoToStep DEF PruneReturns, TypeOK, NextPrune, Due
  <2> QED
    BY <1>9, <2>1 DEF PruneReturns, TypeOK, NextPrune, Due
<1>10. ASSUME NEW p \in Loops, BecomeDue(p) PROVE Rest
  BY <1>10 DEF BecomeDue, TypeOK, Due
<1>11. ASSUME NEW p \in Loops, LoopRaises(p) PROVE Rest
  <2>1. loop' \in [Loops -> Loop]
    BY <1>1, <1>11, GoToStep DEF LoopRaises, AfterException, TypeOK
  <2>2. msg' \in [Msgs -> MsgState]
    BY <1>4, <1>11 DEF LoopRaises, MsgState, TypeOK
  <2> QED
    BY <1>2, <1>11, <2>1, <2>2 DEF LoopRaises, TypeOK
<1>12. CASE Restart
  BY <1>1, <1>2, <1>12 DEF Restart, TypeOK, MsgState, NextPrune, Due
<1>13. CASE UNCHANGED vars
  BY <1>13 DEF vars, TypeOK
<1> QED
  BY <1>5, <1>6, <1>7, <1>8, <1>9, <1>10, <1>11, <1>12, <1>13 DEF Next, LoopStep

-----------------------------------------------------------------------------
(* Slots *)

LEMMA NoneRunning ==
  ASSUME \A m \in Msgs : msg[m] \notin {"task", "running"}
  PROVE  Running = {} /\ Tasks = {} /\ \A p \in Loops : In(p, "task") = {}
BY DEF Running, Tasks, In

LEMMA SlotsInit == Init => SlotsConserved
<1> SUFFICES ASSUME Init PROVE SlotsConserved
  OBVIOUS
<1>1. Running = {}
  BY NoneRunning DEF Init
<1> QED
  BY <1>1, FS_EmptySet, LoopsCounted DEF SlotsConserved, Init

(* The messages that run when a batch of ready ones is read.               *)
LEMMA ReadStep ==
  ASSUME msg \in [Msgs -> MsgState], NEW p \in Loops, NEW batch \in Batches(p),
         NEW s \in {"task", "hidden"}, Read(batch, s)
  PROVE  /\ Running' = Running
         /\ s = "hidden" => Tasks' = Tasks
         /\ s = "task" => Tasks' = Tasks \cup batch
         /\ batch \subseteq In(p, "ready") /\ batch \cap Tasks = {}
         /\ \A m \in Msgs : m \notin batch => msg'[m] = msg[m]
         /\ \A m \in batch : msg'[m] = s
<1>1. batch \subseteq In(p, "ready")
  BY DEF Batches
<1>2. \A m \in batch : m \in Msgs /\ msg[m] = "ready" /\ m[1] = p
  BY <1>1 DEF In
<1>3. \A m \in Msgs : msg'[m] = IF m \in batch THEN s ELSE msg[m]
  BY DEF Read
<1> QED
  BY <1>1, <1>2, <1>3 DEF Running, Tasks

LEMMA SlotsStep == TypeOK /\ SlotsConserved /\ [Next]_vars => SlotsConserved'
<1> SUFFICES ASSUME TypeOK, SlotsConserved, [Next]_vars PROVE SlotsConserved'
  OBVIOUS
<1>0. IsFiniteSet(Running) /\ Cardinality(Running) \in Nat /\ Slots \in Nat
      /\ msg \in [Msgs -> MsgState]
  BY FiniteMsgs, LoopsCounted DEF Running, TypeOK
<1>1. ASSUME Running' = Running, free' = free PROVE SlotsConserved'
  BY <1>1 DEF SlotsConserved
<1>2. ASSUME NEW m \in Msgs, Enqueue(m) \/ Expire(m) PROVE SlotsConserved'
  <2>1. Running' = Running
    BY <1>0, <1>2 DEF Enqueue, Expire, Running
  <2> QED
    BY <1>1, <1>2, <2>1 DEF Enqueue, Expire
<1>3. ASSUME NEW m \in Msgs, Start(m) PROVE SlotsConserved'
  <2>1. CASE CanClaim
    <3>1. free' = free - 1 /\ msg' = [msg EXCEPT ![m] = "running"] /\ msg[m] = "task"
      BY <1>3, <2>1 DEF Start
    <3>2. Running' = Running \cup {m} /\ m \notin Running
      BY <1>0, <3>1 DEF Running
    <3>3. Cardinality(Running') = Cardinality(Running) + 1
      BY <1>0, <3>2, FS_AddElement
    <3> QED
      BY <1>0, <2>1, <3>1, <3>3 DEF SlotsConserved, CanClaim
  <2>2. CASE ~CanClaim
    <3>1. free' = free /\ msg' = [msg EXCEPT ![m] = "hidden"] /\ msg[m] = "task"
      BY <1>3, <2>2 DEF Start
    <3>2. Running' = Running
      BY <1>0, <3>1 DEF Running
    <3> QED
      BY <1>1, <3>1, <3>2
  <2> QED
    BY <2>1, <2>2
<1>4. ASSUME NEW m \in Msgs, End(m) PROVE SlotsConserved'
  <2>1. Running' = Running \ {m} /\ m \in Running /\ free' = free + 1
    BY <1>0, <1>4 DEF End, FreeSlot, Running
  <2>2. Cardinality(Running') = Cardinality(Running) - 1
    BY <1>0, <2>1, FS_RemoveElement
  <2> QED
    BY <1>0, <2>1, <2>2 DEF SlotsConserved
<1>5. ASSUME NEW p \in Loops, PollReturns(p) \/ LoopRaises(p) PROVE SlotsConserved'
  <2>1. Running' = Running
    <3>1. \/ UNCHANGED msg
          \/ \E batch \in Batches(p) : Read(batch, "task") \/ Read(batch, "hidden")
      BY <1>5 DEF PollReturns, LoopRaises
    <3> QED
      BY <1>0, <3>1, ReadStep DEF Running
  <2> QED
    BY <1>1, <1>5, <2>1 DEF PollReturns, LoopRaises
<1>6. ASSUME NEW p \in Loops, Wake(p) \/ PollEmpty(p) \/ PruneReturns(p) \/ BecomeDue(p)
      PROVE  SlotsConserved'
  BY <1>1, <1>6 DEF Wake, PollEmpty, PruneReturns, BecomeDue, Running
<1>7. CASE Restart
  <2>1. \A m \in Msgs : msg'[m] \notin {"task", "running"}
    BY <1>0, <1>7 DEF Restart
  <2>2. Running' = {} /\ free' = Slots
    BY <1>7, <2>1 DEF Restart, Running
  <2> QED
    BY <1>0, <2>2, FS_EmptySet DEF SlotsConserved
<1>8. CASE UNCHANGED vars
  BY <1>1, <1>8 DEF vars, Running
<1> QED
  BY <1>2, <1>3, <1>4, <1>5, <1>6, <1>7, <1>8 DEF Next, LoopStep

(* The variables have their types, and no slot of the worker is lost or    *)
(* freed twice.                                                            *)
THEOREM SlotsCorrect == Spec => [](TypeOK /\ SlotsConserved)
BY TypeInit, TypeStep, SlotsInit, SlotsStep, PTL DEF Spec

(* free_slots stays within 0..concurrency_limit whatever the order of      *)
(* claims, releases, exceptions and restarts: it needs SlotsConserved.     *)
THEOREM TypeCorrect == Spec => []TypeOK
BY SlotsCorrect, PTL

-----------------------------------------------------------------------------
(* Surplus *)

LEMMA FiniteParts ==
  /\ IsFiniteSet(Tasks) /\ Cardinality(Tasks) \in Nat
  /\ IsFiniteSet(Asked) /\ Cardinality(Asked) \in Nat
BY FiniteMsgs, FinitePairs, LoopsCounted DEF Tasks, Asked

LEMMA TwoParts ==
  ASSUME NEW S, NEW T, IsFiniteSet(S), IsFiniteSet(T)
  PROVE  /\ Cardinality(S \cup T) <= Cardinality(S) + Cardinality(T)
         /\ S \cap T = {} => Cardinality(S \cup T) = Cardinality(S) + Cardinality(T)
         /\ Cardinality(S) \in Nat /\ Cardinality(T) \in Nat
<1>1. Cardinality(S \cup T) = Cardinality(S) + Cardinality(T) - Cardinality(S \cap T)
  BY FS_Union
<1>2. Cardinality(S) \in Nat /\ Cardinality(T) \in Nat /\ Cardinality(S \cap T) \in Nat
  BY FS_CardinalityType, FS_Intersection
<1>3. S \cap T = {} => Cardinality(S \cap T) = 0
  BY FS_EmptySet
<1> QED
  BY <1>1, <1>2, <1>3

LEMMA OneLoop ==
  ASSUME NEW p, NEW n \in Nat
  PROVE  IsFiniteSet({p} \X (1..n)) /\ Cardinality({p} \X (1..n)) = n
<1>1. IsFiniteSet(1..n) /\ Cardinality(1..n) = n
  BY FS_Interval
<1>2. IsFiniteSet({p}) /\ Cardinality({p}) = 1
  BY FS_Singleton
<1>3. /\ IsFiniteSet({p} \X (1..n))
      /\ Cardinality({p} \X (1..n)) = Cardinality({p}) * Cardinality(1..n)
  BY <1>1, <1>2, FS_Product
<1> QED
  BY <1>1, <1>2, <1>3

(* When p has no task and has asked for nothing, the tasks and the slots   *)
(* asked for are the other loops', and no more than Slots are one loop's:  *)
(* they are numbered, loop by loop.                                        *)
LEMMA OtherLoops ==
  ASSUME TypeOK, LoopInv, NEW p \in Loops, In(p, "task") = {}, loop[p].asked = 0
  PROVE  Cardinality(Tasks) + Cardinality(Asked) <= (Cardinality(Loops) - 1) * Slots
<1> DEFINE U == (Loops \ {p}) \X (1..Slots)
           number(q) == CHOOSE f : f \in Injection(In(q, "task"), 1..Slots)
           place == [x \in Tasks \cup Asked |->
                       IF x \in Tasks THEN <<x[1], number(x[1])[x]>> ELSE x]
<1>1. ASSUME NEW q \in Loops
      PROVE  number(q) \in Injection(In(q, "task"), 1..Slots)
  <2> DEFINE S == In(q, "task")
             n == Cardinality(S)
  <2>1. IsFiniteSet(S) /\ n \in Nat /\ n <= Slots
    BY FiniteMsgs DEF In, LoopInv
  <2> HIDE DEF S, n
  <2>2. ExistsBijection(1..n, S)
    BY <2>1, FS_CardinalityType DEF n
  <2>3. PICK f : f \in Bijection(S, 1..n)
    BY <2>2, Fun_ExistsBijSymmetric DEF ExistsBijection
  <2>4. f \in Injection(S, 1..Slots)
    BY <2>1, <2>3, LoopsCounted DEF Bijection, Injection, IsInjective
  <2> QED
    BY <2>4 DEF S
<1>2. ASSUME NEW x \in Tasks
      PROVE  /\ x[1] \in Loops \ {p} /\ x \in In(x[1], "task")
             /\ loop[x[1]].asked = 0
             /\ place[x] = <<x[1], number(x[1])[x]>> /\ place[x][1] = x[1]
             /\ number(x[1])[x] \in 1..Slots
  <2>1. x[1] \in Loops /\ x \in In(x[1], "task")
    BY DEF Tasks, In, Msgs
  <2>2. number(x[1]) \in Injection(In(x[1], "task"), 1..Slots)
    BY <1>1, <2>1
  <2>3. number(x[1])[x] \in 1..Slots
    BY <2>1, <2>2 DEF Injection
  <2>4. place[x] = <<x[1], number(x[1])[x]>>
    OBVIOUS
  <2> HIDE DEF number, place
  <2> QED
    BY <2>1, <2>3, <2>4 DEF LoopInv
<1>3. ASSUME NEW x \in Asked
      PROVE  /\ x \in U /\ x[1] \in Loops /\ loop[x[1]].asked # 0
             /\ x \notin Tasks /\ place[x] = x
  <2>1. x \in Loops \X (1..Slots) /\ x[1] \in Loops /\ loop[x[1]].asked # 0
    BY LoopsCounted DEF Asked, TypeOK, Loop
  <2>2. x \notin Tasks
    BY <1>2, <2>1
  <2> QED
    BY <2>1, <2>2
<1>4. place \in Injection(Tasks \cup Asked, U)
  <2> HIDE DEF place, number
  <2>1. place \in [Tasks \cup Asked -> U]
    <3>1. ASSUME NEW x \in Tasks PROVE place[x] \in U
      <4>1. <<x[1], number(x[1])[x]>> \in U
        BY <1>2
      <4> QED
        BY <1>2, <4>1
    <3>2. \A x \in Asked : place[x] \in U
      BY <1>3
    <3> QED
      BY <3>1, <3>2 DEF place
  <2>2. ASSUME NEW x \in Tasks \cup Asked, NEW y \in Tasks \cup Asked, place[x] = place[y]
        PROVE  x = y
    <3>1. CASE x \in Tasks /\ y \in Tasks
      <4>1. x[1] = y[1] /\ number(x[1])[x] = number(x[1])[y]
        BY <1>2, <2>2, <3>1
      <4>2. x \in In(x[1], "task") /\ y \in In(x[1], "task")
        BY <1>2, <3>1, <4>1
      <4>3. number(x[1]) \in Injection(In(x[1], "task"), 1..Slots)
        BY <1>1, <1>2, <3>1
      <4> QED
        BY <4>1, <4>2, <4>3 DEF Injection, IsInjective
    <3>2. CASE x \in Asked /\ y \in Asked
      BY <1>3, <2>2, <3>2
    <3>3. CASE x \in Tasks /\ y \in Asked
      BY <1>2, <1>3, <2>2, <3>3
    <3>4. CASE x \in Asked /\ y \in Tasks
      BY <1>2, <1>3, <2>2, <3>4
    <3> QED
      BY <3>1, <3>2, <3>3, <3>4
  <2> QED
    BY <2>1, <2>2 DEF Injection, IsInjective
<1> HIDE DEF place, number
<1>5. IsFiniteSet(U) /\ Cardinality(U) = (Cardinality(Loops) - 1) * Slots
  <2>1. IsFiniteSet(Loops \ {p}) /\ Cardinality(Loops \ {p}) = Cardinality(Loops) - 1
    BY LoopsAssumption, FS_RemoveElement
  <2>2. IsFiniteSet(1..Slots) /\ Cardinality(1..Slots) = Slots
    BY LoopsCounted, FS_Interval
  <2> DEFINE S == Loops \ {p}
             T == 1..Slots
  <2>3. U = S \X T
    OBVIOUS
  <2> HIDE DEF S, T, U
  <2>4. IsFiniteSet(S \X T) /\ Cardinality(S \X T) = Cardinality(S) * Cardinality(T)
    BY <2>1, <2>2, FS_Product DEF S, T
  <2>5. Cardinality(S) = Cardinality(Loops) - 1 /\ Cardinality(T) = Slots
    BY <2>1, <2>2 DEF S, T
  <2> QED
    BY <2>3, <2>4, <2>5
<1>6. Cardinality(Tasks \cup Asked) <= Cardinality(U)
  BY <1>4, <1>5, FS_Injection
<1>7. Cardinality(Tasks \cup Asked) = Cardinality(Tasks) + Cardinality(Asked)
  <2>1. Tasks \cap Asked = {}
    BY <1>3
  <2> QED
    BY <2>1, FiniteParts, TwoParts
<1> QED
  BY <1>5, <1>6, <1>7

LEMMA AllFree == 0 <= Slots + (Cardinality(Loops) - 1) * Slots
<1>1. /\ (Cardinality(Loops) - 1) * Slots = Cardinality(Loops) * Slots - Slots
      /\ Cardinality(Loops) * Slots \in Nat
  BY LoopsCounted
<1> QED
  BY <1>1, LoopsCounted

LEMMA SlotInvInit == Init => SlotInv
<1> SUFFICES ASSUME Init PROVE SlotInv
  OBVIOUS
<1>1. TypeOK /\ SlotsConserved
  BY TypeInit, SlotsInit
<1>2. Tasks = {} /\ \A p \in Loops : In(p, "task") = {}
  BY NoneRunning DEF Init
<1>3. \A p \in Loops : loop[p].at = "sleep" /\ loop[p].asked = 0
  BY DEF Init, LoopAt
<1>4. Asked = {}
  BY <1>3, LoopsCounted DEF Asked
<1>5. LoopInv
  BY <1>2, <1>3, FS_EmptySet, LoopsCounted DEF LoopInv
<1>6. SurplusBound
  <2>1. Cardinality(Tasks) = 0 /\ Cardinality(Asked) = 0 /\ free = Slots
    BY <1>2, <1>4, FS_EmptySet DEF Init
  <2> QED
    BY <2>1, AllFree DEF SurplusBound, Tasks
<1> QED
  BY <1>1, <1>5, <1>6 DEF SlotInv

(* Steps after which no loop has more tasks or has asked for more.         *)
LEMMA FewerStep ==
  ASSUME SlotInv, TypeOK', Tasks' \subseteq Tasks, free' >= free,
         \A q \in Loops : \/ loop'[q] = loop[q]
                          \/ loop'[q].at # "poll" /\ loop'[q].asked = 0
  PROVE  LoopInv' /\ SurplusBound'
<1>1. \A q \in Loops : In(q, "task")' \subseteq In(q, "task")
  BY DEF In, Tasks
<1>2. \A q \in Loops : In(q, "task") \subseteq Msgs
  BY DEF In
<1>3. LoopInv'
  <2> SUFFICES ASSUME NEW q \in Loops
               PROVE  /\ loop'[q].at # "poll" => loop'[q].asked = 0
                      /\ loop'[q].at = "poll" => In(q, "task")' = {}
                      /\ Cardinality(In(q, "task")') <= Slots
    BY DEF LoopInv
  <2>1. /\ Cardinality(In(q, "task")') <= Cardinality(In(q, "task"))
        /\ Cardinality(In(q, "task")') \in Nat /\ Cardinality(In(q, "task")) \in Nat
    <3>1. In(q, "task")' \subseteq Msgs /\ In(q, "task")' \in SUBSET In(q, "task")
      BY <1>1, <1>2
    <3> QED
      BY <1>2, <3>1, FiniteMsgs
  <2>2. Cardinality(In(q, "task")) <= Slots
    BY DEF SlotInv, LoopInv
  <2>3. Cardinality(In(q, "task")') <= Slots
    BY <2>1, <2>2, LoopsCounted
  <2>4. loop[q].at = "poll" => In(q, "task")' = {}
    BY <1>1 DEF SlotInv, LoopInv
  <2> QED
    BY <2>3, <2>4 DEF SlotInv, LoopInv
<1>4. SurplusBound'
  <2>1. Asked' \subseteq Asked
    <3> SUFFICES ASSUME NEW a \in Loops \X (1..Slots), a[2] <= loop'[a[1]].asked
                 PROVE  a[2] <= loop[a[1]].asked
      BY DEF Asked
    <3> QED
      BY LoopsCounted
  <2>2. /\ Cardinality(Asked') <= Cardinality(Asked) /\ Cardinality(Asked') \in Nat
        /\ Cardinality(Tasks') <= Cardinality(Tasks) /\ Cardinality(Tasks') \in Nat
    BY <2>1, FiniteParts, FS_Subset, FS_CardinalityType
  <2>3. Cardinality(Tasks) + Cardinality(Asked) <= free + (Cardinality(Loops) - 1) * Slots
    BY DEF SlotInv, SurplusBound, Tasks
  <2>4. (Cardinality(Loops) - 1) * Slots \in Int /\ free \in Int /\ free' \in Int
    BY LoopsCounted DEF SlotInv, TypeOK
  <2>5. Cardinality(Tasks') + Cardinality(Asked') <= free' + (Cardinality(Loops) - 1) * Slots
    <3> DEFINE others == (Cardinality(Loops) - 1) * Slots
    <3> HIDE DEF others
    <3> QED
      BY <2>2, <2>3, <2>4, FiniteParts DEF others
  <2> QED
    BY <2>5 DEF SurplusBound, Tasks
<1> QED
  BY <1>3, <1>4

LEMMA StartStep ==
  ASSUME SlotInv, TypeOK', NEW m \in Msgs, Start(m)
  PROVE  LoopInv' /\ SurplusBound'
<1>1. /\ Tasks' = Tasks \ {m} /\ m \in Tasks /\ loop' = loop
      /\ free' = free \/ free' = free - 1
  BY DEF Start, Tasks, SlotInv, TypeOK
<1>2. /\ Cardinality(Tasks') = Cardinality(Tasks) - 1
      /\ Asked' = Asked
  BY <1>1, FiniteParts, FS_RemoveElement DEF Asked
<1>3. LoopInv'
  <2> SUFFICES ASSUME NEW q \in Loops
               PROVE  /\ loop[q].at # "poll" => loop[q].asked = 0
                      /\ loop[q].at = "poll" => In(q, "task")' = {}
                      /\ Cardinality(In(q, "task")') <= Slots
    BY <1>1 DEF LoopInv
  <2>1. In(q, "task")' \subseteq In(q, "task") /\ In(q, "task") \subseteq Msgs
    BY <1>1 DEF In, Tasks
  <2>2. /\ Cardinality(In(q, "task")') <= Cardinality(In(q, "task"))
        /\ Cardinality(In(q, "task")') \in Nat /\ Cardinality(In(q, "task")) \in Nat
    <3>1. In(q, "task")' \subseteq Msgs /\ In(q, "task")' \in SUBSET In(q, "task")
      BY <2>1
    <3> QED
      BY <2>1, <3>1, FiniteMsgs
  <2>3. Cardinality(In(q, "task")) <= Slots
    BY DEF SlotInv, LoopInv
  <2>4. Cardinality(In(q, "task")') <= Slots
    BY <2>2, <2>3, LoopsCounted
  <2> QED
    BY <2>1, <2>4 DEF SlotInv, LoopInv
<1>4. SurplusBound'
  <2> DEFINE others == (Cardinality(Loops) - 1) * Slots
  <2>1. others \in Int /\ free \in Int
    BY LoopsCounted DEF SlotInv, TypeOK
  <2>2. Cardinality(Tasks) + Cardinality(Asked) <= free + others
    BY DEF SlotInv, SurplusBound, Tasks
  <2> HIDE DEF others
  <2>3. Cardinality(Tasks') + Cardinality(Asked') <= free' + others
    BY <1>1, <1>2, <2>1, <2>2, FiniteParts
  <2> QED
    BY <2>3 DEF SurplusBound, Tasks, others
<1> QED
  BY <1>3, <1>4

LEMMA WakeStep ==
  ASSUME SlotInv, NEW p \in Loops, Wake(p)
  PROVE  LoopInv' /\ SurplusBound'
<1>0. TypeOK /\ LoopInv /\ free \in 0..Slots
  BY DEF SlotInv, TypeOK
<1>1. /\ loop[p].at = "sleep" /\ In(p, "task") = {} /\ loop[p].asked = 0
      /\ msg' = msg /\ free' = free
  BY <1>0 DEF Wake, TasksStarted, LoopInv
<1>2. /\ loop'[p].at = "poll" /\ loop'[p].asked = free
      /\ \A q \in Loops : q # p => loop'[q] = loop[q]
  BY <1>0, GoToStep DEF Wake, TypeOK
<1>3. LoopInv'
  <2>1. \A q \in Loops : In(q, "task")' = In(q, "task")
    BY <1>1 DEF In
  <2> QED
    BY <1>0, <1>1, <1>2, <2>1 DEF LoopInv
<1>4. SurplusBound'
  <2> DEFINE others == (Cardinality(Loops) - 1) * Slots
             mine == {p} \X (1..free)
  <2>1. Cardinality(Tasks) + Cardinality(Asked) <= others
    BY <1>0, <1>1, OtherLoops
  <2>2. IsFiniteSet(mine) /\ Cardinality(mine) = free
    <3>1. free \in Nat
      BY <1>0, LoopsCounted
    <3> QED
      BY <3>1, OneLoop
  <2>3. Asked' \subseteq Asked \cup mine
    <3> SUFFICES ASSUME NEW a \in Loops \X (1..Slots), a[2] <= loop'[a[1]].asked, a \notin Asked
                 PROVE  a \in mine
      BY DEF Asked
    <3>1. a[1] = p
      BY <1>2 DEF Asked
    <3> QED
      BY <1>0, <1>2, <3>1
  <2> HIDE DEF mine
  <2>4. /\ IsFiniteSet(Asked \cup mine)
        /\ Cardinality(Asked \cup mine) <= Cardinality(Asked) + free
    BY <2>2, FiniteParts, FS_Union, TwoParts
  <2>5. Cardinality(Asked') <= Cardinality(Asked) + free /\ Cardinality(Asked') \in Nat
    <3>1. IsFiniteSet(Asked') /\ Cardinality(Asked') <= Cardinality(Asked \cup mine)
      BY <2>3, <2>4, FS_Subset
    <3> QED
      BY <1>0, <2>4, <3>1, FiniteParts, FS_CardinalityType
  <2>6. others \in Int /\ Tasks' = Tasks
    BY <1>1, LoopsCounted DEF Tasks
  <2> HIDE DEF others
  <2>7. Cardinality(Tasks') + Cardinality(Asked') <= free' + others
    BY <1>0, <1>1, <2>1, <2>5, <2>6, FiniteParts
  <2> QED
    BY <2>7 DEF SurplusBound, Tasks, others
<1> QED
  BY <1>3, <1>4

LEMMA PollStep ==
  ASSUME SlotInv, NEW p \in Loops, PollReturns(p)
  PROVE  LoopInv' /\ SurplusBound'
<1>0. TypeOK /\ LoopInv /\ free \in 0..Slots /\ msg \in [Msgs -> MsgState]
      /\ loop[p].asked \in 0..Slots /\ 0 \in 0..Slots
  BY LoopsCounted DEF SlotInv, TypeOK, Loop
<1>1. loop[p].at = "poll" /\ In(p, "task") = {} /\ free' = free
  BY <1>0 DEF PollReturns, LoopInv
<1>2. /\ loop'[p].at = "sleep" /\ loop'[p].asked = 0
      /\ \A q \in Loops : q # p => loop'[q] = loop[q]
  BY <1>0, GoToStep DEF PollReturns, TypeOK
<1>3. PICK batch \in Batches(p) : Read(batch, "task")
  BY DEF PollReturns
<1>4. /\ Tasks' = Tasks \cup batch /\ batch \subseteq In(p, "ready")
      /\ \A m \in Msgs : m \notin batch => msg'[m] = msg[m]
      /\ \A m \in batch : msg'[m] = "task"
  BY <1>0, <1>3, ReadStep
<1>5. batch \subseteq Msgs /\ \A m \in batch : m[1] = p
  BY <1>4 DEF In
<1>6. IsFiniteSet(batch) /\ Cardinality(batch) \in Nat /\ Cardinality(batch) <= loop[p].asked
  <2>1. IsFiniteSet(batch) /\ Cardinality(batch) \in Nat /\ Cardinality(In(p, "ready")) \in Nat
    BY <1>5, FiniteMsgs DEF In
  <2>2. Cardinality(batch) = IF loop[p].asked < Cardinality(In(p, "ready")) THEN loop[p].asked
                             ELSE Cardinality(In(p, "ready"))
    BY <1>3 DEF Batches
  <2> QED
    BY <1>0, <2>1, <2>2
<1>7. LoopInv'
  <2>1. ASSUME NEW q \in Loops, q # p PROVE In(q, "task")' = In(q, "task")
    BY <1>4, <1>5, <2>1 DEF In
  <2>2. In(p, "task")' = batch
    <3>1. \A m \in Msgs : m[1] = p => msg[m] # "task"
      BY <1>1 DEF In
    <3> QED
      BY <1>4, <1>5, <3>1 DEF In
  <2>3. Cardinality(batch) <= Slots
    BY <1>0, <1>6, LoopsCounted
  <2> QED
    BY <1>0, <1>2, <2>1, <2>2, <2>3 DEF LoopInv
<1>8. SurplusBound'
  <2> DEFINE others == (Cardinality(Loops) - 1) * Slots
             mine == {p} \X (1..loop[p].asked)
  <2>1. IsFiniteSet(mine) /\ Cardinality(mine) = loop[p].asked
    <3>1. loop[p].asked \in Nat
      BY <1>0, LoopsCounted
    <3> QED
      BY <3>1, OneLoop
  <2>2. Asked' \cup mine \subseteq Asked /\ Asked' \cap mine = {}
    <3>1. mine \subseteq Asked
      BY <1>0, LoopsCounted DEF Asked
    <3>2. ASSUME NEW a \in Asked' PROVE a \in Asked /\ a \notin mine
      <4>1. a \in Loops \X (1..Slots) /\ a[2] <= loop'[a[1]].asked
        BY DEF Asked
      <4>2. a[1] # p
        BY <1>2, <4>1, LoopsCounted
      <4> QED
        BY <1>2, <4>1, <4>2 DEF Asked
    <3> QED
      BY <3>1, <3>2
  <2> HIDE DEF mine
  <2>3. /\ Cardinality(Asked') \in Nat
        /\ Cardinality(Asked') + loop[p].asked <= Cardinality(Asked)
    <3>1. IsFiniteSet(Asked')
      BY <2>2, FiniteParts, FS_Subset
    <3>2. Cardinality(Asked' \cup mine) = Cardinality(Asked') + loop[p].asked
      BY <2>1, <2>2, <3>1, TwoParts
    <3>3. Cardinality(Asked' \cup mine) <= Cardinality(Asked)
      BY <2>2, FiniteParts, FS_Subset
    <3> QED
      BY <3>1, <3>2, <3>3, FS_CardinalityType
  <2>4. /\ Cardinality(Tasks') <= Cardinality(Tasks) + Cardinality(batch)
        /\ Cardinality(Tasks') \in Nat
    <3>1. IsFiniteSet(Tasks \cup batch)
      BY <1>6, FiniteParts, FS_Union
    <3> QED
      BY <1>4, <1>6, <3>1, FiniteParts, TwoParts, FS_CardinalityType
  <2>5. Cardinality(Tasks) + Cardinality(Asked) <= free + others
    BY DEF SlotInv, SurplusBound, Tasks
  <2>6. others \in Int
    BY LoopsCounted
  <2> HIDE DEF others
  <2>7. Cardinality(Tasks') + Cardinality(Asked') <= free' + others
    BY <1>0, <1>1, <1>6, <2>3, <2>4, <2>5, <2>6, FiniteParts
  <2> QED
    BY <2>7 DEF SurplusBound, Tasks, others
<1> QED
  BY <1>7, <1>8

LEMMA RestartStep ==
  ASSUME SlotInv, Restart
  PROVE  LoopInv' /\ SurplusBound'
<1>1. \A m \in Msgs : msg'[m] \notin {"task", "running"}
  BY DEF Restart
<1>2. Tasks' = {} /\ \A q \in Loops : In(q, "task")' = {}
  BY <1>1 DEF Tasks, In
<1>3. free' = Slots /\ \A q \in Loops : loop'[q].at = "sleep" /\ loop'[q].asked = 0
  BY DEF Restart, LoopAt
<1>4. Asked' = {}
  BY <1>3, LoopsCounted DEF Asked
<1>5. Cardinality({}) = 0
  BY FS_EmptySet
<1>6. LoopInv'
  BY <1>2, <1>3, <1>5, LoopsCounted DEF LoopInv
<1>7. Cardinality(Tasks') + Cardinality(Asked') <= free' + (Cardinality(Loops) - 1) * Slots
  BY <1>2, <1>3, <1>4, <1>5, AllFree
<1> QED
  BY <1>6, <1>7 DEF SurplusBound, Tasks

LEMMA SlotInvStep == SlotInv /\ [Next]_vars => SlotInv'
<1> SUFFICES ASSUME SlotInv, [Next]_vars PROVE SlotInv'
  OBVIOUS
<1>0. TypeOK /\ SlotsConserved /\ TypeOK' /\ SlotsConserved' /\ free \in 0..Slots
      /\ loop \in [Loops -> Loop] /\ msg \in [Msgs -> MsgState] /\ 0 \in 0..Slots
  BY TypeStep, SlotsStep, LoopsCounted DEF SlotInv, TypeOK
<1> SUFFICES LoopInv' /\ SurplusBound'
  BY <1>0 DEF SlotInv
<1>a. ASSUME Tasks' \subseteq Tasks, free' >= free,
             \/ loop' = loop
             \/ \E p \in Loops : /\ loop'[p].at # "poll" /\ loop'[p].asked = 0
                                 /\ \A q \in Loops : q # p => loop'[q] = loop[q]
      PROVE  LoopInv' /\ SurplusBound'
  <2>1. \A q \in Loops : \/ loop'[q] = loop[q]
                         \/ loop'[q].at # "poll" /\ loop'[q].asked = 0
    BY <1>a
  <2>2. SlotInv /\ TypeOK' /\ Tasks' \subseteq Tasks /\ free' >= free
    BY <1>0, <1>a
  <2> QED
    BY <2>1, <2>2, FewerStep
<1>b. Tasks' = Tasks /\ free' = free => Tasks' \subseteq Tasks /\ free' >= free
  BY <1>0, LoopsCounted
<1>1. ASSUME NEW m \in Msgs, Start(m) PROVE LoopInv' /\ SurplusBound'
  BY <1>0, <1>1, StartStep
<1>2. ASSUME NEW m \in Msgs, Enqueue(m) \/ Expire(m) \/ End(m)
      PROVE  LoopInv' /\ SurplusBound'
  <2>1. Tasks' \subseteq Tasks /\ free' >= free /\ loop' = loop
    BY <1>0, <1>2, LoopsCounted DEF Enqueue, Expire, End, FreeSlot, Tasks
  <2> QED
    BY <1>0, <1>a, <2>1
<1>3. ASSUME NEW p \in Loops, Wake(p) PROVE LoopInv' /\ SurplusBound'
  BY <1>3, WakeStep
<1>4. ASSUME NEW p \in Loops, PollReturns(p) PROVE LoopInv' /\ SurplusBound'
  BY <1>4, PollStep
<1>5. ASSUME NEW p \in Loops, PollEmpty(p) PROVE LoopInv' /\ SurplusBound'
  <2>1. /\ loop'[p].at # "poll" /\ loop'[p].asked = 0
        /\ \A q \in Loops : q # p => loop'[q] = loop[q]
    BY <1>0, <1>5, GoToStep DEF PollEmpty
  <2>2. Tasks' = Tasks /\ free' = free
    BY <1>5 DEF PollEmpty, Tasks
  <2> QED
    BY <1>a, <1>b, <2>1, <2>2
<1>6. ASSUME NEW p \in Loops, PruneReturns(p) PROVE LoopInv' /\ SurplusBound'
  <2>1. /\ loop'[p].at # "poll" /\ loop'[p].asked = 0
        /\ \A q \in Loops : q # p => loop'[q] = loop[q]
    BY <1>0, <1>6, GoToStep DEF PruneReturns
  <2>2. Tasks' = Tasks /\ free' = free
    BY <1>6 DEF PruneReturns, Tasks
  <2> QED
    BY <1>a, <1>b, <2>1, <2>2
<1>7. ASSUME NEW p \in Loops, LoopRaises(p) PROVE LoopInv' /\ SurplusBound'
  <2>1. /\ loop'[p].at # "poll" /\ loop'[p].asked = 0
        /\ \A q \in Loops : q # p => loop'[q] = loop[q]
    BY <1>0, <1>7, GoToStep DEF LoopRaises, AfterException
  <2>2. Tasks' = Tasks /\ free' = free
    <3>1. UNCHANGED msg \/ \E batch \in Batches(p) : Read(batch, "hidden")
      BY <1>7 DEF LoopRaises
    <3>2. Tasks' = Tasks
      BY <1>0, <3>1, ReadStep DEF Tasks
    <3> QED
      BY <1>7, <3>2 DEF LoopRaises
  <2> QED
    BY <1>a, <1>b, <2>1, <2>2
<1>8. ASSUME NEW p \in Loops, BecomeDue(p) PROVE LoopInv' /\ SurplusBound'
  <2>1. Tasks' = Tasks /\ free' = free /\ loop' = loop
    BY <1>8 DEF BecomeDue, Tasks
  <2> QED
    BY <1>a, <1>b, <2>1
<1>9. CASE Restart
  BY <1>9, RestartStep
<1>10. CASE UNCHANGED vars
  <2>1. Tasks' = Tasks /\ free' = free /\ loop' = loop
    BY <1>10 DEF vars, Tasks
  <2> QED
    BY <1>a, <1>b, <2>1
<1> QED
  BY <1>1, <1>2, <1>3, <1>4, <1>5, <1>6, <1>7, <1>8, <1>9, <1>10 DEF Next, LoopStep

(* Loops that share the slots read at most (Loops - 1) * Slots messages    *)
(* too many, and a worker with one loop reads none.                        *)
THEOREM SurplusCorrect == Spec => []SurplusBound
<1>1. SlotInv => SurplusBound
  BY DEF SlotInv
<1> QED
  BY <1>1, SlotInvInit, SlotInvStep, PTL DEF Spec

=============================================================================
