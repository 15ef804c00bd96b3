------------------------- MODULE LeaseTimingProofs -------------------------
(***************************************************************************)
(* LeaseKept and OverlapBound for all times and any number of jobs.  The   *)
(* strengthening says what vt promises to every job that still holds the   *)
(* message: it ends no earlier than the lease that job's read began.       *)
(***************************************************************************)
EXTENDS LeaseTiming, TLAPS

(* Where a job is in its lease. *)
JobTimes(j) ==
  /\ Active(j) => jobs[j].readAt <= now /\ (gone \/ jobs[j].readAt + Timeout <= vt)
  /\ jobs[j].pc = "before" => now <= jobs[j].readAt + Lag
  /\ Running(j) => /\ jobs[j].startAt <= jobs[j].readAt + Lag
                   /\ now <= jobs[j].startAt + Timeout

LeaseInv == TypeOK /\ now >= Timeout /\ LeaseKept /\ \A j \in Jobs : JobTimes(j)

-----------------------------------------------------------------------------
LEMMA InitLease == ASSUME Init PROVE LeaseInv
<1>1. \A j \in Jobs : jobs[j] = IdleJob
  BY DEF Init
<1>2. TypeOK /\ now >= Timeout
  BY TimesAssumption, EpochAssumption DEF Init, TypeOK, IdleJob, Job, Phases
<1>3. LeaseKept /\ \A j \in Jobs : JobTimes(j)
  BY <1>1 DEF LeaseKept, JobTimes, Active, Running, IdleJob
<1> QED BY <1>2, <1>3 DEF LeaseInv

(* A job that ends leaves the others as they are; vt may only grow.        *)
LEMMA FinishLease ==
  ASSUME LeaseInv, NEW j \in Jobs, Finish(j), now' = now,
         gone' \in BOOLEAN, gone => gone', vt' \in Nat, retryAt' \in Nat,
         gone' \/ vt <= vt' \/ now + Timeout <= vt'
  PROVE  LeaseInv'
<1> USE TimesAssumption
<1>1. TypeOK /\ now >= Timeout /\ LeaseKept /\ \A i \in Jobs : JobTimes(i)
  BY DEF LeaseInv
<1>2. /\ jobs' \in [Jobs -> Job]
      /\ ~Active(j)'
      /\ \A i \in Jobs \ {j} : jobs'[i] = jobs[i]
  BY <1>1 DEF Finish, TypeOK, Job, Phases, IdleJob, Active
<1>3. TypeOK' /\ now' >= Timeout
  BY <1>1, <1>2 DEF TypeOK
<1>4. LeaseKept'
  BY <1>1, <1>2 DEF LeaseKept, Active
<1>5. ASSUME NEW i \in Jobs  PROVE JobTimes(i)'
  <2>1. CASE i = j
    BY <2>1, <1>2 DEF JobTimes, Active, Running
  <2>2. CASE i # j
    <3>1. jobs'[i] = jobs[i] /\ jobs[i] \in Job
      BY <2>2, <1>1, <1>2 DEF TypeOK
    <3>2. vt \in Nat /\ now \in Nat /\ JobTimes(i)
      BY <1>1 DEF TypeOK
    <3> QED BY <3>1, <3>2 DEF JobTimes, Active, Running, Job
  <2> QED BY <2>1, <2>2
<1> QED BY <1>3, <1>4, <1>5 DEF LeaseInv

LEMMA StepLease == ASSUME LeaseInv, [Next]_vars PROVE LeaseInv'
<1> USE TimesAssumption
<1>1. TypeOK /\ now >= Timeout /\ LeaseKept /\ \A i \in Jobs : JobTimes(i)
  BY DEF LeaseInv
<1>2. CASE Tick
  <2>1. now \in Nat /\ jobs \in [Jobs -> Job] /\ TypeOK' /\ now' >= Timeout
    BY <1>1, <1>2 DEF Tick, TypeOK
  <2>2. LeaseKept'
    BY <1>1, <1>2 DEF Tick, LeaseKept, Active
  <2>3. ASSUME NEW i \in Jobs  PROVE JobTimes(i)'
    <3>1. jobs[i] \in Job /\ JobTimes(i)
      BY <1>1, <2>1
    <3> QED BY <1>2, <2>1, <3>1 DEF Tick, JobTimes, Active, Running, Deadline, Job
  <2> QED BY <2>1, <2>2, <2>3 DEF LeaseInv
<1>3. CASE UNCHANGED vars
  BY <1>1, <1>3 DEF vars, LeaseInv, TypeOK, LeaseKept, JobTimes, Active, Running
<1>4. CASE ReadNothing
  BY <1>3, <1>4 DEF ReadNothing
<1>5. ASSUME NEW j \in Jobs, Read(j)  PROVE LeaseInv'
  <2>1. /\ jobs' \in [Jobs -> Job]
        /\ jobs'[j] = [pc |-> "before", readAt |-> now, startAt |-> 0]
        /\ \A i \in Jobs \ {j} : jobs'[i] = jobs[i]
    BY <1>1, <1>5 DEF Read, TypeOK, Job, Phases
  <2>2. now' = now /\ vt' = now + Timeout /\ gone' = gone /\ ~gone /\ vt <= now /\ retryAt' = 0
    BY <1>5 DEF Read, ReadVt, Readable
  <2>3. now \in Nat /\ vt \in Nat /\ TypeOK' /\ now' >= Timeout
    BY <1>1, <2>1, <2>2 DEF TypeOK
  <2>4. ASSUME NEW i \in Jobs, i # j, Active(i)
        PROVE  jobs[i].readAt + Timeout <= now
    <3>1. jobs[i] \in Job /\ JobTimes(i)
      BY <1>1 DEF TypeOK
    <3> QED BY <2>2, <2>3, <2>4, <3>1 DEF JobTimes, Job
  <2>5. LeaseKept'
    BY <1>1, <2>1, <2>4 DEF LeaseKept, Active
  <2>6. ASSUME NEW i \in Jobs  PROVE JobTimes(i)'
    <3>1. CASE i = j
      BY <2>1, <2>2, <2>3, <3>1 DEF JobTimes, Active, Running
    <3>2. CASE i # j
      <4>1. jobs'[i] = jobs[i] /\ jobs[i] \in Job /\ JobTimes(i)
        BY <1>1, <2>1, <3>2 DEF TypeOK
      <4> QED BY <2>2, <2>3, <4>1 DEF JobTimes, Active, Running, Job
    <3> QED BY <3>1, <3>2
  <2> QED BY <2>3, <2>5, <2>6 DEF LeaseInv
<1>6. ASSUME NEW j \in Jobs, Begin(j) \/ End(j)  PROVE LeaseInv'
  <2>1. /\ jobs' \in [Jobs -> Job]
        /\ \A i \in Jobs \ {j} : jobs'[i] = jobs[i]
        /\ Active(j) /\ Active(j)' /\ jobs'[j].readAt = jobs[j].readAt
        /\ jobs'[j].pc # "before"
        /\ Running(j)' => jobs[j].pc = "before" /\ jobs'[j].startAt = now
    BY <1>1, <1>6 DEF Begin, End, Move, TypeOK, Job, Phases, Active, Running
  <2>2. UNCHANGED <<now, vt, gone, retryAt>>
    BY <1>6 DEF Begin, End
  <2>3. now \in Nat /\ vt \in Nat /\ TypeOK' /\ now' >= Timeout
    BY <1>1, <2>1, <2>2 DEF TypeOK
  <2>4. LeaseKept'
    BY <1>1, <2>1 DEF LeaseKept, Active
  <2>5. ASSUME NEW i \in Jobs  PROVE JobTimes(i)'
    <3>1. jobs[i] \in Job /\ jobs'[i] \in Job /\ JobTimes(i)
      BY <1>1, <2>1 DEF TypeOK
    <3>2. CASE i = j
      BY <2>1, <2>2, <2>3, <3>1, <3>2 DEF JobTimes, Active, Running, Job
    <3>3. CASE i # j
      BY <2>1, <2>2, <3>1, <3>3 DEF JobTimes, Active, Running
    <3> QED BY <3>2, <3>3
  <2> QED BY <2>3, <2>4, <2>5 DEF LeaseInv
<1>7. ASSUME NEW j \in Jobs, Retry(j)  PROVE LeaseInv'
  <2>1. now \in Nat /\ vt \in Nat /\ gone \in BOOLEAN /\ retryAt \in Nat
    BY <1>1 DEF TypeOK
  <2>2. /\ Finish(j) /\ now' = now /\ gone' = gone
        /\ IF gone THEN UNCHANGED <<vt, retryAt>>
           ELSE vt' = now + (now + Delay) /\ retryAt' = now
    BY <1>7 DEF Retry, RetryVt
  <2>3. vt' \in Nat /\ retryAt' \in Nat /\ (gone' \/ vt <= vt' \/ now + Timeout <= vt')
    BY <1>1, <2>1, <2>2
  <2> QED BY <2>1, <2>2, <2>3, FinishLease
<1>8. ASSUME NEW j \in Jobs, Remove(j) \/ Leave(j)  PROVE LeaseInv'
  <2>1. now \in Nat /\ vt \in Nat /\ gone \in BOOLEAN /\ retryAt \in Nat
    BY <1>1 DEF TypeOK
  <2>2. /\ Finish(j) /\ now' = now /\ vt' = vt /\ retryAt' = retryAt
        /\ gone' = gone \/ gone' = TRUE
    BY <1>8 DEF Remove, Leave
  <2>3. gone' \in BOOLEAN /\ (gone => gone')
    <3>1. CASE gone' = gone
      BY <2>1, <3>1, Zenon
    <3>2. CASE gone' = TRUE
      BY <3>2, Zenon
    <3> QED BY <2>2, <3>1, <3>2, Zenon
  <2>4. vt' \in Nat /\ retryAt' \in Nat /\ vt <= vt'
    BY <2>1, <2>2
  <2> QED BY <2>2, <2>3, <2>4, FinishLease
<1> QED BY <1>2, <1>3, <1>4, <1>5, <1>6, <1>7, <1>8 DEF Next

LEMMA LeaseInvariant == Spec => []LeaseInv
<1>1. Init => LeaseInv
  BY InitLease
<1>2. LeaseInv /\ [Next]_vars => LeaseInv'
  BY StepLease
<1> QED BY <1>1, <1>2, PTL DEF Spec

(* The reads of two jobs that hold the message are a timeout apart.        *)
THEOREM LeaseCorrect == Spec => []LeaseKept
<1>1. LeaseInv => LeaseKept
  BY DEF LeaseInv
<1> QED BY <1>1, LeaseInvariant, PTL

(* Two jobs run the processor's code for one message only in the lag after *)
(* the later read; three never do when the lag is below the timeout.       *)
THEOREM OverlapCorrect == Spec => []OverlapBound
<1>1. ASSUME LeaseInv  PROVE OverlapBound
  <2> USE TimesAssumption
  <2>1. ASSUME NEW i \in Jobs, Running(i)
        PROVE  /\ jobs[i].readAt \in Nat /\ now \in Nat
               /\ jobs[i].readAt <= now /\ now <= jobs[i].readAt + Lag + Timeout
    <3>1. jobs[i] \in Job /\ now \in Nat /\ JobTimes(i)
      BY <1>1 DEF LeaseInv, TypeOK
    <3> QED BY <2>1, <3>1 DEF JobTimes, Active, Running, Job
  <2>2. ASSUME NEW i \in Jobs, NEW j \in Jobs, Running(i), Running(j), i # j
        PROVE  \/ jobs[i].readAt + Timeout <= jobs[j].readAt
               \/ jobs[j].readAt + Timeout <= jobs[i].readAt
    BY <1>1, <2>2 DEF LeaseInv, LeaseKept, Active, Running
  <2>3. ASSUME NEW i \in Jobs, NEW j \in Jobs, Running(i), Running(j),
               jobs[i].readAt < jobs[j].readAt
        PROVE  now <= jobs[j].readAt + Lag
    BY <2>1, <2>2, <2>3
  <2>4. ASSUME NEW i \in Jobs, NEW j \in Jobs, NEW k \in Jobs, Lag < Timeout,
               Running(i), Running(j), Running(k)
        PROVE  i = j \/ j = k \/ i = k
    <3> SUFFICES ASSUME i # j, j # k, i # k  PROVE FALSE
      OBVIOUS
    <3>1. /\ jobs[i].readAt + Timeout <= jobs[j].readAt
             \/ jobs[j].readAt + Timeout <= jobs[i].readAt
          /\ jobs[j].readAt + Timeout <= jobs[k].readAt
             \/ jobs[k].readAt + Timeout <= jobs[j].readAt
          /\ jobs[i].readAt + Timeout <= jobs[k].readAt
             \/ jobs[k].readAt + Timeout <= jobs[i].readAt
      BY <2>2, <2>4
    <3>2. \A n \in {i, j, k} : /\ jobs[n].readAt \in Nat /\ now \in Nat
                               /\ jobs[n].readAt <= now
                               /\ now <= jobs[n].readAt + Lag + Timeout
      BY <2>1, <2>4
    <3> QED BY <2>4, <3>1, <3>2
  <2> QED BY <2>3, <2>4 DEF OverlapBound
<1> QED BY <1>1, LeaseInvariant, PTL
=============================================================================
