-------------------------- MODULE TaskQueueProofs --------------------------
(***************************************************************************)
(* The types and the safety properties of TaskQueue, and that it           *)
(* implements TaskLedger, for every value of its constants.                *)
(***************************************************************************)
EXTENDS TaskQueueLedger, TaskQueueInv, LimitProofs, SequenceTheorems

USE DEF NoId

-----------------------------------------------------------------------------
(* Types. *)

(* An update of one message, whether it is still in the queue or not,      *)
(* keeps the type of the tables.                                           *)
LEMMA UpdateRowType ==
  ASSUME rows \in [MsgIds -> Row], NEW m \in MsgIds, NEW row \in Row
  PROVE  UpdateRow(m, row) \in [MsgIds -> Row]
BY DEF UpdateRow

(* The two updates the code makes most often. *)
LEMMA SetStatusType ==
  ASSUME rows \in [MsgIds -> Row], NEW m \in MsgIds, NEW s \in Status
  PROVE  SetStatus(m, s) \in [MsgIds -> Row]
<1>1. [rows[m] EXCEPT !.status = s] \in Row
  BY DEF Row
<1> QED
  BY <1>1, UpdateRowType DEF SetStatus

LEMMA ArchivedType ==
  ASSUME rows \in [MsgIds -> Row], NEW m \in MsgIds
  PROVE  Archived(m) \in [MsgIds -> Row]
<1>1. [rows[m] EXCEPT !.loc = IF HasArchive THEN "archive" ELSE "deleted"] \in Row
  BY DEF Row
<1> QED
  BY <1>1, UpdateRowType DEF Archived

(* A new row keeps the type of the tables. *)
LEMMA InsertType ==
  ASSUME rows \in [MsgIds -> Row], lastMsg \in 0..MaxMsgs, lastMsg < MaxMsgs,
         NEW orig \in Nat, Insert(lastMsg + 1, orig)
  PROVE  rows' \in [MsgIds -> Row] /\ lastMsg' \in 0..MaxMsgs
<1>1. NewRow("queue", orig) \in Row
  BY DEF NewRow, Row, Status
<1> QED
  BY <1>1, CountsAssumption DEF Insert, MsgIds

(* A job as process_task moves it. *)
JobType(job) == job \in Job /\ (job.pc # "idle" => job.msg \in MsgIds)

LEMMA JobAtType ==
  ASSUME NEW step \in Steps, NEW m \in MsgIds, NEW retry \in BOOLEAN
  PROVE  /\ JobType(JobAt(step, m, retry)) /\ JobAt(step, m, retry).pc # "idle"
         /\ JobType(IdleJob)
<1>1. m \in Nat
  BY DEF MsgIds
<1> QED
  BY <1>1 DEF JobType, JobAt, IdleJob, Job, Steps, Status

LEMMA FirstStepType == FirstStep \in Steps
BY DEF FirstStep, Steps

(* One job moves: to another job of its type. *)
LEMMA MoveType ==
  ASSUME jobs \in [Jobs -> Job], \A j \in Jobs : JobType(jobs[j]),
         NEW i \in Jobs, NEW job, JobType(job), jobs' = [jobs EXCEPT ![i] = job]
  PROVE  jobs' \in [Jobs -> Job] /\ \A j \in Jobs : JobType(jobs'[j])
BY DEF JobType

(* The three ways a statement moves its job. *)
JobsOK == jobs \in [Jobs -> Job] /\ \A j \in Jobs : JobType(jobs[j])

LEMMA GoToType ==
  ASSUME JobsOK, NEW i \in Jobs, Active(i), NEW step \in Steps, GoTo(i, step)
  PROVE  JobsOK'
<1>1. JobType([jobs[i] EXCEPT !.pc = step])
  BY DEF JobsOK, JobType, Job, Active
<1>2. jobs' = [jobs EXCEPT ![i] = [jobs[i] EXCEPT !.pc = step]]
  BY DEF GoTo
<1> QED
  BY <1>1, <1>2, MoveType DEF JobsOK

LEMMA FinishType ==
  ASSUME JobsOK, NEW i \in Jobs, Finish(i)
  PROVE  JobsOK'
<1>1. JobType(IdleJob)
  BY DEF JobType, JobAt, IdleJob, Job, Steps, Status
<1> QED
  BY <1>1, MoveType DEF JobsOK, Finish

LEMMA RemovingType ==
  ASSUME JobsOK, NEW i \in Jobs, Active(i), NEW s \in Status, Removing(i, s)
  PROVE  JobsOK'
<1>1. PICK step \in Steps : step = RemoveStep
  BY DEF RemoveStep, Steps
<1>2. JobType([jobs[i] EXCEPT !.pc = step, !.status = s])
  BY DEF JobsOK, JobType, Job, Active
<1>3. jobs' = [jobs EXCEPT ![i] = [jobs[i] EXCEPT !.pc = step, !.status = s]]
  BY <1>1 DEF Removing
<1> QED
  BY <1>2, <1>3, MoveType DEF JobsOK

(* Lemmas about single fields. *)
LEMMA HistoryType ==
  ASSUME NEW h \in History
  PROVE  /\ [h EXCEPT !.ok = TRUE] \in History
         /\ [h EXCEPT !.fails = h.fails + 1] \in History
         /\ [h EXCEPT !.starts = h.starts + 1] \in History
         /\ [h EXCEPT !.early = h.early + 1] \in History
<1>1. [h EXCEPT !.ok = TRUE] \in History
  BY DEF History
<1>2. \A n \in Nat : /\ [h EXCEPT !.fails = n] \in History
                     /\ [h EXCEPT !.starts = n] \in History
                     /\ [h EXCEPT !.early = n] \in History
  BY DEF History
<1>3. h.fails + 1 \in Nat /\ h.starts + 1 \in Nat /\ h.early + 1 \in Nat
  BY DEF History
<1> QED
  BY <1>1, <1>2, <1>3

LEMMA JobFieldType ==
  ASSUME NEW job, JobType(job), job.pc # "idle", NEW n \in Nat
  PROVE  /\ JobType([job EXCEPT !.pc = "write errors", !.errs = n])
         /\ JobType([job EXCEPT !.pc = "set dlq", !.dlq = n])
BY DEF JobType, Job, Steps

LEMMA CallsType ==
  ASSUME NEW n \in Nat, calls \in [Callers -> 0..n]
  PROVE  calls \in [Callers -> 0..(n + 1)]
OBVIOUS

LEMMA CatchType ==
  ASSUME JobsOK, history \in [MsgIds -> History], NEW i \in Jobs, Active(i), Catch(i)
  PROVE  JobsOK' /\ history' \in [MsgIds -> History]
<1>1. jobs[i].msg \in MsgIds
  BY DEF JobsOK, JobType, Active
<1>2. PICK retry \in BOOLEAN :
        jobs' = [jobs EXCEPT ![i] = JobAt("read errors", jobs[i].msg, retry)]
  BY DEF Catch
<1>3. JobType(JobAt("read errors", jobs[i].msg, retry))
  BY <1>1, JobAtType DEF Steps
<1>4. JobsOK'
  BY <1>2, <1>3, MoveType DEF JobsOK
<1>5. history' \in [MsgIds -> History]
  <2>1. [history[jobs[i].msg] EXCEPT !.fails = history[jobs[i].msg].fails + 1] \in History
    BY <1>1, HistoryType
  <2> QED
    BY <1>1, <2>1 DEF Catch
<1> QED
  BY <1>4, <1>5

LEMMA TypeInit == Init => TypeOK
<1> SUFFICES ASSUME Init PROVE TypeOK
  OBVIOUS
<1>1. rows \in [MsgIds -> Row]
  BY DEF Init, NewRow, Row, Status
<1>2. dlq \in Seq(DlqRow) /\ Len(dlq) = 0
  BY DEF Init
<1>3. jobs \in [Jobs -> Job] /\ \A j \in Jobs : ~Active(j)
  BY DEF Init, IdleJob, JobAt, Job, Status, Active
<1>4. history \in [MsgIds -> History]
  BY DEF Init, History, NoHistory
<1> QED
  BY <1>1, <1>2, <1>3, <1>4, CountsAssumption DEF Init, TypeOK

(* What the proofs need to know of a poll. *)
PollEffect(batch, task) ==
  /\ \A i, j \in Idle : task[i] = task[j] /\ i # j => task[i] = NoId
  /\ jobs' = [j \in Jobs |-> IF j \in Idle /\ task[j] # NoId
                             THEN NewJob(task[j]) ELSE jobs[j]]
  /\ rows' = [m \in MsgIds |-> IF m \in batch THEN ReadRow(rows[m]) ELSE rows[m]]
  /\ UNCHANGED <<lastMsg, dlq, calls, faults, history>>

LEMMA PollIsEffect ==
  ASSUME Poll
  PROVE  \E batch \in SUBSET Readable :
           \E task \in [Idle -> batch \cup {NoId}] : PollEffect(batch, task)
<1>0. PICK worker \in Workers :
      \E locked \in SUBSET Lockable, qty \in 1..Cardinality(Idle \cap worker) :
        LET batch == Batch(Readable \ locked, qty)
            free == Idle \cap worker
        IN /\ batch # {}
           /\ \E task \in [free -> batch \cup {NoId}] :
                /\ \A m \in batch : \E j \in free : task[j] = m
                /\ \A i, j \in free : task[i] = task[j] /\ i # j => task[i] = NoId
                /\ jobs' = [j \in Jobs |-> IF j \in free /\ task[j] # NoId
                                           THEN NewJob(task[j]) ELSE jobs[j]]
           /\ rows' = [m \in MsgIds |-> IF m \in batch
                                        THEN ReadRow(rows[m]) ELSE rows[m]]
           /\ UNCHANGED <<lastMsg, dlq, calls, faults, history>>
  BY Zenon DEF Poll
<1>1. PICK locked \in SUBSET Lockable, qty \in 1..Cardinality(Idle \cap worker) :
        LET batch == Batch(Readable \ locked, qty)
            free == Idle \cap worker
        IN /\ batch # {}
           /\ \E task \in [free -> batch \cup {NoId}] :
                /\ \A m \in batch : \E j \in free : task[j] = m
                /\ \A i, j \in free : task[i] = task[j] /\ i # j => task[i] = NoId
                /\ jobs' = [j \in Jobs |-> IF j \in free /\ task[j] # NoId
                                           THEN NewJob(task[j]) ELSE jobs[j]]
           /\ rows' = [m \in MsgIds |-> IF m \in batch
                                        THEN ReadRow(rows[m]) ELSE rows[m]]
           /\ UNCHANGED <<lastMsg, dlq, calls, faults, history>>
  BY Zenon, <1>0
<1> DEFINE free == Idle \cap worker
<1> DEFINE batch == Batch(Readable \ locked, qty)
<1>2. /\ \E task \in [free -> batch \cup {NoId}] :
           /\ \A n \in batch : \E j \in free : task[j] = n
           /\ \A i, j \in free : task[i] = task[j] /\ i # j => task[i] = NoId
           /\ jobs' = [j \in Jobs |-> IF j \in free /\ task[j] # NoId
                                      THEN NewJob(task[j]) ELSE jobs[j]]
      /\ rows' = [n \in MsgIds |-> IF n \in batch
                                   THEN ReadRow(rows[n]) ELSE rows[n]]
      /\ UNCHANGED <<lastMsg, dlq, calls, faults, history>>
  BY Zenon, <1>1
<1>3. batch \in SUBSET Readable
  BY DEF Batch
<1>4. PICK task \in [free -> batch \cup {NoId}] :
        /\ \A i, j \in free : task[i] = task[j] /\ i # j => task[i] = NoId
        /\ jobs' = [j \in Jobs |-> IF j \in free /\ task[j] # NoId
                                   THEN NewJob(task[j]) ELSE jobs[j]]
  BY <1>2
<1> DEFINE all == [j \in Idle |-> IF j \in free THEN task[j] ELSE NoId]
<1> HIDE DEF batch
<1>5. all \in [Idle -> batch \cup {NoId}]
  OBVIOUS
<1>6. \A i, j \in Idle : all[i] = all[j] /\ i # j => all[i] = NoId
  BY <1>4
<1>7. jobs' = [j \in Jobs |-> IF j \in Idle /\ all[j] # NoId THEN NewJob(all[j]) ELSE jobs[j]]
  BY <1>4
<1>8. rows' = [m \in MsgIds |-> IF m \in batch THEN ReadRow(rows[m]) ELSE rows[m]]
  BY <1>2 DEF batch
<1>9. UNCHANGED <<lastMsg, dlq, calls, faults, history>>
  BY <1>2
<1> QED
  BY <1>3, <1>5, <1>6, <1>7, <1>8, <1>9 DEF PollEffect

LEMMA TypePoll ==
  ASSUME TypeOK, Poll
  PROVE  TypeOK'
<1>1. PICK batch \in SUBSET Readable :
        \E task \in [Idle -> batch \cup {NoId}] : PollEffect(batch, task)
  BY PollIsEffect
<1>2. PICK task \in [Idle -> batch \cup {NoId}] : PollEffect(batch, task)
  BY <1>1
<1>3. rows' \in [MsgIds -> Row]
  <2>1. \A m \in MsgIds : ReadRow(rows[m]) \in Row
    BY DEF TypeOK, ReadRow, Row
  <2> QED
    BY <1>2, <2>1 DEF TypeOK, PollEffect
<1>4. \A j \in Jobs : jobs'[j] \in Job /\ (jobs'[j].pc # "idle" => jobs'[j].msg \in MsgIds)
  <2> TAKE j \in Jobs
  <2>1. CASE j \in Idle /\ task[j] # NoId
    <3>1. task[j] \in MsgIds
      BY <1>2, <2>1 DEF Readable
    <3>2. JobType(NewJob(task[j]))
      BY <3>1, FirstStepType, JobAtType DEF NewJob
    <3> QED
      BY <1>2, <2>1, <3>2 DEF JobType, PollEffect
  <2>2. CASE ~(j \in Idle /\ task[j] # NoId)
    BY <1>2, <2>2 DEF TypeOK, Active, PollEffect
  <2> QED
    BY <2>1, <2>2
<1>5. jobs' \in [Jobs -> Job] /\ \A j \in Jobs : Active(j)' => jobs'[j].msg \in MsgIds
  BY <1>2, <1>4 DEF PollEffect, Active
<1> QED
  BY <1>2, <1>3, <1>5 DEF TypeOK, PollEffect

LEMMA TypeOKJobs == TypeOK <=> /\ rows \in [MsgIds -> Row]
                               /\ lastMsg \in 0..MaxMsgs
                               /\ dlq \in Seq(DlqRow)
                               /\ JobsOK
                               /\ calls \in [Callers -> 0..Len(dlq)]
                               /\ faults \in 0..MaxFaults
                               /\ history \in [MsgIds -> History]
BY DEF TypeOK, JobsOK, JobType, Active

LEMMA TypeOKNext == TypeOK' <=> /\ rows' \in [MsgIds -> Row]
                                /\ lastMsg' \in 0..MaxMsgs
                                /\ dlq' \in Seq(DlqRow)
                                /\ JobsOK'
                                /\ calls' \in [Callers -> 0..Len(dlq')]
                                /\ faults' \in 0..MaxFaults
                                /\ history' \in [MsgIds -> History]
BY DEF TypeOK, JobsOK, JobType, Active

(* The statements of process_task, fail and _remove. *)
LEMMA TypeProcessTask ==
  ASSUME TypeOK, NEW j \in Jobs, ProcessTask(j)
  PROVE  TypeOK'
<1> DEFINE m == jobs[j].msg
<1> USE TypeOKJobs, TypeOKNext
<1>1. Active(j) /\ m \in MsgIds /\ jobs[j].errs \in Nat /\ jobs[j].status \in Status
  BY DEF ProcessTask, CheckLimit, Start, Succeed, Raise, Fail, ReadErrors, WriteErrors,
         RetryStatus, RetryVt, Payload, SendDlq, SetDlq, RemoveStatus, Remove,
         At, Active, JobsOK, JobType, Job
<1>2. rows[m] \in Row
  BY <1>1
<1>3. CASE CheckLimit(j)
  BY <1>1, <1>3, GoToType, FinishType DEF CheckLimit, Steps
<1>4. CASE Start(j)
  <2>1. rows' \in [MsgIds -> Row]
    BY <1>1, <1>4, SetStatusType DEF Start, Status
  <2>2. JobsOK'
    BY <1>1, <1>4, GoToType DEF Start, Steps
  <2>3. history' \in [MsgIds -> History]
    <3>1. [history[m] EXCEPT !.starts = history[m].starts + 1] \in History
      BY <1>1, HistoryType
    <3> QED
      BY <1>1, <1>4, <3>1 DEF Start
  <2> QED
    BY <1>4, <2>1, <2>2, <2>3 DEF Start
<1>5. CASE Succeed(j)
  <2>1. JobsOK'
    BY <1>1, <1>5, RemovingType DEF Succeed, Status
  <2>2. history' \in [MsgIds -> History]
    <3>1. [history[m] EXCEPT !.ok = TRUE] \in History
      BY <1>1, HistoryType
    <3> QED
      BY <1>1, <1>5, <3>1 DEF Succeed
  <2> QED
    BY <1>5, <2>1, <2>2 DEF Succeed
<1>6. CASE Raise(j)
  BY <1>1, <1>6, CatchType DEF Raise
<1>7. CASE ReadErrors(j)
  <2>1. ErrorsOf(m) + 1 \in Nat
    BY <1>2 DEF ErrorsOf, Row
  <2>2. JobType([jobs[j] EXCEPT !.pc = "write errors", !.errs = ErrorsOf(m) + 1])
    BY <1>1, <2>1, JobFieldType DEF JobsOK, Active
  <2>3. JobsOK'
    BY <1>7, <2>2, MoveType DEF ReadErrors, JobsOK
  <2> QED
    BY <1>7, <2>3 DEF ReadErrors
<1>8. CASE WriteErrors(j)
  <2>1. [rows[m] EXCEPT !.errs = jobs[j].errs] \in Row
    BY <1>1, <1>2 DEF Row
  <2>2. rows' \in [MsgIds -> Row]
    BY <1>1, <1>8, <2>1, UpdateRowType DEF WriteErrors
  <2>3. JobsOK'
    BY <1>1, <1>8, GoToType, RemovingType DEF WriteErrors, AfterErrors, Steps, Status
  <2> QED
    BY <1>8, <2>2, <2>3 DEF WriteErrors
<1>9. CASE RetryStatus(j)
  BY <1>1, <1>9, SetStatusType, GoToType DEF RetryStatus, Steps, Status
<1>10. CASE RetryVt(j)
  <2>1. [rows[m] EXCEPT !.hidden = TRUE] \in Row
    BY <1>2 DEF Row
  <2>2. rows' \in [MsgIds -> Row]
    BY <1>1, <1>10, <2>1, UpdateRowType DEF RetryVt
  <2> QED
    BY <1>10, <2>2, FinishType DEF RetryVt
<1>11. CASE Payload(j)
  BY <1>1, <1>11, GoToType, FinishType DEF Payload, Steps
<1>12. CASE SendDlq(j)
  <2> DEFINE letter == [loc |-> "queue", orig |-> m, errs |-> jobs[j].errs, retry |-> NoId]
  <2>1. letter \in DlqRow
    <3>1. m \in Nat
      BY <1>1 DEF MsgIds
    <3> QED
      BY <1>1, <3>1 DEF DlqRow
  <2>2. dlq' \in Seq(DlqRow) /\ Len(dlq') = Len(dlq) + 1 /\ Len(dlq) \in Nat
    <3>1. dlq' = Append(dlq, letter) /\ dlq \in Seq(DlqRow)
      BY <1>12 DEF SendDlq
    <3> HIDE DEF letter
    <3> QED
      BY <2>1, <3>1, AppendProperties, LenProperties
  <2>3. JobType([jobs[j] EXCEPT !.pc = "set dlq", !.dlq = Len(dlq) + 1])
    <3>1. Len(dlq) + 1 \in Nat
      BY <2>2
    <3>2. JobType(jobs[j]) /\ jobs[j].pc # "idle"
      BY <1>1 DEF JobsOK, Active
    <3> QED
      BY <3>1, <3>2, JobFieldType
  <2>4. JobsOK'
    BY <1>12, <2>3, MoveType DEF SendDlq, DlqMsgId, JobsOK
  <2>5. calls' \in [Callers -> 0..Len(dlq')]
    BY <1>12, <2>2, CallsType DEF SendDlq
  <2> QED
    BY <1>12, <2>2, <2>4, <2>5 DEF SendDlq
<1>13. CASE SetDlq(j)
  <2>1. [rows[m] EXCEPT !.dlq = jobs[j].dlq] \in Row
    BY <1>2 DEF Row, JobsOK, Job
  <2>2. rows' \in [MsgIds -> Row]
    BY <1>1, <1>13, <2>1, UpdateRowType DEF SetDlq
  <2> QED
    BY <1>1, <1>13, <2>2, RemovingType DEF SetDlq, Status
<1>14. CASE RemoveStatus(j)
  BY <1>1, <1>14, SetStatusType, GoToType DEF RemoveStatus, Steps
<1>15. CASE Remove(j)
  BY <1>1, <1>15, ArchivedType, FinishType DEF Remove
<1> QED
  BY <1>3, <1>4, <1>5, <1>6, <1>7, <1>8, <1>9, <1>10, <1>11, <1>12, <1>13, <1>14, <1>15
     DEF ProcessTask, Fail

(* The transaction of reschedule. *)
LEMMA TypeReschedule ==
  ASSUME TypeOK, NEW c \in Callers, Reschedule(c)
  PROVE  TypeOK'
<1> USE TypeOKJobs, TypeOKNext
<1>1. UNCHANGED <<jobs, faults, history>> /\ JobsOK'
  BY DEF Reschedule, RescheduleRead, RescheduleCommit, RescheduleAbort, JobsOK
<1>2. Len(dlq) \in Nat /\ DOMAIN dlq = 1..Len(dlq)
  BY LenProperties
<1>3. CASE RescheduleRead(c)
  <2>1. PICK d \in 1..Len(dlq) : calls' = [calls EXCEPT ![c] = d]
    BY <1>2, <1>3 DEF RescheduleRead
  <2>2. calls' \in [Callers -> 0..Len(dlq)]
    BY <1>2, <2>1
  <2> QED
    BY <1>1, <1>3, <2>2 DEF RescheduleRead
<1>4. CASE RescheduleCommit(c)
  <2> DEFINE d == calls[c]
  <2>1. d \in 1..Len(dlq) /\ lastMsg < MaxMsgs
    BY <1>2, <1>4 DEF RescheduleCommit
  <2>2. dlq[d] \in DlqRow
    BY <2>1, ElementOfSeq
  <2>3. rows' \in [MsgIds -> Row] /\ lastMsg' \in 0..MaxMsgs
    <3>1. OriginalOf(d) \in Nat
      BY <2>2 DEF OriginalOf, DlqRow
    <3> QED
      BY <1>4, <2>1, <3>1, InsertType DEF RescheduleCommit
  <2>4. dlq' \in Seq(DlqRow) /\ Len(dlq') = Len(dlq)
    <3>1. PICK n \in Nat : n = lastMsg + 1
      BY CountsAssumption
    <3>2. [dlq[d] EXCEPT !.loc = "archive", !.retry = n] \in DlqRow
      BY <2>2 DEF DlqRow
    <3>3. [dlq[d] EXCEPT !.loc = "deleted"] \in DlqRow
      BY <2>2 DEF DlqRow
    <3>4. \/ dlq' = dlq
          \/ dlq' = [dlq EXCEPT ![d] = [dlq[d] EXCEPT !.loc = "archive", !.retry = n]]
          \/ dlq' = [dlq EXCEPT ![d] = [dlq[d] EXCEPT !.loc = "deleted"]]
      BY <1>4, <3>1 DEF RescheduleCommit
    <3>5. ASSUME NEW e \in DlqRow
          PROVE  [dlq EXCEPT ![d] = e] \in Seq(DlqRow) /\ Len([dlq EXCEPT ![d] = e]) = Len(dlq)
      <4>1. dlq \in Seq(DlqRow)
        OBVIOUS
      <4> HIDE TypeOKJobs, TypeOKNext DEF d
      <4> QED
        BY <2>1, <4>1, ExceptSeq
    <3>6. CASE dlq' = dlq
      BY <3>6
    <3>7. CASE dlq' = [dlq EXCEPT ![d] = [dlq[d] EXCEPT !.loc = "archive", !.retry = n]]
      BY <3>2, <3>5, <3>7
    <3>8. CASE dlq' = [dlq EXCEPT ![d] = [dlq[d] EXCEPT !.loc = "deleted"]]
      BY <3>3, <3>5, <3>8
    <3> QED
      BY <3>4, <3>6, <3>7, <3>8
  <2>5. calls' \in [Callers -> 0..Len(dlq)]
    BY <1>2, <1>4 DEF RescheduleCommit
  <2> QED
    BY <1>1, <2>3, <2>4, <2>5
<1>5. CASE RescheduleAbort(c)
  <2>1. calls' \in [Callers -> 0..Len(dlq)]
    BY <1>2, <1>5 DEF RescheduleAbort
  <2> QED
    BY <1>1, <1>5, <2>1 DEF RescheduleAbort
<1> QED
  BY <1>3, <1>4, <1>5 DEF Reschedule

LEMMA TypeFault ==
  ASSUME TypeOK, NEW j \in Jobs, Crash(j) \/ CompleteRaises(j)
  PROVE  TypeOK'
<1> USE TypeOKJobs, TypeOKNext
<1>1. faults' \in 0..MaxFaults
  <2>1. Fault
    BY DEF Crash, CompleteRaises
  <2> QED
    BY <2>1, CountsAssumption DEF Fault
<1>2. CASE Crash(j)
  BY <1>1, <1>2, FinishType DEF Crash
<1>3. CASE CompleteRaises(j)
  <2>1. Active(j) /\ jobs[j].msg \in MsgIds
    BY <1>3 DEF CompleteRaises, Active, JobsOK, JobType
  <2>2. rows' \in [MsgIds -> Row]
    BY <1>3, <2>1, ArchivedType, SetStatusType DEF CompleteRaises, Status
  <2>3. JobsOK' /\ history' \in [MsgIds -> History]
    BY <1>3, <2>1, CatchType DEF CompleteRaises
  <2> QED
    BY <1>1, <1>3, <2>2, <2>3 DEF CompleteRaises
<1> QED
  BY <1>2, <1>3

(* A worker that dies ends some jobs and changes nothing else.             *)
LEMMA DieEffect ==
  ASSUME NEW worker \in Workers, Die(worker)
  PROVE  /\ \A j \in Jobs : jobs'[j] = jobs[j] \/ jobs'[j] = IdleJob
         /\ IdleJob.pc = "idle" /\ IdleJob.msg = NoId
         /\ \A j \in Jobs : Active(j)' => Active(j) /\ jobs'[j] = jobs[j]
         /\ faults < MaxFaults /\ faults' = faults + 1
         /\ UNCHANGED <<rows, lastMsg, dlq, calls, history>>
<1>1. /\ \A j \in Jobs : jobs'[j] = jobs[j] \/ jobs'[j] = IdleJob
      /\ UNCHANGED <<rows, lastMsg, dlq, calls, history>>
  BY DEF Die
<1>2. IdleJob.pc = "idle" /\ IdleJob.msg = NoId
  BY DEF IdleJob, JobAt
<1>3. faults < MaxFaults /\ faults' = faults + 1
  BY DEF Die, Fault
<1> QED
  BY <1>1, <1>2, <1>3 DEF Active

LEMMA TypeDie ==
  ASSUME TypeOK, NEW worker \in Workers, Die(worker)
  PROVE  TypeOK'
<1>1. faults' \in 0..MaxFaults
  BY DieEffect, CountsAssumption DEF TypeOK
<1>2. jobs' = [j \in Jobs |-> IF j \in worker THEN IdleJob ELSE jobs[j]]
  BY DEF Die
<1>3. IdleJob \in Job
  BY DEF IdleJob, JobAt, Job, Steps, Status
<1>4. jobs' \in [Jobs -> Job]
  BY <1>2, <1>3 DEF TypeOK
<1>5. \A j \in Jobs : Active(j)' => jobs'[j].msg \in MsgIds
  BY DieEffect DEF TypeOK
<1> QED
  BY <1>1, <1>4, <1>5, DieEffect DEF TypeOK

LEMMA TypeStep == TypeOK /\ [Next]_vars => TypeOK'
<1> SUFFICES ASSUME TypeOK, [Next]_vars PROVE TypeOK'
  OBVIOUS
<1>1. CASE Enqueue
  <2>1. rows' \in [MsgIds -> Row] /\ lastMsg' \in 0..MaxMsgs
    BY <1>1, InsertType DEF Enqueue, TypeOK
  <2> QED
    BY <1>1, <2>1 DEF Enqueue, TypeOK, Active
<1>2. CASE Poll
  BY <1>2, TypePoll
<1>3. ASSUME NEW m \in MsgIds, Expire(m) PROVE TypeOK'
  <2>1. [rows[m] EXCEPT !.hidden = FALSE] \in Row
    BY DEF TypeOK, Row
  <2>2. rows' \in [MsgIds -> Row]
    BY <1>3, <2>1 DEF Expire, TypeOK
  <2>3. history' \in [MsgIds -> History]
    <3>1. [history[m] EXCEPT !.early = history[m].early + 1] \in History
      BY HistoryType DEF TypeOK
    <3> QED
      BY <1>3, <3>1 DEF Expire, TypeOK
  <2> QED
    BY <1>3, <2>2, <2>3 DEF Expire, TypeOK, Active
<1>4. CASE UNCHANGED vars
  BY <1>4 DEF vars, TypeOK, Active
<1> QED
  BY <1>1, <1>2, <1>3, <1>4, TypeProcessTask, TypeFault, TypeDie,
     TypeReschedule DEF Next, PollEmpty

(* Every reachable state has the types of TypeOK. *)
THEOREM TypeCorrect == Spec => []TypeOK
BY TypeInit, TypeStep, PTL DEF Spec

-----------------------------------------------------------------------------
(* What no step undoes. *)

LEMMA DlqGrows ==
  ASSUME TypeOK, [Next]_vars, NEW d \in DOMAIN dlq
  PROVE  d \in DOMAIN dlq' /\ dlq'[d].orig = dlq[d].orig
<1>1. dlq \in Seq(DlqRow) /\ Len(dlq) \in Nat /\ d \in 1..Len(dlq)
  BY LenProperties DEF TypeOK
<1>2. ASSUME NEW j \in Jobs, SendDlq(j)
      PROVE  d \in DOMAIN dlq' /\ dlq'[d].orig = dlq[d].orig
  <2>1. PICK letter : dlq' = Append(dlq, letter)
    BY <1>2 DEF SendDlq
  <2> QED
    BY <1>1, <2>1
<1>3. ASSUME NEW c \in Callers, RescheduleCommit(c)
      PROVE  d \in DOMAIN dlq' /\ dlq'[d].orig = dlq[d].orig
  <2>1. dlq[d] \in DlqRow
    BY <1>1, ElementOfSeq
  <2>2. DOMAIN dlq' = DOMAIN dlq
    BY <1>3 DEF RescheduleCommit
  <2>3. dlq'[d] = dlq[d] \/ dlq'[d] = [dlq[d] EXCEPT !.loc = "deleted"]
        \/ dlq'[d] = [dlq[d] EXCEPT !.loc = "archive", !.retry = lastMsg + 1]
    BY <1>3, <1>1 DEF RescheduleCommit
  <2> QED
    BY <2>1, <2>2, <2>3 DEF DlqRow
<1>4. CASE UNCHANGED dlq
  BY <1>4
<1> QED
  BY <1>2, <1>3, <1>4 DEF Next, vars, Enqueue, Poll, PollEmpty, Expire, ProcessTask, CheckLimit,
     Start, Succeed, Raise, Fail, ReadErrors, WriteErrors, RetryStatus, RetryVt, Payload,
     SetDlq, RemoveStatus, Remove, Crash, CompleteRaises, Die, Reschedule, RescheduleRead,
     RescheduleAbort

LEMMA HistoryGrows ==
  ASSUME TypeOK, [Next]_vars, NEW m \in MsgIds
  PROVE  /\ history[m].ok => history'[m].ok
         /\ history'[m].fails >= history[m].fails
         /\ history'[m].early >= history[m].early
<1>1. history \in [MsgIds -> History] /\ history[m] \in History
  BY DEF TypeOK
<1>2. \/ history' = history
      \/ \E k \in MsgIds : history' = [history EXCEPT ![k].ok = TRUE]
      \/ \E k \in MsgIds : history' = [history EXCEPT ![k].fails = @ + 1]
      \/ \E k \in MsgIds : history' = [history EXCEPT ![k].starts = @ + 1]
      \/ \E k \in MsgIds : history' = [history EXCEPT ![k].early = @ + 1]
  <2>1. ASSUME NEW j \in Jobs, Active(j) PROVE jobs[j].msg \in MsgIds
    BY <2>1 DEF TypeOK
  <2> QED
    BY <2>1 DEF Next, vars, Enqueue, Poll, PollEmpty, Expire, ProcessTask, CheckLimit,
       Start, Succeed, Raise, Fail, ReadErrors, WriteErrors, RetryStatus, RetryVt, Payload,
       SendDlq, SetDlq, RemoveStatus, Remove, Crash, CompleteRaises, Die, Reschedule,
       RescheduleRead, RescheduleCommit, RescheduleAbort, At, Active, Catch
<1> QED
  BY <1>1, <1>2 DEF History

-----------------------------------------------------------------------------
(* What a statement may do to the row of the message its job holds.        *)

Changed(j, row) ==
  LET old == rows[jobs[j].msg] IN
  \/ At(j, "start") /\ row = [old EXCEPT !.status = "processing"]
  \/ At(j, "retry status") /\ row = [old EXCEPT !.status = "queued"]
  \/ At(j, "retry vt") /\ row = [old EXCEPT !.hidden = TRUE]
  \/ At(j, "write errors") /\ row = [old EXCEPT !.errs = jobs[j].errs]
  \/ At(j, "set dlq") /\ row = [old EXCEPT !.dlq = jobs[j].dlq]
  \/ At(j, "set status") /\ row = [old EXCEPT !.status = jobs[j].status]
  \/ /\ At(j, "remove")
     /\ row = [old EXCEPT !.loc = IF HasArchive THEN "archive" ELSE "deleted"]

RowUpdate ==
  \E j \in Jobs : \E row \in Row :
    /\ Active(j) /\ InQueue(jobs[j].msg) /\ Changed(j, row)
    /\ rows' = [rows EXCEPT ![jobs[j].msg] = row]
    /\ lastMsg' = lastMsg

LEMMA UpdateRowStep ==
  ASSUME NEW m, NEW row, rows' = UpdateRow(m, row), ~(rows' = rows)
  PROVE  InQueue(m) /\ rows' = [rows EXCEPT ![m] = row]
BY DEF UpdateRow

(* The rows change in four ways. *)
LEMMA RowsStep ==
  ASSUME TypeOK, [Next]_vars
  PROVE  \/ rows' = rows /\ lastMsg' = lastMsg
         \/ /\ lastMsg < MaxMsgs
            /\ \E orig \in Nat : Insert(lastMsg + 1, orig)
         \/ /\ lastMsg' = lastMsg
            /\ \E batch \in SUBSET Readable :
                 rows' = [m \in MsgIds |-> IF m \in batch THEN ReadRow(rows[m]) ELSE rows[m]]
         \/ /\ lastMsg' = lastMsg
            /\ \E m \in MsgIds : Expire(m) /\ InQueue(m)
                               /\ rows' = [rows EXCEPT ![m].hidden = FALSE]
         \/ RowUpdate
<1> DEFINE Goal == \/ rows' = rows /\ lastMsg' = lastMsg
                   \/ RowUpdate
<1>1. ASSUME NEW j \in Jobs, ProcessTask(j) \/ Crash(j) \/ CompleteRaises(j)
      PROVE  Goal
  <2> DEFINE m == jobs[j].msg
  <2>1. /\ Active(j) /\ m \in MsgIds /\ rows[m] \in Row /\ lastMsg' = lastMsg
        /\ jobs[j].errs \in Nat /\ jobs[j].dlq \in Nat /\ jobs[j].status \in Status
    BY <1>1 DEF ProcessTask, CheckLimit, Start, Succeed, Raise, Fail, ReadErrors, WriteErrors,
       RetryStatus, RetryVt, Payload, SendDlq, SetDlq, RemoveStatus, Remove, Crash,
       CompleteRaises, At, Active, TypeOK, Job
  <2>2. SUFFICES ASSUME ~(rows' = rows)
                 PROVE  RowUpdate
    BY <2>1
  <2>3. \E row \in Row : rows' = UpdateRow(m, row) /\ Changed(j, row)
    <3>1. CASE Start(j)
      <4>1. [rows[m] EXCEPT !.status = "processing"] \in Row
        BY <2>1 DEF Row, Status
      <4> QED
        BY <3>1, <4>1 DEF Start, SetStatus, Changed
    <3>2. CASE RetryStatus(j)
      <4>1. [rows[m] EXCEPT !.status = "queued"] \in Row
        BY <2>1 DEF Row, Status
      <4> QED
        BY <3>2, <4>1 DEF RetryStatus, SetStatus, Changed
    <3>3. CASE RetryVt(j)
      <4>1. [rows[m] EXCEPT !.hidden = TRUE] \in Row
        BY <2>1 DEF Row
      <4> QED
        BY <3>3, <4>1 DEF RetryVt, Changed
    <3>4. CASE WriteErrors(j)
      <4>1. [rows[m] EXCEPT !.errs = jobs[j].errs] \in Row
        BY <2>1 DEF Row
      <4> QED
        BY <3>4, <4>1 DEF WriteErrors, Changed
    <3>5. CASE SetDlq(j)
      <4>1. [rows[m] EXCEPT !.dlq = jobs[j].dlq] \in Row
        BY <2>1 DEF Row
      <4> QED
        BY <3>5, <4>1 DEF SetDlq, Changed
    <3>6. CASE At(j, "set status") /\ rows' = SetStatus(m, jobs[j].status)
      <4>1. [rows[m] EXCEPT !.status = jobs[j].status] \in Row
        BY <2>1 DEF Row
      <4> QED
        BY <3>6, <4>1 DEF SetStatus, Changed
    <3>7. CASE At(j, "remove") /\ rows' = Archived(m)
      <4>1. [rows[m] EXCEPT !.loc = IF HasArchive THEN "archive" ELSE "deleted"] \in Row
        BY <2>1 DEF Row
      <4> QED
        BY <3>7, <4>1 DEF Archived, Changed
    <3>8. CASE CompleteRaises(j)
      BY <2>2, <3>8, <3>6, <3>7 DEF CompleteRaises, At
    <3> QED
      BY <1>1, <2>2, <3>1, <3>2, <3>3, <3>4, <3>5, <3>6, <3>7, <3>8
         DEF ProcessTask, CheckLimit, Succeed, Raise, Fail, ReadErrors, Payload, SendDlq,
             RemoveStatus, Remove, Crash
  <2> QED
    BY <2>1, <2>2, <2>3, UpdateRowStep DEF RowUpdate
<1>2. ASSUME Enqueue
      PROVE  lastMsg < MaxMsgs /\ \E orig \in Nat : Insert(lastMsg + 1, orig)
  <2>1. lastMsg < MaxMsgs /\ Insert(lastMsg + 1, 0)
    BY <1>2 DEF Enqueue
  <2>2. 0 \in Nat
    OBVIOUS
  <2> QED
    BY <2>1, <2>2
<1>3. CASE Poll
  BY <1>3, PollIsEffect DEF PollEffect
<1>4. ASSUME NEW m \in MsgIds, Expire(m)
      PROVE  lastMsg' = lastMsg /\ InQueue(m) /\ rows' = [rows EXCEPT ![m].hidden = FALSE]
  BY <1>4 DEF Expire
<1>5. ASSUME NEW c \in Callers, RescheduleCommit(c)
      PROVE  lastMsg < MaxMsgs /\ \E orig \in Nat : Insert(lastMsg + 1, orig)
  <2>1. calls[c] \in 0..Len(dlq) /\ dlq \in Seq(DlqRow)
    BY DEF TypeOK
  <2>2. calls[c] # 0 /\ lastMsg < MaxMsgs
    BY <1>5 DEF RescheduleCommit
  <2>3. PICK d \in 1..Len(dlq) : d = calls[c]
    BY <2>1, <2>2, LenProperties
  <2>4. dlq[d] \in DlqRow
    BY <2>1, ElementOfSeq
  <2>5. dlq[d].orig \in Nat
    BY <2>4 DEF DlqRow
  <2>6. OriginalOf(calls[c]) \in Nat
    BY <2>3, <2>5 DEF OriginalOf
  <2> QED
    BY <1>5, <2>2, <2>6 DEF RescheduleCommit
<1> QED
  BY <1>1, <1>2, <1>3, <1>4, <1>5 DEF Next, vars, PollEmpty, Die, Reschedule, RescheduleRead,
     RescheduleAbort

(* A row that changes: sent, updated in the queue by its reader, the clock *)
(* or a job; a row that has left does not change.                          *)
LEMMA RowStep ==
  ASSUME TypeOK, Numbered, [Next]_vars, NEW m \in MsgIds, rows'[m] # rows[m]
  PROVE  \/ /\ rows[m].loc = "unsent" /\ m = lastMsg + 1 /\ lastMsg' = m
            /\ \E orig \in Nat : rows'[m] = NewRow("queue", orig)
         \/ /\ InQueue(m) /\ lastMsg' = lastMsg
            /\ \/ rows'[m] = [rows[m] EXCEPT !.hidden = TRUE] /\ m \in Readable
               \/ Expire(m) /\ rows'[m] = [rows[m] EXCEPT !.hidden = FALSE]
               \/ \E j \in Jobs : Active(j) /\ jobs[j].msg = m /\ Changed(j, rows'[m])
<1>1. rows \in [MsgIds -> Row] /\ lastMsg \in 0..MaxMsgs
  BY DEF TypeOK
<1>2. ASSUME NEW orig \in Nat, lastMsg < MaxMsgs, Insert(lastMsg + 1, orig)
      PROVE  /\ rows[m].loc = "unsent" /\ m = lastMsg + 1 /\ lastMsg' = m
             /\ rows'[m] = NewRow("queue", orig)
  <2>1. m = lastMsg + 1
    BY <1>1, <1>2 DEF Insert
  <2>2. m > lastMsg
    BY <1>1, <2>1, CountsAssumption
  <2> QED
    BY <1>1, <1>2, <2>1, <2>2 DEF Insert, Numbered
<1>3. ASSUME NEW batch \in SUBSET Readable,
             rows' = [k \in MsgIds |-> IF k \in batch THEN ReadRow(rows[k]) ELSE rows[k]]
      PROVE  InQueue(m) /\ m \in Readable /\ rows'[m] = [rows[m] EXCEPT !.hidden = TRUE]
  BY <1>3 DEF Readable, ReadRow
<1>4. ASSUME NEW k \in MsgIds, Expire(k), InQueue(k), rows' = [rows EXCEPT ![k].hidden = FALSE]
      PROVE  Expire(m) /\ InQueue(m) /\ rows'[m] = [rows[m] EXCEPT !.hidden = FALSE]
  <2>1. k = m
    BY <1>1, <1>4
  <2> QED
    BY <1>1, <1>4, <2>1
<1>5. ASSUME NEW j \in Jobs, NEW row \in Row, Active(j), InQueue(jobs[j].msg),
             Changed(j, row), rows' = [rows EXCEPT ![jobs[j].msg] = row]
      PROVE  InQueue(m) /\ jobs[j].msg = m /\ Changed(j, rows'[m])
  <2>1. jobs[j].msg = m /\ rows'[m] = row
    BY <1>1, <1>5
  <2> QED
    BY <1>5, <2>1
<1> QED
  BY <1>2, <1>3, <1>4, <1>5, RowsStep DEF RowUpdate

LEMMA JobAtMsg ==
  ASSUME NEW step, NEW m, NEW retry
  PROVE  JobAt(step, m, retry).pc = step /\ JobAt(step, m, retry).msg = m
BY DEF JobAt

(* A statement moves its own job only. *)
LEMMA OtherJobs ==
  ASSUME TypeOK, NEW i \in Jobs, ProcessTask(i) \/ Crash(i) \/ CompleteRaises(i),
         NEW j \in Jobs, i # j
  PROVE  jobs'[j] = jobs[j]
BY DEF TypeOK, ProcessTask, CheckLimit, Start, Succeed, Raise, Fail, ReadErrors,
   WriteErrors, AfterErrors, RetryStatus, RetryVt, Payload, SendDlq, SetDlq, RemoveStatus,
   Remove, Crash, CompleteRaises, Catch, GoTo, Finish, Removing

(* A job keeps its message until it ends; a new one has just been read.    *)
LEMMA JobStep ==
  ASSUME TypeOK, [Next]_vars, NEW j \in Jobs, Active(j)'
  PROVE  \/ Active(j) /\ jobs'[j].msg = jobs[j].msg
         \/ /\ Poll /\ ~Active(j)
            /\ jobs'[j].msg \in Readable /\ jobs'[j] = NewJob(jobs'[j].msg)
<1>1. jobs \in [Jobs -> Job]
  BY DEF TypeOK
<1>2. CASE Poll
  <2>1. PICK batch \in SUBSET Readable :
          \E task \in [Idle -> batch \cup {NoId}] : PollEffect(batch, task)
    BY <1>2, PollIsEffect
  <2>2. PICK task \in [Idle -> batch \cup {NoId}] : PollEffect(batch, task)
    BY <2>1
  <2>3. CASE j \in Idle /\ task[j] # NoId
    <3>1. jobs'[j] = NewJob(task[j]) /\ task[j] \in Readable
      BY <2>2, <2>3 DEF PollEffect
    <3>2. jobs'[j].msg = task[j]
      BY <3>1 DEF NewJob, JobAt
    <3> QED
      BY <1>2, <2>3, <3>1, <3>2 DEF Idle
  <2>4. CASE ~(j \in Idle /\ task[j] # NoId)
    BY <2>2, <2>4 DEF PollEffect, Active
  <2> QED
    BY <2>3, <2>4
<1>3. ASSUME NEW i \in Jobs, ProcessTask(i) \/ Crash(i) \/ CompleteRaises(i)
      PROVE  Active(j) /\ jobs'[j].msg = jobs[j].msg
  <2>1. CASE i # j
    BY <1>3, <2>1, OtherJobs DEF Active
  <2>2. CASE i = j
    <3>1. Active(j)
      BY <1>3, <2>2 DEF ProcessTask, CheckLimit, Start, Succeed, Raise, Fail, ReadErrors,
         WriteErrors, RetryStatus, RetryVt, Payload, SendDlq, SetDlq, RemoveStatus,
         Remove, Crash, CompleteRaises, At, Active
    <3>2. ~Finish(j)
      BY <1>1 DEF Finish, Active, IdleJob, JobAt
    <3>3. \/ \E step : GoTo(j, step)
          \/ \E status : Removing(j, status)
          \/ Catch(j) \/ ReadErrors(j) \/ SendDlq(j)
      BY <1>3, <2>2, <3>2 DEF ProcessTask, CheckLimit, Start, Succeed, Raise, Fail,
         WriteErrors, AfterErrors, RetryStatus, RetryVt, Payload, SetDlq, RemoveStatus,
         Remove, Crash, CompleteRaises
    <3>4. jobs'[j].msg = jobs[j].msg
      <4>1. ASSUME NEW step, GoTo(j, step) PROVE jobs'[j].msg = jobs[j].msg
        BY <1>1, <4>1 DEF GoTo, Job
      <4>2. ASSUME NEW status, Removing(j, status) PROVE jobs'[j].msg = jobs[j].msg
        BY <1>1, <4>2 DEF Removing, Job
      <4>3. CASE Catch(j)
        <5>1. PICK step, retry : jobs' = [jobs EXCEPT ![j] = JobAt(step, jobs[j].msg, retry)]
          BY <4>3 DEF Catch
        <5>2. jobs'[j] = JobAt(step, jobs[j].msg, retry)
          BY <1>1, <5>1
        <5> QED
          BY <5>2, JobAtMsg
      <4>4. CASE ReadErrors(j)
        BY <1>1, <4>4 DEF ReadErrors, Job
      <4>5. CASE SendDlq(j)
        BY <1>1, <4>5 DEF SendDlq, Job
      <4> QED
        BY <3>3, <4>1, <4>2, <4>3, <4>4, <4>5
    <3> QED
      BY <3>1, <3>4
  <2> QED
    BY <2>1, <2>2
<1>4. CASE jobs' = jobs
  BY <1>4 DEF Active
<1>5. ASSUME NEW worker \in Workers, Die(worker)
      PROVE  Active(j) /\ jobs'[j].msg = jobs[j].msg
  BY <1>5, DieEffect
<1> QED
  BY <1>2, <1>3, <1>4, <1>5 DEF Next, vars, Enqueue, PollEmpty, Expire, Reschedule, RescheduleRead,
     RescheduleCommit, RescheduleAbort

-----------------------------------------------------------------------------
(* The messages are numbered as they are sent, and what has left is final. *)

LEMMA NumberedStep == TypeOK /\ Numbered /\ [Next]_vars => Numbered'
<1> SUFFICES ASSUME TypeOK, Numbered, [Next]_vars PROVE Numbered'
  OBVIOUS
<1>1. lastMsg' >= lastMsg /\ lastMsg \in Nat /\ lastMsg' \in Nat
  <2>1. lastMsg \in 0..MaxMsgs /\ (lastMsg' = lastMsg \/ lastMsg' = lastMsg + 1)
    BY RowsStep DEF TypeOK, Insert, RowUpdate
  <2> QED
    BY <2>1, CountsAssumption
<1>2. ASSUME NEW m \in MsgIds
      PROVE  rows'[m].loc = "unsent" <=> m > lastMsg'
  <2>1. rows[m] \in Row /\ m \in Nat
    BY DEF TypeOK, MsgIds
  <2>2. CASE rows'[m] = rows[m]
    <3>1. CASE lastMsg' = lastMsg
      BY <2>2, <3>1 DEF Numbered
    <3>2. CASE lastMsg' # lastMsg
      <4>1. PICK orig \in Nat : Insert(lastMsg + 1, orig)
        BY <3>2, RowsStep DEF RowUpdate
      <4>2. CASE m = lastMsg + 1
        <5>1. rows'[m] = NewRow("queue", orig) /\ lastMsg' = m
          BY <4>1, <4>2 DEF Insert, TypeOK
        <5> QED
          BY <1>1, <2>1, <2>2, <5>1 DEF NewRow, Numbered
      <4>3. CASE m # lastMsg + 1
        BY <1>1, <2>1, <2>2, <4>1, <4>3 DEF Insert, Numbered
      <4> QED
        BY <4>2, <4>3
    <3> QED
      BY <3>1, <3>2
  <2>3. CASE rows'[m] # rows[m]
    <3>1. CASE /\ m = lastMsg + 1 /\ lastMsg' = m
               /\ \E orig \in Nat : rows'[m] = NewRow("queue", orig)
      BY <1>1, <2>1, <3>1 DEF NewRow
    <3>2. CASE InQueue(m) /\ lastMsg' = lastMsg /\ rows'[m].loc # "unsent"
      BY <2>1, <3>2 DEF Numbered, InQueue
    <3>3. ASSUME NEW j \in Jobs, jobs[j].msg = m, Changed(j, rows'[m]), InQueue(m)
          PROVE  rows'[m].loc # "unsent"
      BY <2>1, <3>3 DEF Changed, Row, InQueue
    <3>4. ASSUME NEW h \in BOOLEAN, rows'[m] = [rows[m] EXCEPT !.hidden = h], InQueue(m)
          PROVE  rows'[m].loc # "unsent"
      BY <2>1, <3>4 DEF Row, InQueue
    <3> QED
      BY <2>3, <3>1, <3>2, <3>3, <3>4, RowStep
  <2> QED
    BY <2>2, <2>3
<1>3. ASSUME NEW j \in Jobs, Active(j)'
      PROVE  jobs'[j].msg <= lastMsg'
  <2>1. CASE Active(j) /\ jobs'[j].msg = jobs[j].msg
    BY <1>1, <2>1 DEF Numbered, TypeOK, MsgIds
  <2>2. CASE jobs'[j].msg \in Readable
    BY <1>1, <2>2 DEF Numbered, Readable, InQueue, MsgIds
  <2> QED
    BY <1>3, <2>1, <2>2, JobStep
<1> QED
  BY <1>2, <1>3 DEF Numbered

LEMMA NumberedInit == Init => Numbered
BY DEF Init, Numbered, NewRow, MsgIds, Active, IdleJob, JobAt

(* The msg_id column numbers the messages in the order they are sent, and  *)
(* no job holds a message that was never sent.                             *)
THEOREM NumberedCorrect == Spec => []Numbered
BY TypeInit, TypeStep, NumberedInit, NumberedStep, PTL DEF Spec

(* A message that has left the queue, for the archive or for good, never   *)
(* changes again: the late statements of jobs that still hold it miss it.  *)
THEOREM FrozenCorrect == Spec => ArchiveFrozen
<1>1. TypeOK /\ Numbered /\ [Next]_vars => \A m \in MsgIds : Left(m) => rows'[m] = rows[m]
  BY RowStep DEF Left, InQueue
<1> QED
  BY <1>1, TypeCorrect, NumberedCorrect, PTL DEF Spec, ArchiveFrozen

-----------------------------------------------------------------------------
(* No task is lost, and a failed one refers to its DLQ message.            *)

LEMMA AboutGrows ==
  ASSUME TypeOK, [Next]_vars, NEW m, NEW d, About(d, m)
  PROVE  About(d, m)'
BY DlqGrows DEF About

LEMMA CausePersists ==
  ASSUME TypeOK, [Next]_vars, NEW m \in MsgIds
  PROVE  /\ Lettered(m) => Lettered(m)'
         /\ history[m].fails > 0 => history'[m].fails > 0
         /\ history[m].ok => history'[m].ok
<1>1. Lettered(m) => Lettered(m)'
  BY AboutGrows DEF Lettered, About
<1>2. history[m].fails \in Nat /\ history'[m].fails \in Nat
  BY TypeStep DEF TypeOK, History
<1> QED
  BY <1>1, <1>2, HistoryGrows

LEMMA NoLossStep ==
  ASSUME CauseInv, [Next]_vars
  PROVE  NoLoss'
<1> USE DEF CauseInv
<1>1. SUFFICES ASSUME NEW m \in MsgIds, Left(m)'
               PROVE  \/ history'[m].ok
                      \/ IF HasDlq THEN Lettered(m)' ELSE history'[m].fails > 0
  BY DEF NoLoss, Lettered
<1>2. CASE Left(m)
  BY <1>2, CausePersists DEF NoLoss, Lettered
<1>3. CASE ~Left(m)
  <2>1. rows[m] \in Row /\ rows'[m] # rows[m]
    BY <1>1, <1>3 DEF Left, TypeOK
  <2>2. \E j \in Jobs : jobs[j].msg = m /\ At(j, "remove")
    <3>1. ASSUME NEW orig \in Nat, rows'[m] = NewRow("queue", orig) PROVE FALSE
      BY <1>1, <3>1 DEF NewRow, Left
    <3>2. ASSUME NEW h \in BOOLEAN, rows'[m] = [rows[m] EXCEPT !.hidden = h] PROVE FALSE
      BY <1>1, <1>3, <2>1, <3>2 DEF Row, Left
    <3>3. ASSUME NEW j \in Jobs, jobs[j].msg = m, Changed(j, rows'[m])
          PROVE  At(j, "remove")
      BY <1>1, <1>3, <2>1, <3>3 DEF Row, Left, Changed
    <3> QED
      BY <2>1, <3>1, <3>2, <3>3, RowStep
  <2>3. PICK j \in Jobs : jobs[j].msg = m /\ At(j, "remove")
    BY <2>2
  <2>4. RemoveCause(m, jobs[j].status)
    BY <2>3 DEF JobCause, RemoveSteps, At
  <2> QED
    BY <2>4, CausePersists DEF RemoveCause
<1> QED
  BY <1>2, <1>3

(* The dlq header of a message that was sent is only ever set, and only to *)
(* a DLQ message about it; status failed is written with the header there. *)
LEMMA DlqHeaderStep ==
  ASSUME CauseInv, [Next]_vars, NEW m \in MsgIds
  PROVE  /\ rows'[m].dlq \in {NoId, rows[m].dlq} \/ About(rows'[m].dlq, m)
         /\ rows[m].loc # "unsent" /\ rows[m].dlq # NoId => rows'[m].dlq # NoId
         /\ HasDlq /\ rows'[m].status = "failed" => rows'[m].dlq # NoId
<1> USE DEF CauseInv
<1>1. rows[m] \in Row
  BY DEF TypeOK
<1>2. CASE rows'[m] = rows[m]
  BY <1>2 DEF DlqReference
<1>3. ASSUME NEW orig \in Nat, rows[m].loc = "unsent", rows'[m] = NewRow("queue", orig)
      PROVE  /\ rows'[m].dlq \in {NoId, rows[m].dlq} \/ About(rows'[m].dlq, m)
             /\ rows[m].loc # "unsent" /\ rows[m].dlq # NoId => rows'[m].dlq # NoId
             /\ HasDlq /\ rows'[m].status = "failed" => rows'[m].dlq # NoId
  BY <1>3 DEF NewRow
<1>4. ASSUME NEW h \in BOOLEAN, rows'[m] = [rows[m] EXCEPT !.hidden = h]
      PROVE  rows'[m].dlq = rows[m].dlq /\ rows'[m].status = rows[m].status
  BY <1>1, <1>4 DEF Row
<1>5. ASSUME NEW j \in Jobs, InQueue(m), jobs[j].msg = m, Changed(j, rows'[m])
      PROVE  /\ rows'[m].dlq \in {NoId, rows[m].dlq} \/ About(rows'[m].dlq, m)
             /\ rows[m].loc # "unsent" /\ rows[m].dlq # NoId => rows'[m].dlq # NoId
             /\ HasDlq /\ rows'[m].status = "failed" => rows'[m].dlq # NoId
  <2>1. CASE At(j, "set dlq")
    <3>1. rows'[m] = [rows[m] EXCEPT !.dlq = jobs[j].dlq]
      BY <1>5, <2>1 DEF Changed, At
    <3>2. About(jobs[j].dlq, m)
      BY <1>5, <2>1 DEF JobCause
    <3>3. jobs[j].dlq # 0
      BY <3>2, LenProperties DEF About, TypeOK
    <3> QED
      BY <1>1, <3>1, <3>2, <3>3 DEF Row
  <2>2. CASE At(j, "set status")
    <3>1. rows'[m] = [rows[m] EXCEPT !.status = jobs[j].status]
      BY <1>5, <2>2 DEF Changed, At
    <3>2. RemoveCause(m, jobs[j].status)
      BY <1>5, <2>2 DEF JobCause, RemoveSteps, At
    <3> QED
      BY <1>1, <1>5, <3>1, <3>2 DEF Row, RemoveCause
  <2>3. CASE ~At(j, "set dlq") /\ ~At(j, "set status")
    <3>1. rows'[m].dlq = rows[m].dlq /\ (rows'[m].status = "failed" => rows[m].status = "failed")
      BY <1>1, <1>5, <2>3 DEF Changed, Row
    <3> QED
      BY <3>1 DEF DlqReference
  <2> QED
    BY <2>1, <2>2, <2>3
<1> QED
  BY <1>2, <1>3, <1>4, <1>5, RowStep DEF DlqReference

LEMMA DlqReferenceStep ==
  ASSUME CauseInv, [Next]_vars
  PROVE  DlqReference'
<1> SUFFICES ASSUME NEW m \in MsgIds
             PROVE  /\ HasDlq /\ rows'[m].status = "failed" => rows'[m].dlq # NoId
                    /\ rows'[m].dlq # NoId => About(rows[m].dlq, m)'
  BY DEF DlqReference
<1>1. rows'[m].dlq # NoId => About(rows'[m].dlq, m)
  BY DlqHeaderStep DEF DlqReference, CauseInv
<1>2. ASSUME NEW d, d = rows'[m].dlq, About(d, m)
      PROVE  About(rows[m].dlq, m)'
  BY <1>2, DlqGrows DEF About, CauseInv
<1> QED
  BY <1>1, <1>2, DlqHeaderStep DEF CauseInv

(* What is known of a job that does not move stays true.                   *)
LEMMA RemoveCausePersists ==
  ASSUME CauseInv, [Next]_vars, NEW m \in MsgIds, rows[m].loc # "unsent",
         NEW status, RemoveCause(m, status)
  PROVE  RemoveCause(m, status)'
<1>1. InQueue(m)' => InQueue(m)
  <2>1. Left(m) \/ InQueue(m)
    BY DEF Left, InQueue, CauseInv, TypeOK, Row
  <2>2. Left(m) => rows'[m] = rows[m]
    BY RowStep DEF Left, InQueue, CauseInv
  <2> QED
    BY <2>1, <2>2 DEF Left, InQueue
<1> QED
  BY <1>1, CausePersists, DlqHeaderStep DEF RemoveCause, CauseInv

LEMMA JobCauseKept ==
  ASSUME CauseInv, [Next]_vars, NEW j \in Jobs, jobs'[j] = jobs[j]
  PROVE  JobCause(j)'
<1> DEFINE m == jobs[j].msg
<1>1. CASE ~Active(j)
  BY <1>1 DEF JobCause, Active, At, FailSteps, RemoveSteps
<1>2. CASE Active(j)
  <2>1. m \in MsgIds /\ rows[m].loc # "unsent"
    BY <1>2 DEF CauseInv, TypeOK, Numbered, MsgIds
  <2>2. JobCause(j)
    BY DEF CauseInv
  <2>3. jobs[j].pc \in FailSteps => history'[m].fails > 0
    BY <2>1, <2>2, CausePersists DEF JobCause, CauseInv
  <2>4. At(j, "set dlq") => About(jobs[j].dlq, m) /\ jobs[j].dlq \in DOMAIN dlq'
                            /\ dlq'[jobs[j].dlq].orig = m
    BY <2>2, DlqGrows DEF JobCause, CauseInv, About
  <2>5. jobs[j].pc \in RemoveSteps => RemoveCause(m, jobs[j].status)
    BY <2>2 DEF JobCause
  <2>6. ASSUME NEW k, k = m, NEW status, status = jobs[j].status, jobs[j].pc \in RemoveSteps
        PROVE  RemoveCause(k, status)'
    BY <2>1, <2>5, <2>6, RemoveCausePersists
  <2> QED
    BY <2>3, <2>4, <2>6 DEF JobCause, At, About, RemoveCause, InQueue, Lettered
<1> QED
  BY <1>1, <1>2

(* A job that ends or is at a step that nothing is claimed about.          *)
LEMMA NoClaim ==
  ASSUME NEW j \in Jobs, jobs'[j].pc \notin FailSteps \cup RemoveSteps
  PROVE  JobCause(j)'
BY DEF JobCause, At, FailSteps, RemoveSteps

LEMMA FinishCause ==
  ASSUME TypeOK, NEW j \in Jobs, Finish(j)
  PROVE  JobCause(j)'
<1>1. jobs'[j] = IdleJob
  BY DEF Finish, TypeOK
<1>2. IdleJob.pc = "idle"
  BY DEF IdleJob, JobAt
<1> QED
  BY <1>1, <1>2, NoClaim DEF FailSteps, RemoveSteps

(* A job that was given its status for _remove.                            *)
LEMMA RemovingCause ==
  ASSUME TypeOK, NEW j \in Jobs, NEW status, Removing(j, status),
         \/ status = "completed" /\ history'[jobs[j].msg].ok
         \/ /\ status = "failed" /\ history'[jobs[j].msg].fails > 0
            /\ HasDlq => \E d \in DOMAIN dlq' : dlq'[d].orig = jobs[j].msg
            /\ HasDlq /\ rows'[jobs[j].msg].loc = "queue" => rows'[jobs[j].msg].dlq # NoId
  PROVE  JobCause(j)'
<1>1. PICK step \in RemoveSteps : step = RemoveStep
  BY DEF RemoveStep, RemoveSteps
<1>2. jobs' = [jobs EXCEPT ![j] = [jobs[j] EXCEPT !.pc = step, !.status = status]]
  BY <1>1 DEF Removing
<1>3. jobs'[j].pc = step /\ jobs'[j].status = status /\ jobs'[j].msg = jobs[j].msg
  BY <1>2 DEF TypeOK, Job
<1> QED
  BY <1>1, <1>3 DEF JobCause, RemoveCause, Lettered, About, InQueue, At, FailSteps, RemoveSteps

(* A job that goes from one step of fail to another.                       *)
LEMMA FailStepCause ==
  ASSUME TypeOK, NEW j \in Jobs, history'[jobs[j].msg].fails > 0,
         jobs'[j].msg = jobs[j].msg, jobs'[j].pc \in FailSteps \ {"set dlq"}
  PROVE  JobCause(j)'
BY DEF JobCause, At, FailSteps, RemoveSteps

LEMMA CatchCause ==
  ASSUME TypeOK, NEW j \in Jobs, Active(j), Catch(j)
  PROVE  JobCause(j)'
<1>1. PICK step, retry : /\ step = "read errors"
                         /\ jobs' = [jobs EXCEPT ![j] = JobAt(step, jobs[j].msg, retry)]
  BY DEF Catch
<1>2. jobs'[j].pc = step /\ jobs'[j].msg = jobs[j].msg
  <2>1. jobs'[j] = JobAt(step, jobs[j].msg, retry)
    BY <1>1 DEF TypeOK
  <2> QED
    BY <2>1, JobAtMsg
<1>3. history'[jobs[j].msg].fails > 0
  <2>1. PICK m \in MsgIds : m = jobs[j].msg
    BY DEF TypeOK
  <2>2. history[m].fails \in Nat /\ history[m] \in History
    BY DEF TypeOK, History
  <2>3. history' = [history EXCEPT ![m] = [history[m] EXCEPT !.fails = history[m].fails + 1]]
    BY <2>1 DEF Catch
  <2>4. history'[m].fails = history[m].fails + 1
    BY <2>2, <2>3 DEF TypeOK, History
  <2> QED
    BY <2>1, <2>2, <2>4
<1> QED
  BY <1>1, <1>2, <1>3, FailStepCause DEF FailSteps

LEMMA MovedJobCause ==
  ASSUME CauseInv, [Next]_vars, NEW j \in Jobs, ProcessTask(j) \/ Crash(j) \/ CompleteRaises(j)
  PROVE  JobCause(j)'
<1> DEFINE m == jobs[j].msg
<1>1. TypeOK /\ JobCause(j)
  BY DEF CauseInv
<1>2. Active(j) /\ jobs[j] \in Job
  BY <1>1 DEF ProcessTask, CheckLimit, Start, Succeed, Raise, Fail, ReadErrors, WriteErrors,
     RetryStatus, RetryVt, Payload, SendDlq, SetDlq, RemoveStatus, Remove, Crash,
     CompleteRaises, At, Active, TypeOK
<1>3. m \in MsgIds /\ rows[m].loc # "unsent"
  BY <1>1, <1>2 DEF CauseInv, TypeOK, Numbered, MsgIds
<1>4. jobs[j].pc \in FailSteps => history'[m].fails > 0
  BY <1>1, <1>3, CausePersists DEF JobCause
<1>5. ASSUME NEW step, GoTo(j, step)
      PROVE  jobs'[j].pc = step /\ jobs'[j].msg = m /\ jobs'[j].status = jobs[j].status
  BY <1>1, <1>2, <1>5 DEF GoTo, TypeOK, Job
<1>6. CASE Finish(j)
  BY <1>1, <1>6, FinishCause
<1>7. CASE Catch(j)
  BY <1>1, <1>2, <1>7, CatchCause
<1>8. CASE CheckLimit(j) \/ Start(j)
  <2>1. Finish(j) \/ GoTo(j, "start") \/ GoTo(j, "run")
    BY <1>8 DEF CheckLimit, Start
  <2>2. Finish(j) \/ jobs'[j].pc \in {"start", "run"}
    BY <1>5, <2>1
  <2>3. CASE jobs'[j].pc \in {"start", "run"}
    BY <2>3, NoClaim DEF FailSteps, RemoveSteps
  <2> QED
    BY <1>6, <2>2, <2>3
<1>9. CASE Succeed(j)
  <2>1. history'[m].ok
    BY <1>1, <1>3, <1>9 DEF Succeed, TypeOK, History
  <2> QED
    BY <1>1, <1>9, <2>1, RemovingCause DEF Succeed
<1>10. CASE ReadErrors(j)
  <2>1. jobs'[j].pc = "write errors" /\ jobs'[j].msg = m
    BY <1>1, <1>2, <1>10 DEF ReadErrors, TypeOK, Job
  <2> QED
    BY <1>1, <1>4, <1>10, <2>1, FailStepCause DEF ReadErrors, At, FailSteps
<1>11. CASE WriteErrors(j)
  <2>1. history'[m].fails > 0
    BY <1>4, <1>11 DEF WriteErrors, At, FailSteps
  <2>2. CASE GoTo(j, "retry status") \/ GoTo(j, "payload")
    <3>1. jobs'[j].pc \in {"retry status", "payload"} /\ jobs'[j].msg = m
      BY <1>5, <2>2
    <3> QED
      BY <1>1, <2>1, <3>1, FailStepCause DEF FailSteps
  <2>3. CASE Removing(j, "failed") /\ ~HasDlq
    BY <1>1, <2>1, <2>3, RemovingCause
  <2> QED
    BY <1>11, <2>2, <2>3 DEF WriteErrors, AfterErrors
<1>12. CASE RetryStatus(j) \/ Payload(j)
  <2>1. history'[m].fails > 0
    BY <1>4, <1>12 DEF RetryStatus, Payload, At, FailSteps
  <2>2. Finish(j) \/ GoTo(j, "retry vt") \/ GoTo(j, "send dlq")
    BY <1>12 DEF RetryStatus, Payload
  <2>3. Finish(j) \/ (jobs'[j].pc \in {"retry vt", "send dlq"} /\ jobs'[j].msg = m)
    BY <1>5, <2>2
  <2>4. CASE jobs'[j].pc \in {"retry vt", "send dlq"} /\ jobs'[j].msg = m
    BY <1>1, <2>1, <2>4, FailStepCause DEF FailSteps
  <2> QED
    BY <1>6, <2>3, <2>4
<1>13. CASE SendDlq(j)
  <2>1. history'[m].fails > 0
    BY <1>4, <1>13 DEF SendDlq, At, FailSteps
  <2>2. jobs'[j].pc = "set dlq" /\ jobs'[j].msg = m /\ jobs'[j].dlq = Len(dlq) + 1
    BY <1>1, <1>2, <1>13 DEF SendDlq, DlqMsgId, TypeOK, Job
  <2>3. Len(dlq) + 1 \in DOMAIN dlq' /\ dlq'[Len(dlq) + 1].orig = m
    <3>1. PICK letter : letter.orig = m /\ dlq' = Append(dlq, letter)
      BY <1>13 DEF SendDlq
    <3>2. dlq \in Seq(DlqRow) /\ Len(dlq) \in Nat
      BY <1>1, LenProperties DEF TypeOK
    <3> QED
      BY <3>1, <3>2
  <2> QED
    BY <2>1, <2>2, <2>3 DEF JobCause, About, At, FailSteps, RemoveSteps
<1>14. CASE SetDlq(j)
  <2>1. history'[m].fails > 0
    BY <1>4, <1>14 DEF SetDlq, At, FailSteps
  <2>2. About(jobs[j].dlq, m)
    BY <1>1, <1>14 DEF SetDlq, JobCause
  <2>3. \E d \in DOMAIN dlq' : dlq'[d].orig = m
    BY <1>14, <2>2 DEF SetDlq, About
  <2>4. jobs[j].dlq # 0
    BY <1>1, <2>2, LenProperties DEF About, TypeOK
  <2>5. rows'[m].loc = "queue" => rows'[m].dlq # NoId
    BY <1>1, <1>3, <1>14, <2>4 DEF SetDlq, UpdateRow, InQueue, TypeOK, Row
  <2> QED
    BY <1>1, <1>14, <2>1, <2>3, <2>5, RemovingCause DEF SetDlq
<1>15. CASE RemoveStatus(j)
  <2>1. RemoveCause(m, jobs[j].status)
    BY <1>1, <1>15 DEF RemoveStatus, JobCause, At, RemoveSteps
  <2>2. ASSUME NEW k, k = m, NEW status, status = jobs[j].status
        PROVE  RemoveCause(k, status)'
    BY <1>3, <2>1, <2>2, RemoveCausePersists
  <2>3. jobs'[j].pc = "remove" /\ jobs'[j].msg = m /\ jobs'[j].status = jobs[j].status
    BY <1>5, <1>15 DEF RemoveStatus
  <2> QED
    BY <2>2, <2>3 DEF JobCause, RemoveCause, Lettered, About, InQueue, At, FailSteps, RemoveSteps
<1> QED
  BY <1>6, <1>7, <1>8, <1>9, <1>10, <1>11, <1>12, <1>13, <1>14, <1>15
     DEF ProcessTask, Fail, Raise, RetryVt, Remove, Crash, CompleteRaises

LEMMA NewJobStep ==
  ASSUME NEW m
  PROVE  NewJob(m).pc = FirstStep /\ NewJob(m).msg = m
BY DEF NewJob, JobAt

LEMMA CauseStep == CauseInv /\ [Next]_vars => CauseInv'
<1> SUFFICES ASSUME CauseInv, [Next]_vars PROVE CauseInv'
  OBVIOUS
<1>1. TypeOK' /\ Numbered' /\ NoLoss' /\ DlqReference'
  BY TypeStep, NumberedStep, NoLossStep, DlqReferenceStep DEF CauseInv
<1>2. ASSUME NEW j \in Jobs PROVE JobCause(j)'
  <2>1. CASE Poll
    <3>1. PICK batch \in SUBSET Readable :
            \E task \in [Idle -> batch \cup {NoId}] : PollEffect(batch, task)
      BY <2>1, PollIsEffect
    <3>2. PICK task \in [Idle -> batch \cup {NoId}] : PollEffect(batch, task)
      BY <3>1
    <3>3. jobs'[j] = jobs[j] \/ jobs'[j] = NewJob(task[j])
      BY <3>2 DEF PollEffect
    <3>4. CASE jobs'[j] = NewJob(task[j])
      <4>1. NewJob(task[j]).pc = FirstStep
        BY NewJobStep
      <4>2. FirstStep \notin FailSteps \cup RemoveSteps
        BY DEF FirstStep, FailSteps, RemoveSteps
      <4> QED
        BY <3>4, <4>1, <4>2, NoClaim
    <3> QED
      BY <3>3, <3>4, JobCauseKept
  <2>2. ASSUME NEW i \in Jobs, ProcessTask(i) \/ Crash(i) \/ CompleteRaises(i)
        PROVE  JobCause(j)'
    BY <2>2, OtherJobs, JobCauseKept, MovedJobCause DEF CauseInv
  <2>3. CASE jobs' = jobs
    BY <2>3, JobCauseKept
  <2>4. ASSUME NEW worker \in Workers, Die(worker)
        PROVE  JobCause(j)'
    <3>1. jobs'[j] = jobs[j] \/ jobs'[j].pc = "idle"
      BY <2>4, DieEffect
    <3> QED
      BY <3>1, JobCauseKept, NoClaim DEF FailSteps, RemoveSteps
  <2> QED
    BY <2>1, <2>2, <2>3, <2>4 DEF Next, vars, Enqueue, PollEmpty, Expire, Reschedule, RescheduleRead,
       RescheduleCommit, RescheduleAbort
<1> QED
  BY <1>1, <1>2 DEF CauseInv

LEMMA CauseInit == Init => CauseInv
<1> SUFFICES ASSUME Init PROVE CauseInv
  OBVIOUS
<1>1. TypeOK /\ Numbered
  BY TypeInit, NumberedInit
<1>2. \A m \in MsgIds : rows[m].loc = "unsent" /\ rows[m].status = "none" /\ rows[m].dlq = NoId
  BY DEF Init, NewRow
<1>3. \A j \in Jobs : jobs[j].pc = "idle"
  BY DEF Init, IdleJob, JobAt
<1>4. NoLoss /\ DlqReference
  BY <1>2 DEF NoLoss, DlqReference, Left
<1> QED
  BY <1>1, <1>3, <1>4 DEF CauseInv, JobCause, At, FailSteps, RemoveSteps

(* A message leaves the queue only after its processor returned or, if it  *)
(* failed, with a DLQ message about it (for a queue without DLQ: after a   *)
(* failure), whatever the jobs, exceptions, crashes and expiries.          *)
THEOREM NoLossCorrect == Spec => []NoLoss
BY CauseInit, CauseStep, PTL DEF Spec, CauseInv

(* The dlq header of a message is the id of a DLQ message about it, and a  *)
(* message with status failed has the header.                              *)
THEOREM DlqReferenceCorrect == Spec => []DlqReference
BY CauseInit, CauseStep, PTL DEF Spec, CauseInv

-----------------------------------------------------------------------------
(* One job per message, as long as vt does not pass under it.              *)

(* A held message is made readable by nothing but the clock.               *)
LEMMA HiddenStep ==
  ASSUME TypeOK, Numbered, [Next]_vars, NEW m \in MsgIds, NEW j \in Jobs,
         Active(j), jobs[j].msg = m, history'[m].early = 0,
         InQueue(m) => rows[m].hidden
  PROVE  InQueue(m)' => rows'[m].hidden
<1>1. rows[m] \in Row /\ rows[m].loc # "unsent"
  BY DEF TypeOK, Numbered, MsgIds
<1>2. CASE rows'[m] = rows[m]
  BY <1>2 DEF InQueue
<1>3. ASSUME InQueue(m), rows'[m] = [rows[m] EXCEPT !.hidden = TRUE]
      PROVE  rows'[m].hidden
  BY <1>1, <1>3 DEF Row
<1>4. ASSUME Expire(m) PROVE FALSE
  <2>1. Held(m)
    BY DEF Held
  <2>2. history[m] \in History /\ history' = [history EXCEPT ![m].early = history[m].early + 1]
    BY <1>4, <2>1 DEF Expire, TypeOK
  <2>3. history'[m].early = history[m].early + 1 /\ history[m].early \in Nat
    BY <2>2 DEF TypeOK, History
  <2> QED
    BY <2>3
<1>5. ASSUME NEW i \in Jobs, InQueue(m), jobs[i].msg = m, Changed(i, rows'[m])
      PROVE  rows'[m].hidden
  BY <1>1, <1>5 DEF Changed, Row
<1> QED
  BY <1>1, <1>2, <1>3, <1>4, <1>5, RowStep

LEMMA HolderPoll ==
  ASSUME ExclusiveInv, [Next]_vars, Poll
  PROVE  HolderInv'
<1>1. PICK batch \in SUBSET Readable :
        \E task \in [Idle -> batch \cup {NoId}] : PollEffect(batch, task)
  BY PollIsEffect
<1>2. PICK task \in [Idle -> batch \cup {NoId}] : PollEffect(batch, task)
  BY <1>1
<1>3. ASSUME NEW i \in Jobs, Active(i)'
      PROVE  \/ i \in Idle /\ task[i] \in batch /\ jobs'[i].msg = task[i]
             \/ Active(i) /\ jobs'[i] = jobs[i]
  <2>1. CASE i \in Idle /\ task[i] # NoId
    <3>1. jobs'[i] = NewJob(task[i])
      BY <1>2, <2>1 DEF PollEffect
    <3>2. NewJob(task[i]).msg = task[i]
      BY NewJobStep
    <3>3. task[i] \in batch
      BY <1>2, <2>1
    <3> QED
      BY <2>1, <3>1, <3>2, <3>3
  <2>2. CASE ~(i \in Idle /\ task[i] # NoId)
    <3>1. jobs'[i] = jobs[i]
      BY <1>2, <2>2 DEF PollEffect
    <3> QED
      BY <1>3, <3>1 DEF Active
  <2> QED
    BY <2>1, <2>2
<1>4. SUFFICES ASSUME NEW j \in Jobs, Active(j)', history'[jobs'[j].msg].early = 0
               PROVE  /\ rows'[jobs'[j].msg].loc = "queue" => rows'[jobs'[j].msg].hidden
                      /\ \A i \in Jobs : Active(i)' /\ jobs'[i].msg = jobs'[j].msg => i = j
  BY DEF HolderInv, InQueue
<1>5. history' = history /\ \A k \in batch : rows'[k].hidden
  <2>1. \A k \in batch : k \in MsgIds /\ rows[k] \in Row /\ rows'[k] = ReadRow(rows[k])
    BY <1>2 DEF PollEffect, Readable, ExclusiveInv, TypeOK
  <2>2. \A row \in Row : ReadRow(row).hidden
    BY DEF ReadRow, Row
  <2> QED
    BY <1>2, <2>1, <2>2 DEF PollEffect
<1>6. ASSUME NEW i \in Jobs, Active(i), jobs[i].msg \in batch,
             history[jobs[i].msg].early = 0
      PROVE  FALSE
  BY <1>6 DEF ExclusiveInv, HolderInv, Readable
<1>7. CASE j \in Idle /\ task[j] \in batch /\ jobs'[j].msg = task[j]
  <2>1. ASSUME NEW i \in Jobs, Active(i)', jobs'[i].msg = jobs'[j].msg
        PROVE  i = j
    <3>1. CASE i \in Idle /\ task[i] \in batch /\ jobs'[i].msg = task[i]
      <4>1. task[i] # NoId
        BY <3>1 DEF Readable, MsgIds
      <4> QED
        BY <1>2, <1>7, <2>1, <3>1, <4>1 DEF PollEffect
    <3>2. CASE Active(i) /\ jobs'[i] = jobs[i]
      BY <1>4, <1>5, <1>6, <1>7, <2>1, <3>2
    <3> QED
      BY <1>3, <2>1, <3>1, <3>2
  <2> QED
    BY <1>5, <1>7, <2>1
<1>8. CASE Active(j) /\ jobs'[j] = jobs[j]
  <2> DEFINE m == jobs[j].msg
  <2>1. m \in MsgIds /\ history[m].early = 0 /\ m \notin batch
    BY <1>4, <1>5, <1>6, <1>8 DEF ExclusiveInv, TypeOK
  <2>2. rows'[m] = rows[m]
    BY <1>2, <2>1 DEF PollEffect
  <2>3. ASSUME NEW i \in Jobs, Active(i)', jobs'[i].msg = m
        PROVE  i = j
    BY <1>3, <1>8, <2>1, <2>3 DEF ExclusiveInv, HolderInv
  <2> QED
    BY <1>8, <2>1, <2>2, <2>3 DEF ExclusiveInv, HolderInv, InQueue
<1> QED
  BY <1>3, <1>4, <1>7, <1>8

LEMMA HolderStep == ExclusiveInv /\ [Next]_vars => ExclusiveInv'
<1> SUFFICES ASSUME ExclusiveInv, [Next]_vars, ~Poll PROVE HolderInv'
  BY TypeStep, NumberedStep, HolderPoll DEF ExclusiveInv
<1>1. TypeOK /\ Numbered /\ HolderInv
  BY DEF ExclusiveInv
<1>2. \A i \in Jobs : Active(i)' => Active(i) /\ jobs'[i].msg = jobs[i].msg
  BY <1>1, JobStep
<1> SUFFICES ASSUME NEW j \in Jobs, Active(j)', history'[jobs'[j].msg].early = 0
             PROVE  /\ rows'[jobs'[j].msg].loc = "queue" => rows'[jobs'[j].msg].hidden
                    /\ \A i \in Jobs : Active(i)' /\ jobs'[i].msg = jobs'[j].msg => i = j
  BY DEF HolderInv, InQueue
<1> DEFINE m == jobs[j].msg
<1>3. Active(j) /\ m \in MsgIds /\ jobs'[j].msg = m
  BY <1>1, <1>2 DEF TypeOK
<1>4. history[m].early = 0
  <2>1. history[m].early \in Nat /\ history'[m].early >= history[m].early
    BY <1>1, <1>3, HistoryGrows DEF TypeOK, History
  <2> QED
    BY <1>3, <2>1
<1>5. InQueue(m) => rows[m].hidden
  BY <1>1, <1>3, <1>4 DEF HolderInv
<1>6. InQueue(m)' => rows'[m].hidden
  BY <1>1, <1>3, <1>5, HiddenStep
<1>7. \A i \in Jobs : Active(i)' /\ jobs'[i].msg = m => i = j
  BY <1>1, <1>2, <1>3, <1>4 DEF HolderInv
<1> QED
  BY <1>3, <1>6, <1>7 DEF InQueue

(* Two process_task calls work on the same message only if its vt passed   *)
(* while one of them still held it.                                        *)
THEOREM ExclusiveCorrect == Spec => []Exclusive
<1>1. Init => ExclusiveInv
  <2>1. Init => \A j \in Jobs : ~Active(j)
    BY DEF Init, IdleJob, JobAt, Active
  <2> QED
    BY <2>1, TypeInit, NumberedInit DEF ExclusiveInv, HolderInv
<1>2. ExclusiveInv => Exclusive
  <2> SUFFICES ASSUME ExclusiveInv, NEW i \in Jobs, NEW j \in Jobs, i # j, Active(i), Active(j),
                      jobs[i].msg = jobs[j].msg
               PROVE  history[jobs[i].msg].early > 0
    BY DEF Exclusive
  <2>1. history[jobs[i].msg].early \in Nat
    BY DEF ExclusiveInv, TypeOK, History
  <2>2. history[jobs[i].msg].early # 0
    BY DEF ExclusiveInv, HolderInv
  <2> QED
    BY <2>1, <2>2
<1> QED
  BY <1>1, <1>2, HolderStep, PTL DEF Spec

-----------------------------------------------------------------------------
(* Polls. *)

(* ORDER BY msg_id LIMIT qty: as many as were asked for, or all when there *)
(* are fewer, and with a message all that come before it.                  *)
LEMMA BatchLimit ==
  ASSUME NEW S \in SUBSET MsgIds, NEW qty \in Nat
  PROVE  /\ Batch(S, qty) \in SUBSET S
         /\ Cardinality(Batch(S, qty)) = IF qty < Cardinality(S) THEN qty ELSE Cardinality(S)
         /\ \A m \in Batch(S, qty), k \in S : Before(k, m) => k \in Batch(S, qty)
<1> DEFINE R == {p \in S \X S : Before(p[1], p[2])}
<1>1. \A k, m \in S : <<k, m>> \in R <=> Before(k, m)
  OBVIOUS
<1> HIDE DEF R
<1>2. IsFiniteSet(S) /\ \A m \in S : m \in Nat
  <2>1. IsFiniteSet(MsgIds) /\ MsgIds \subseteq Nat
    BY CountsAssumption, FS_Interval DEF MsgIds
  <2> QED
    BY <2>1, FS_Subset
<1>3. StrictTotal(S, R)
  BY <1>1, <1>2 DEF StrictTotal, Before
<1>4. \A m \in S : Below(S, R, m) = {k \in S : Before(k, m)}
  BY <1>1 DEF Below
<1>5. Batch(S, qty) = FirstN(S, R, qty)
  BY <1>4 DEF Batch, FirstN
<1>6. /\ FirstN(S, R, qty) \in SUBSET S
      /\ Cardinality(FirstN(S, R, qty)) = IF qty < Cardinality(S) THEN qty ELSE Cardinality(S)
      /\ \A m \in FirstN(S, R, qty), k \in S : <<k, m>> \in R => k \in FirstN(S, R, qty)
  BY <1>2, <1>3, LimitCorrect
<1>7. Batch(S, qty) \in SUBSET S
  BY <1>5, <1>6
<1> QED
  BY <1>1, <1>5, <1>6, <1>7

(* The step of PollsInOrder *)
InOrderStep ==
  \A m \in MsgIds : \A k \in Readable \ Lockable :
    HandedOut(m) /\ Before(k, m) => HandedOut(k)

LEMMA PollKeepsOrder == TypeOK /\ Poll => InOrderStep
<1> SUFFICES ASSUME TypeOK, Poll, NEW m \in MsgIds, NEW k \in Readable \ Lockable,
                    HandedOut(m), Before(k, m)
             PROVE  HandedOut(k)
  BY DEF InOrderStep
<1>0. PICK worker \in Workers :
      \E locked \in SUBSET Lockable, qty \in 1..Cardinality(Idle \cap worker) :
        LET batch == Batch(Readable \ locked, qty)
            free == Idle \cap worker
        IN /\ batch # {}
           /\ \E task \in [free -> batch \cup {NoId}] :
                /\ \A i \in batch : \E j \in free : task[j] = i
                /\ \A i, j \in free : task[i] = task[j] /\ i # j => task[i] = NoId
                /\ jobs' = [j \in Jobs |-> IF j \in free /\ task[j] # NoId
                                           THEN NewJob(task[j]) ELSE jobs[j]]
           /\ rows' = [i \in MsgIds |-> IF i \in batch
                                        THEN ReadRow(rows[i]) ELSE rows[i]]
           /\ UNCHANGED <<lastMsg, dlq, calls, faults, history>>
  BY Zenon DEF Poll
<1>1. PICK locked \in SUBSET Lockable, qty \in 1..Cardinality(Idle \cap worker) :
        LET batch == Batch(Readable \ locked, qty)
            free == Idle \cap worker
        IN /\ batch # {}
           /\ \E task \in [free -> batch \cup {NoId}] :
                /\ \A i \in batch : \E j \in free : task[j] = i
                /\ \A i, j \in free : task[i] = task[j] /\ i # j => task[i] = NoId
                /\ jobs' = [j \in Jobs |-> IF j \in free /\ task[j] # NoId
                                           THEN NewJob(task[j]) ELSE jobs[j]]
           /\ rows' = [i \in MsgIds |-> IF i \in batch
                                        THEN ReadRow(rows[i]) ELSE rows[i]]
           /\ UNCHANGED <<lastMsg, dlq, calls, faults, history>>
  BY Zenon, <1>0
<1> DEFINE free == Idle \cap worker
<1> DEFINE batch == Batch(Readable \ locked, qty)
<1>2. /\ \E task \in [free -> batch \cup {NoId}] :
           /\ \A n \in batch : \E j \in free : task[j] = n
           /\ \A i, j \in free : task[i] = task[j] /\ i # j => task[i] = NoId
           /\ jobs' = [j \in Jobs |-> IF j \in free /\ task[j] # NoId
                                      THEN NewJob(task[j]) ELSE jobs[j]]
      /\ rows' = [n \in MsgIds |-> IF n \in batch
                                   THEN ReadRow(rows[n]) ELSE rows[n]]
      /\ UNCHANGED <<lastMsg, dlq, calls, faults, history>>
  BY Zenon, <1>1
<1>10. PICK task \in [free -> batch \cup {NoId}] :
        /\ \A i \in batch : \E j \in free : task[j] = i
        /\ jobs' = [j \in Jobs |-> IF j \in free /\ task[j] # NoId
                                   THEN NewJob(task[j]) ELSE jobs[j]]
  BY <1>2
<1>3. qty \in Nat /\ Readable \ locked \in SUBSET MsgIds /\ k \in Readable \ locked
  BY DEF Readable
<1>4. batch \in SUBSET MsgIds /\ (m \in batch => k \in batch)
  BY <1>3, BatchLimit
<1> HIDE DEF batch
<1>5. \A j \in Jobs : jobs'[j] = IF j \in free /\ task[j] # NoId
                                THEN NewJob(task[j]) ELSE jobs[j]
  BY <1>10
<1>6. \A i \in MsgIds : NewJob(i).msg = i /\ NewJob(i).pc # "idle" /\ i # NoId
  BY CountsAssumption DEF NewJob, JobAt, FirstStep, MsgIds
<1>7. m \in batch
  <2>1. PICK j \in Idle : jobs'[j].pc # "idle" /\ jobs'[j].msg = m
    BY DEF HandedOut, Active
  <2>2. j \in Jobs /\ jobs[j].pc = "idle"
    BY DEF Idle, Active
  <2>3. task[j] # NoId /\ task[j] \in batch /\ jobs'[j] = NewJob(task[j])
    BY <1>10, <1>5, <2>1, <2>2
  <2> QED
    BY <1>4, <1>6, <2>1, <2>3
<1>8. PICK j \in free : task[j] = k
  BY <1>10, <1>4, <1>7
<1>9. jobs'[j] = NewJob(k) /\ k \in MsgIds /\ j \in Jobs
  BY <1>4, <1>5, <1>6, <1>7, <1>8 DEF Idle
<1> QED
  BY <1>6, <1>8, <1>9 DEF HandedOut, Active

(* The order of the queue, lifo or not: read_with_poll passes over no      *)
(* message but one whose row a statement of a job has locked.              *)
THEOREM PollsInOrderCorrect == Spec => PollsInOrder
<1>1. TypeOK /\ [Next]_vars => InOrderStep
  <2> SUFFICES ASSUME TypeOK, [Next]_vars, ~Poll PROVE InOrderStep
    BY PollKeepsOrder
  <2>1. \A j \in Jobs : Active(j)' => Active(j)
    BY JobStep
  <2> QED
    BY <2>1 DEF InOrderStep, HandedOut, Idle
<1>2. PollsInOrder <=> [][InOrderStep]_vars
  BY DEF PollsInOrder, InOrderStep
<1> QED
  BY <1>1, <1>2, TypeInit, TypeStep, PTL DEF Spec

-----------------------------------------------------------------------------
(* The refinement. *)

(* The ledger as the tables and the history show it.                       *)
State == [m \in MsgIds |-> LedgerState(rows[m])]
Succeeded == {m \in MsgIds : history[m].ok}
Failed == {m \in MsgIds : history[m].fails > 0}
Dead == {m \in MsgIds : Lettered(m)}

(* Only a queue with a DLQ sends dead letters. *)
LetterSteps == {"payload", "send dlq", "set dlq"}
LetterInv == \A j \in Jobs : jobs[j].pc \in LetterSteps => HasDlq

LEMMA LetterInit == Init => LetterInv
<1>1. Init => \A j \in Jobs : jobs[j].pc = "idle"
  BY DEF Init, IdleJob, JobAt
<1> QED
  BY <1>1 DEF LetterInv, LetterSteps

LEMMA LetterStep ==
  ASSUME TypeOK, LetterInv, [Next]_vars
  PROVE  LetterInv'
<1> SUFFICES ASSUME NEW j \in Jobs, jobs'[j].pc \in LetterSteps
             PROVE  HasDlq
  BY DEF LetterInv
<1>1. CASE jobs'[j] = jobs[j]
  BY <1>1 DEF LetterInv
<1>2. CASE Poll
  <2>1. PICK batch \in SUBSET Readable :
          \E task \in [Idle -> batch \cup {NoId}] : PollEffect(batch, task)
    BY <1>2, PollIsEffect
  <2>2. PICK task \in [Idle -> batch \cup {NoId}] : PollEffect(batch, task)
    BY <2>1
  <2>3. jobs'[j] = jobs[j] \/ jobs'[j] = NewJob(task[j])
    BY <2>2 DEF PollEffect
  <2>4. NewJob(task[j]).pc \notin LetterSteps
    BY DEF NewJob, JobAt, FirstStep, LetterSteps
  <2> QED
    BY <1>1, <2>3, <2>4
<1>3. ASSUME NEW i \in Jobs, ProcessTask(i) \/ Crash(i) \/ CompleteRaises(i)
      PROVE  HasDlq
  <2>1. CASE i # j
    BY <1>1, <1>3, <2>1, OtherJobs
  <2>2. CASE i = j
    <3>1. ASSUME NEW step, GoTo(j, step) PROVE jobs'[j].pc = step
      BY <3>1 DEF GoTo, TypeOK, Job
    <3>2. ASSUME Finish(j) PROVE FALSE
      BY <3>2 DEF Finish, IdleJob, JobAt, TypeOK, LetterSteps
    <3>3. ASSUME Catch(j) PROVE FALSE
      <4>1. PICK retry : jobs' = [jobs EXCEPT ![j] = JobAt("read errors", jobs[j].msg, retry)]
        BY <3>3 DEF Catch
      <4>2. jobs'[j].pc = "read errors"
        BY <4>1 DEF JobAt, TypeOK
      <4> QED
        BY <4>2 DEF LetterSteps
    <3>4. ASSUME NEW status, Removing(j, status) PROVE FALSE
      BY <3>4 DEF Removing, RemoveStep, TypeOK, Job, LetterSteps
    <3>5. CASE WriteErrors(j) \/ Payload(j) \/ SendDlq(j)
      <4>1. CASE WriteErrors(j)
        BY <3>1, <3>2, <3>4, <4>1 DEF WriteErrors, AfterErrors, LetterSteps
      <4>2. CASE Payload(j) \/ SendDlq(j)
        BY <4>2 DEF Payload, SendDlq, At, LetterInv, LetterSteps
      <4> QED
        BY <3>5, <4>1, <4>2
    <3>6. CASE ReadErrors(j)
      BY <3>6 DEF ReadErrors, TypeOK, Job, LetterSteps
    <3> QED
      BY <1>3, <2>2, <3>1, <3>2, <3>3, <3>4, <3>5, <3>6 DEF ProcessTask, CheckLimit, Start,
         Succeed, Raise, Fail, RetryStatus, RetryVt, SetDlq, RemoveStatus, Remove, Crash,
         CompleteRaises, LetterSteps
  <2> QED
    BY <2>1, <2>2
<1>4. ASSUME NEW worker \in Workers, Die(worker)
      PROVE  HasDlq
  BY <1>1, <1>4, DieEffect DEF LetterSteps
<1> QED
  BY <1>1, <1>2, <1>3, <1>4 DEF Next, vars, Enqueue, PollEmpty, Expire, Reschedule,
     RescheduleRead, RescheduleCommit, RescheduleAbort

-----------------------------------------------------------------------------
(* What the statements do to the ledger.                                   *)

LEMMA OneTask ==
  ASSUME NEW t \in MsgIds
  PROVE  /\ Ledger!Succeed(t) => Ledger!Next
         /\ Ledger!Fail(t) => Ledger!Next
         /\ Ledger!DeadLetter(t) => Ledger!Next
         /\ Ledger!Settle(t) => Ledger!Next
         /\ Ledger!SettleUnanswered(t) => Ledger!Next
BY DEF Ledger!Next

(* A row that stays where it is: its task stays in its state.              *)
LEMMA UpdateKeepsState ==
  ASSUME TypeOK, NEW m \in MsgIds, NEW row, row.loc = rows[m].loc,
         rows' = rows \/ rows' = UpdateRow(m, row)
  PROVE  State' = State
<1>1. \A k \in MsgIds : rows'[k].loc = rows[k].loc
  BY DEF TypeOK, UpdateRow
<1> QED
  BY <1>1 DEF State, LedgerState

LEMMA SetStatusKeepsState ==
  ASSUME TypeOK, NEW m \in MsgIds, NEW status, rows' = SetStatus(m, status)
  PROVE  State' = State
<1>1. [rows[m] EXCEPT !.status = status].loc = rows[m].loc
  BY DEF TypeOK, Row
<1> QED
  BY <1>1, UpdateKeepsState DEF SetStatus

LEMMA InsertSubmits ==
  ASSUME TypeOK, Numbered, NEW orig, lastMsg < MaxMsgs, Insert(lastMsg + 1, orig),
         UNCHANGED history, Dead' = Dead
  PROVE  \E t \in MsgIds : Ledger!Submit(t)
<1>1. PICK t \in MsgIds : t = lastMsg + 1
  BY CountsAssumption DEF TypeOK, MsgIds
<1>2. t > lastMsg /\ rows[t].loc = "unsent"
  BY <1>1, CountsAssumption DEF TypeOK, Numbered
<1>3. rows' = [rows EXCEPT ![t] = NewRow("queue", orig)]
  BY <1>1 DEF Insert
<1>4. LedgerState(NewRow("queue", orig)) = "waiting"
  BY DEF LedgerState, NewRow
<1>5. State[t] = "absent" /\ State' = [State EXCEPT ![t] = "waiting"]
  BY <1>2, <1>3, <1>4 DEF State, LedgerState, TypeOK
<1> QED
  BY <1>5 DEF Ledger!Submit, State, Dead, Lettered

(* Archived: the message is settled, unless it had left before.            *)
LEMMA ArchivedSettles ==
  ASSUME TypeOK, NEW m \in MsgIds, rows' = Archived(m)
  PROVE  \/ State' = State
         \/ State[m] = "waiting" /\ State' = [State EXCEPT ![m] = "settled"]
<1>1. CASE ~InQueue(m)
  BY <1>1 DEF Archived, UpdateRow, State
<1>2. CASE InQueue(m)
  <2>1. PICK loc \in {"archive", "deleted"} :
          rows' = [rows EXCEPT ![m] = [rows[m] EXCEPT !.loc = loc]]
    BY <1>2 DEF Archived, UpdateRow
  <2>2. rows'[m].loc = loc /\ \A k \in MsgIds \ {m} : rows'[k] = rows[k]
    BY <2>1 DEF TypeOK, Row
  <2>3. LedgerState(rows'[m]) = "settled" /\ LedgerState(rows[m]) = "waiting"
    BY <1>2, <2>2 DEF LedgerState, InQueue
  <2>4. State' = [k \in MsgIds |-> LedgerState(rows'[k])]
    BY DEF State
  <2> QED
    BY <2>2, <2>3, <2>4 DEF State
<1> QED
  BY <1>1, <1>2

(* A call of fail: one more task has failed. *)
LEMMA CatchFails ==
  ASSUME TypeOK, NEW j \in Jobs, Active(j), Catch(j)
  PROVE  /\ Failed' = Failed \cup {jobs[j].msg} /\ Succeeded' = Succeeded
<1>1. PICK m \in MsgIds : m = jobs[j].msg
  BY DEF TypeOK
<1>2. history[m] \in History /\ history[m].fails \in Nat
  BY DEF TypeOK, History
<1>3. history' = [history EXCEPT ![m] = [history[m] EXCEPT !.fails = history[m].fails + 1]]
  BY <1>1 DEF Catch
<1>4. /\ history'[m].fails > 0 /\ history'[m].ok = history[m].ok
      /\ \A k \in MsgIds \ {m} : history'[k] = history[k]
  BY <1>2, <1>3 DEF TypeOK, History
<1> QED
  BY <1>1, <1>4 DEF Failed, Succeeded

LEMMA KnownTask ==
  ASSUME TypeOK, Numbered, NEW j \in Jobs, Active(j)
  PROVE  jobs[j].msg \in MsgIds /\ State[jobs[j].msg] # "absent"
BY DEF TypeOK, Numbered, State, LedgerState, MsgIds

LEMMA DeadKept ==
  ASSUME dlq' = dlq
  PROVE  Dead' = Dead
BY DEF Dead, Lettered, About

(* Every statement of a job is a step of the ledger, or none.              *)
LEMMA JobRefines ==
  ASSUME CauseInv, LetterInv, NEW j \in Jobs, NEW m \in MsgIds, m = jobs[j].msg,
         ProcessTask(j) \/ Crash(j) \/ CompleteRaises(j)
  PROVE  [Ledger!Next]_(Ledger!ledger)
<1>1. TypeOK /\ Numbered /\ JobCause(j)
  BY DEF CauseInv
<1>2. Active(j)
  BY DEF ProcessTask, CheckLimit, Start, Succeed, Raise, Fail, ReadErrors, WriteErrors,
     RetryStatus, RetryVt, Payload, SendDlq, SetDlq, RemoveStatus, Remove, Crash,
     CompleteRaises, At, Active
<1>3. State[m] # "absent" /\ rows[m] \in Row
  BY <1>1, <1>2, KnownTask DEF TypeOK
<1>4. ASSUME State' = State, Succeeded' = Succeeded, Failed' = Failed, Dead' = Dead
      PROVE  UNCHANGED Ledger!ledger
  BY <1>4 DEF Ledger!ledger, State, Succeeded, Failed, Dead, Lettered
<1>5. ASSUME history' = history
      PROVE  Succeeded' = Succeeded /\ Failed' = Failed
  BY <1>5 DEF Succeeded, Failed
<1>6. ASSUME State' = State, UNCHANGED <<dlq, history>>
      PROVE  UNCHANGED Ledger!ledger
  BY <1>4, <1>5, <1>6, DeadKept
<1>7. CASE CheckLimit(j) \/ ReadErrors(j) \/ Payload(j) \/ Crash(j)
  <2>1. State' = State /\ UNCHANGED <<dlq, history>>
    BY <1>7 DEF CheckLimit, ReadErrors, Payload, Crash, State
  <2> QED
    BY <1>6, <2>1
<1>8. CASE Start(j)
  <2>1. State' = State /\ dlq' = dlq
    BY <1>1, <1>3, <1>8, SetStatusKeepsState DEF Start
  <2>2. history[m] \in History
    BY <1>1, <1>3 DEF TypeOK
  <2>3. Succeeded' = Succeeded /\ Failed' = Failed
    BY <1>1, <1>3, <1>8, <2>2 DEF Start, Succeeded, Failed, TypeOK, History
  <2> QED
    BY <1>4, <2>1, <2>3, DeadKept
<1>9. CASE Succeed(j)
  <2>1. State' = State /\ Dead' = Dead
    BY <1>9, DeadKept DEF Succeed, State
  <2>2. history[m] \in History
    BY <1>1, <1>3 DEF TypeOK
  <2>3. Succeeded' = Succeeded \cup {m} /\ Failed' = Failed
    BY <1>1, <1>3, <1>9, <2>2 DEF Succeed, Succeeded, Failed, TypeOK, History
  <2>4. Ledger!Succeed(m)
    BY <1>3, <2>1, <2>3 DEF Ledger!Succeed, Ledger!Known, State, Succeeded, Failed, Dead, Lettered
  <2> QED
    BY <1>3, <2>4, OneTask
<1>10. CASE Raise(j)
  <2>1. State' = State /\ Dead' = Dead
    BY <1>10, DeadKept DEF Raise, State
  <2>2. Failed' = Failed \cup {m} /\ Succeeded' = Succeeded
    BY <1>1, <1>2, <1>10, CatchFails DEF Raise
  <2>3. Ledger!Fail(m)
    BY <1>3, <2>1, <2>2 DEF Ledger!Fail, Ledger!Known, State, Succeeded, Failed, Dead, Lettered
  <2> QED
    BY <1>3, <2>3, OneTask
<1>11. CASE WriteErrors(j) \/ RetryVt(j) \/ SetDlq(j)
  <2>1. \E row : row.loc = rows[m].loc /\ rows' = UpdateRow(m, row)
    <3>1. CASE WriteErrors(j)
      <4>1. [rows[m] EXCEPT !.errs = jobs[j].errs].loc = rows[m].loc
        BY <1>3 DEF Row
      <4> QED
        BY <3>1, <4>1 DEF WriteErrors
    <3>2. CASE RetryVt(j)
      <4>1. [rows[m] EXCEPT !.hidden = TRUE].loc = rows[m].loc
        BY <1>3 DEF Row
      <4> QED
        BY <3>2, <4>1 DEF RetryVt
    <3>3. CASE SetDlq(j)
      <4>1. [rows[m] EXCEPT !.dlq = jobs[j].dlq].loc = rows[m].loc
        BY <1>3 DEF Row
      <4> QED
        BY <3>3, <4>1 DEF SetDlq
    <3> QED
      BY <1>11, <3>1, <3>2, <3>3
  <2>2. UNCHANGED <<dlq, history>>
    BY <1>11 DEF WriteErrors, RetryVt, SetDlq
  <2> QED
    BY <1>1, <1>3, <1>6, <2>1, <2>2, UpdateKeepsState
<1>12. CASE RetryStatus(j) \/ RemoveStatus(j)
  <2>1. \E status : rows' = SetStatus(m, status)
    BY <1>12 DEF RetryStatus, RemoveStatus
  <2>2. UNCHANGED <<dlq, history>>
    BY <1>12 DEF RetryStatus, RemoveStatus
  <2> QED
    BY <1>1, <1>3, <1>6, <2>1, <2>2, SetStatusKeepsState
<1>13. CASE SendDlq(j)
  <2>1. State' = State /\ Succeeded' = Succeeded /\ Failed' = Failed
    BY <1>5, <1>13 DEF SendDlq, State
  <2>2. HasDlq /\ m \in Failed
    BY <1>1, <1>3, <1>13 DEF SendDlq, JobCause, Failed, FailSteps, LetterInv, LetterSteps, At
  <2>3. Dead' = Dead \cup {m}
    <3>1. PICK letter : letter.orig = m /\ dlq' = Append(dlq, letter)
      BY <1>13 DEF SendDlq
    <3>2. dlq \in Seq(DlqRow) /\ Len(dlq) \in Nat /\ DOMAIN dlq = 1..Len(dlq)
      BY <1>1, LenProperties DEF TypeOK
    <3>3. /\ DOMAIN dlq' = 1..(Len(dlq) + 1) /\ dlq'[Len(dlq) + 1] = letter
          /\ \A d \in DOMAIN dlq : dlq'[d] = dlq[d]
      BY <3>1, <3>2
    <3>4. DOMAIN dlq' = DOMAIN dlq \cup {Len(dlq) + 1}
      BY <3>2, <3>3
    <3>5. ASSUME NEW k \in MsgIds
          PROVE  (\E d \in DOMAIN dlq' : dlq'[d].orig = k) <=> k = m \/ Lettered(k)
      BY <3>1, <3>3, <3>4 DEF Lettered, About
    <3> QED
      BY <1>3, <3>5 DEF Dead, Lettered, About
  <2>4. Ledger!DeadLetter(m)
    BY <2>1, <2>2, <2>3 DEF Ledger!DeadLetter, State, Succeeded, Failed, Dead, Lettered
  <2> QED
    BY <1>3, <2>4, OneTask
<1>14. CASE Remove(j)
  <2>1. Succeeded' = Succeeded /\ Failed' = Failed /\ Dead' = Dead
    BY <1>5, <1>14, DeadKept DEF Remove
  <2>2. m \in Succeeded \/ m \in (IF HasDlq THEN Dead ELSE Failed)
    <3>1. RemoveCause(m, jobs[j].status)
      BY <1>1, <1>14 DEF Remove, JobCause, RemoveSteps, At
    <3> QED
      BY <1>3, <3>1 DEF RemoveCause, Succeeded, Failed, Dead
  <2>3. CASE State[m] = "waiting" /\ State' = [State EXCEPT ![m] = "settled"]
    <3>1. Ledger!Settle(m)
      BY <2>1, <2>2, <2>3 DEF Ledger!Settle, Ledger!Cause, State, Succeeded, Failed, Dead, Lettered
    <3> QED
      BY <1>3, <3>1, OneTask
  <2>4. CASE State' = State
    BY <1>4, <2>1, <2>4
  <2> QED
    BY <1>1, <1>3, <1>14, <2>3, <2>4, ArchivedSettles DEF Remove
<1>15. CASE CompleteRaises(j)
  <2>1. Failed' = Failed \cup {m} /\ Succeeded' = Succeeded /\ Dead' = Dead
    BY <1>1, <1>2, <1>15, CatchFails, DeadKept DEF CompleteRaises
  <2>2. m \in Succeeded
    BY <1>1, <1>3, <1>15 DEF CompleteRaises, JobCause, RemoveSteps, RemoveCause, Succeeded
  <2>3. \/ rows' = rows \/ rows' = SetStatus(m, "completed")
        \/ rows' = Archived(m)
    BY <1>15 DEF CompleteRaises
  <2>4. CASE State' = State
    <3>1. Ledger!Fail(m)
      BY <1>3, <2>1, <2>4 DEF Ledger!Fail, Ledger!Known, State, Succeeded, Failed, Dead, Lettered
    <3> QED
      BY <1>3, <3>1, OneTask
  <2>5. CASE State[m] = "waiting" /\ State' = [State EXCEPT ![m] = "settled"]
    <3>1. Ledger!SettleUnanswered(m)
      BY <2>1, <2>2, <2>5 DEF Ledger!SettleUnanswered, State, Succeeded, Failed, Dead, Lettered
    <3> QED
      BY <1>3, <3>1, OneTask
  <2>6. rows' = rows => State' = State
    BY DEF State
  <2> QED
    BY <1>1, <1>3, <2>3, <2>4, <2>5, <2>6, SetStatusKeepsState, ArchivedSettles
<1> QED
  BY <1>7, <1>8, <1>9, <1>10, <1>11, <1>12, <1>13, <1>14, <1>15 DEF ProcessTask, Fail

(* So is every other step: only an insert submits a task.                  *)
LEMMA LedgerStep ==
  ASSUME CauseInv, LetterInv, [Next]_vars
  PROVE  [Ledger!Next]_(Ledger!ledger)
<1>1. TypeOK /\ Numbered
  BY DEF CauseInv
<1>2. ASSUME State' = State, Dead' = Dead, UNCHANGED history
      PROVE  UNCHANGED Ledger!ledger
  BY <1>2 DEF Ledger!ledger, State, Dead, Lettered
<1>3. CASE Enqueue
  <2>1. \E t \in MsgIds : Ledger!Submit(t)
    BY <1>1, <1>3, InsertSubmits, DeadKept DEF Enqueue
  <2> QED
    BY <2>1 DEF Ledger!Next
<1>4. ASSUME NEW c \in Callers, RescheduleCommit(c)
      PROVE  Ledger!Next
  <2>1. DOMAIN dlq' = DOMAIN dlq /\ \A d \in DOMAIN dlq : dlq'[d].orig = dlq[d].orig
    <3>1. DOMAIN dlq' = DOMAIN dlq
      BY <1>4 DEF RescheduleCommit
    <3> QED
      BY <1>1, <3>1, DlqGrows
  <2>2. Dead' = Dead
    BY <2>1 DEF Dead, Lettered, About
  <2>3. \E t \in MsgIds : Ledger!Submit(t)
    BY <1>1, <1>4, <2>2, InsertSubmits DEF RescheduleCommit
  <2> QED
    BY <2>3 DEF Ledger!Next
<1>5. CASE Poll
  <2>1. PICK batch \in SUBSET Readable :
          \E task \in [Idle -> batch \cup {NoId}] : PollEffect(batch, task)
    BY <1>5, PollIsEffect
  <2>2. PICK task \in [Idle -> batch \cup {NoId}] : PollEffect(batch, task)
    BY <2>1
  <2>3. \A m \in MsgIds : rows'[m].loc = rows[m].loc
    <3>1. \A m \in MsgIds : ReadRow(rows[m]).loc = rows[m].loc
      BY <1>1 DEF TypeOK, Row, ReadRow
    <3> QED
      BY <2>2, <3>1 DEF PollEffect
  <2>4. State' = State
    BY <2>3 DEF State, LedgerState
  <2> QED
    BY <1>2, <2>2, <2>4, DeadKept DEF PollEffect
<1>6. ASSUME NEW m \in MsgIds, Expire(m)
      PROVE  UNCHANGED Ledger!ledger
  <2>1. \A k \in MsgIds : rows'[k].loc = rows[k].loc
    BY <1>1, <1>6 DEF Expire, TypeOK, Row
  <2>2. State' = State /\ Dead' = Dead
    BY <1>6, <2>1, DeadKept DEF Expire, State, LedgerState
  <2>3. \A k \in MsgIds : history'[k].ok = history[k].ok /\ history'[k].fails = history[k].fails
    <3>1. history \in [MsgIds -> History]
      BY <1>1 DEF TypeOK
    <3>2. history' = history \/ \E n : history' = [history EXCEPT ![m].early = n]
      BY <1>6 DEF Expire
    <3> QED
      BY <3>1, <3>2 DEF History
  <2>4. Succeeded' = Succeeded /\ Failed' = Failed
    BY <2>3 DEF Succeeded, Failed
  <2> QED
    BY <2>2, <2>4 DEF Ledger!ledger, State, Succeeded, Failed, Dead, Lettered
<1>7. ASSUME NEW j \in Jobs, ProcessTask(j) \/ Crash(j) \/ CompleteRaises(j)
      PROVE  [Ledger!Next]_(Ledger!ledger)
  <2>1. Active(j)
    BY <1>7 DEF ProcessTask, CheckLimit, Start, Succeed, Raise, Fail, ReadErrors, WriteErrors,
       RetryStatus, RetryVt, Payload, SendDlq, SetDlq, RemoveStatus, Remove, Crash,
       CompleteRaises, At, Active
  <2>2. PICK m \in MsgIds : m = jobs[j].msg
    BY <1>1, <2>1 DEF TypeOK
  <2> QED
    BY <1>7, <2>2, JobRefines
<1>8. CASE UNCHANGED <<rows, dlq, history>>
  <2>1. State' = State /\ Dead' = Dead
    BY <1>8, DeadKept DEF State
  <2> QED
    BY <1>2, <1>8, <2>1
<1> QED
  BY <1>3, <1>4, <1>5, <1>6, <1>7, <1>8 DEF Next, vars, PollEmpty, Die, Reschedule,
     RescheduleRead, RescheduleAbort

LEMMA LedgerInit == Init => Ledger!Init
<1> SUFFICES ASSUME Init PROVE Ledger!Init
  OBVIOUS
<1>1. \A m \in MsgIds : LedgerState(rows[m]) = "absent"
  BY DEF Init, NewRow, LedgerState
<1>2. \A m \in MsgIds : history[m].ok = FALSE /\ history[m].fails = 0
  BY DEF Init, NoHistory
<1>3. DOMAIN dlq = {}
  <2>1. DOMAIN << >> = {}
    OBVIOUS
  <2> QED
    BY <2>1 DEF Init
<1> QED
  BY <1>1, <1>2, <1>3 DEF Ledger!Init, About

(* The tables, with all that process_task, fail, _remove and reschedule do *)
(* to them in whatever order and however interrupted, keep the ledger of   *)
(* tasks: each is settled once, for good, and not without a cause.         *)
THEOREM LedgerCorrect == Spec => LedgerSpec
<1>1. Init => CauseInv /\ LetterInv
  BY CauseInit, LetterInit
<1>2. CauseInv /\ LetterInv /\ [Next]_vars => (CauseInv /\ LetterInv)'
  BY CauseStep, LetterStep DEF CauseInv
<1>3. CauseInv /\ LetterInv /\ [Next]_vars => [Ledger!Next]_(Ledger!ledger)
  BY LedgerStep
<1> QED
  BY <1>1, <1>2, <1>3, LedgerInit, PTL DEF Spec, LedgerSpec, Ledger!Spec
=============================================================================
