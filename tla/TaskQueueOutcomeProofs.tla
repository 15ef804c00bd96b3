----------------------- MODULE TaskQueueOutcomeProofs -----------------------
(***************************************************************************)
(* What the headers and the outcome of a message tell, for every value of  *)
(* the constants: references, status, errors, DLQ messages and starts.     *)
(***************************************************************************)
EXTENDS TaskQueueProofs, FiniteSetTheorems

USE DEF NoId

-----------------------------------------------------------------------------
(* References of rescheduled messages.                                     *)

(* No statement of a job, no poll and no expiry changes the orig header.   *)
LEMMA OrigStep ==
  ASSUME TypeOK, Numbered, [Next]_vars, NEW m \in MsgIds
  PROVE  \/ rows'[m].orig = rows[m].orig
         \/ /\ m = lastMsg + 1 /\ lastMsg' = m
            /\ \E orig \in Nat : rows'[m] = NewRow("queue", orig)
<1>1. rows[m] \in Row
  BY DEF TypeOK
<1>2. ASSUME NEW h \in BOOLEAN, rows'[m] = [rows[m] EXCEPT !.hidden = h]
      PROVE  rows'[m].orig = rows[m].orig
  BY <1>1, <1>2 DEF Row
<1>3. ASSUME NEW j \in Jobs, jobs[j].msg = m, Changed(j, rows'[m])
      PROVE  rows'[m].orig = rows[m].orig
  BY <1>1, <1>3 DEF Row, Changed
<1> QED
  BY <1>2, <1>3, RowStep

(* A step that is not an insert keeps the orig header of every message.    *)
LEMMA OrigKept ==
  ASSUME TypeOK, Numbered, [Next]_vars, NEW m \in MsgIds, m # lastMsg + 1 \/ lastMsg' = lastMsg
  PROVE  rows'[m].orig = rows[m].orig
<1>1. lastMsg \in Nat
  BY CountsAssumption DEF TypeOK
<1> QED
  BY <1>1, OrigStep

LEMMA ReferenceInit == Init => ReferenceInv
<1> SUFFICES ASSUME Init PROVE ReferenceInv
  OBVIOUS
<1>1. \A m \in MsgIds : rows[m].orig = NoId
  BY DEF Init, NewRow
<1>2. DOMAIN dlq = {}
  <2>1. DOMAIN << >> = {}
    OBVIOUS
  <2> QED
    BY <2>1 DEF Init
<1> QED
  BY <1>1, <1>2, TypeInit, NumberedInit DEF ReferenceInv, RescheduleReference

LEMMA CallerHolds ==
  ASSUME TypeOK, NEW c \in Callers, RescheduleCommit(c)
  PROVE  calls[c] \in DOMAIN dlq
<1>1. calls[c] \in 0..Len(dlq) /\ Len(dlq) \in Nat /\ DOMAIN dlq = 1..Len(dlq)
  BY LenProperties DEF TypeOK
<1>2. calls[c] # NoId
  BY DEF RescheduleCommit
<1> QED
  BY <1>1, <1>2

(* What a step does to the DLQ.                                            *)
LEMMA DlqStep ==
  ASSUME TypeOK, Numbered, [Next]_vars
  PROVE  \/ dlq' = dlq
         \/ /\ lastMsg' = lastMsg
            /\ \E j \in Jobs : \E letter \in DlqRow :
                 /\ SendDlq(j) /\ Active(j)
                 /\ letter.orig = jobs[j].msg /\ letter.retry = NoId
                 /\ dlq' = Append(dlq, letter)
         \/ \E c \in Callers : \E d \in DOMAIN dlq :
              /\ RescheduleCommit(c) /\ d = calls[c]
              /\ DOMAIN dlq' = DOMAIN dlq
              /\ \A e \in DOMAIN dlq : dlq'[e].orig = dlq[e].orig
              /\ \A e \in DOMAIN dlq \ {d} : dlq'[e] = dlq[e]
              /\ dlq'[d].retry \in {dlq[d].retry, lastMsg + 1}
<1>1. dlq \in Seq(DlqRow) /\ Len(dlq) \in Nat /\ DOMAIN dlq = 1..Len(dlq)
  BY LenProperties DEF TypeOK
<1>2. ASSUME NEW j \in Jobs, SendDlq(j)
      PROVE  /\ lastMsg' = lastMsg
             /\ \E letter \in DlqRow :
                  /\ Active(j) /\ letter.orig = jobs[j].msg /\ letter.retry = NoId
                  /\ dlq' = Append(dlq, letter)
  <2> DEFINE letter == [loc |-> "queue", orig |-> jobs[j].msg, errs |-> jobs[j].errs,
                        retry |-> NoId]
  <2>1. jobs[j].msg \in Nat /\ jobs[j].errs \in Nat /\ Active(j)
    BY <1>2 DEF TypeOK, Job, SendDlq, At, Active
  <2>2. letter \in DlqRow
    BY <2>1 DEF DlqRow
  <2> QED
    BY <1>2, <2>1, <2>2 DEF SendDlq
<1>3. ASSUME NEW c \in Callers, RescheduleCommit(c)
      PROVE  \E d \in DOMAIN dlq :
               /\ d = calls[c]
               /\ DOMAIN dlq' = DOMAIN dlq
               /\ \A e \in DOMAIN dlq : dlq'[e].orig = dlq[e].orig
               /\ \A e \in DOMAIN dlq \ {d} : dlq'[e] = dlq[e]
               /\ dlq'[d].retry \in {dlq[d].retry, lastMsg + 1}
  <2>1. PICK d \in DOMAIN dlq : d = calls[c]
    BY <1>3, CallerHolds
  <2>2. dlq[d] \in DlqRow
    BY <1>1, <2>1, ElementOfSeq
  <2>3. \/ dlq' = dlq
        \/ dlq' = [dlq EXCEPT ![d] = [dlq[d] EXCEPT !.loc = "deleted"]]
        \/ dlq' = [dlq EXCEPT ![d] = [dlq[d] EXCEPT !.loc = "archive", !.retry = lastMsg + 1]]
    BY <1>3, <2>1 DEF RescheduleCommit
  <2>4. DOMAIN dlq' = DOMAIN dlq /\ \A e \in DOMAIN dlq \ {d} : dlq'[e] = dlq[e]
    BY <2>3
  <2>5. dlq'[d].retry \in {dlq[d].retry, lastMsg + 1}
    <3>1. CASE dlq' = dlq
      BY <3>1
    <3>2. CASE dlq' = [dlq EXCEPT ![d] = [dlq[d] EXCEPT !.loc = "deleted"]]
      BY <2>1, <2>2, <3>2 DEF DlqRow
    <3>3. ASSUME NEW n, n = lastMsg + 1,
                 dlq' = [dlq EXCEPT ![d] = [dlq[d] EXCEPT !.loc = "archive", !.retry = n]]
          PROVE  dlq'[d].retry = n
      <4>1. dlq'[d] = [dlq[d] EXCEPT !.loc = "archive", !.retry = n]
        BY <2>1, <3>3
      <4> QED
        BY <2>2, <4>1 DEF DlqRow
    <3> QED
      BY <2>3, <3>1, <3>2, <3>3
  <2> QED
    BY <2>1, <2>4, <2>5, DlqGrows
<1> QED
  BY <1>2, <1>3 DEF Next, vars, Enqueue, Poll, PollEmpty, Expire, ProcessTask, CheckLimit,
     Start, Succeed, Raise, Fail, ReadErrors, WriteErrors, RetryStatus, RetryVt, Payload,
     SetDlq, RemoveStatus, Remove, Crash, Die, CompleteRaises, Reschedule, RescheduleRead,
     RescheduleAbort

LEMMA LastMsgGrows ==
  ASSUME TypeOK, [Next]_vars
  PROVE  lastMsg \in Nat /\ lastMsg' \in Nat /\ lastMsg <= lastMsg'
<1>1. lastMsg \in 0..MaxMsgs /\ (lastMsg' = lastMsg \/ lastMsg' = lastMsg + 1)
  BY RowsStep DEF TypeOK, Insert, RowUpdate
<1> QED
  BY <1>1, CountsAssumption

(* The DLQ messages refer to messages that were sent.                      *)
LEMMA DlqRefersStep ==
  ASSUME ReferenceInv, [Next]_vars, NEW d \in DOMAIN dlq'
  PROVE  /\ dlq'[d].orig \in 1..lastMsg'
         /\ dlq'[d].retry <= lastMsg'
         /\ dlq'[d].retry # NoId => /\ dlq'[d].retry \in MsgIds
                                    /\ HasArchive => rows'[dlq'[d].retry].orig = dlq'[d].orig
<1>1. TypeOK /\ Numbered
  BY DEF ReferenceInv
<1>2. dlq \in Seq(DlqRow) /\ Len(dlq) \in Nat /\ DOMAIN dlq = 1..Len(dlq)
  BY <1>1, LenProperties DEF TypeOK
<1>3. lastMsg \in Nat /\ lastMsg' \in Nat /\ lastMsg <= lastMsg'
  BY <1>1, LastMsgGrows
<1>4. ASSUME d \in DOMAIN dlq, dlq'[d].orig = dlq[d].orig, dlq'[d].retry = dlq[d].retry
      PROVE  /\ dlq'[d].orig \in 1..lastMsg' /\ dlq'[d].retry <= lastMsg'
             /\ dlq'[d].retry # NoId => /\ dlq'[d].retry \in MsgIds
                                        /\ HasArchive => rows'[dlq'[d].retry].orig = dlq'[d].orig
  <2>1. dlq[d] \in DlqRow
    BY <1>2, <1>4, ElementOfSeq
  <2>2. dlq[d].orig \in 1..lastMsg /\ dlq[d].retry <= lastMsg /\ dlq[d].retry \in Nat
    BY <1>4, <2>1 DEF ReferenceInv, DlqRow
  <2>3. ASSUME dlq[d].retry # NoId
        PROVE  /\ dlq[d].retry \in MsgIds
               /\ HasArchive => rows'[dlq[d].retry].orig = dlq[d].orig
    <3>1. PICK n \in MsgIds : n = dlq[d].retry /\ (HasArchive => rows[n].orig = dlq[d].orig)
      BY <1>4, <2>3 DEF ReferenceInv, RescheduleReference
    <3>2. rows'[n].orig = rows[n].orig
      BY <1>1, <1>3, <2>2, <3>1, OrigKept
    <3> QED
      BY <3>1, <3>2
  <2> QED
    BY <1>3, <1>4, <2>2, <2>3
<1>5. CASE dlq' = dlq
  BY <1>4, <1>5
<1>6. ASSUME NEW j \in Jobs, NEW letter \in DlqRow, Active(j), letter.orig = jobs[j].msg,
             letter.retry = NoId, dlq' = Append(dlq, letter)
      PROVE  /\ dlq'[d].orig \in 1..lastMsg' /\ dlq'[d].retry <= lastMsg'
             /\ dlq'[d].retry # NoId => /\ dlq'[d].retry \in MsgIds
                                        /\ HasArchive => rows'[dlq'[d].retry].orig = dlq'[d].orig
  <2>1. \/ d \in DOMAIN dlq /\ dlq'[d] = dlq[d]
        \/ dlq'[d] = letter
    BY <1>2, <1>6
  <2>2. letter.orig \in 1..lastMsg
    BY <1>1, <1>3, <1>6 DEF TypeOK, Numbered, MsgIds
  <2>3. CASE dlq'[d] = letter
    BY <1>3, <1>6, <2>2, <2>3
  <2> QED
    BY <1>4, <2>1, <2>3
<1>7. ASSUME NEW c \in Callers, NEW k \in DOMAIN dlq, RescheduleCommit(c), k = calls[c],
             DOMAIN dlq' = DOMAIN dlq,
             \A e \in DOMAIN dlq : dlq'[e].orig = dlq[e].orig,
             \A e \in DOMAIN dlq \ {k} : dlq'[e] = dlq[e],
             dlq'[k].retry \in {dlq[k].retry, lastMsg + 1}
      PROVE  /\ dlq'[d].orig \in 1..lastMsg' /\ dlq'[d].retry <= lastMsg'
             /\ dlq'[d].retry # NoId => /\ dlq'[d].retry \in MsgIds
                                        /\ HasArchive => rows'[dlq'[d].retry].orig = dlq'[d].orig
  <2>1. CASE dlq'[d].retry = dlq[d].retry
    BY <1>4, <1>7, <2>1
  <2>2. CASE d = k /\ dlq'[d].retry = lastMsg + 1
    <3>1. PICK n \in MsgIds : n = lastMsg + 1
      BY <1>1, <1>3, <1>7, CountsAssumption DEF RescheduleCommit, TypeOK, MsgIds
    <3>2. lastMsg' = n /\ rows'[n] = NewRow("queue", OriginalOf(k))
      BY <1>1, <1>7, <3>1 DEF RescheduleCommit, Insert, TypeOK
    <3>3. rows'[n].orig = OriginalOf(k)
      BY <3>2 DEF NewRow
    <3>4. HasArchive => rows'[n].orig = dlq[d].orig
      BY <2>2, <3>3 DEF OriginalOf
    <3>5. dlq[d].orig \in 1..lastMsg
      BY <1>7, <2>2 DEF ReferenceInv
    <3> QED
      BY <1>3, <1>7, <2>2, <3>1, <3>2, <3>4, <3>5
  <2>3. CASE d # k
    BY <1>4, <1>7, <2>3
  <2> QED
    BY <1>7, <2>1, <2>2, <2>3
<1> QED
  BY <1>1, <1>5, <1>6, <1>7, DlqStep

(* A message sent again refers to an older one that has a DLQ message.     *)
LEMMA RetriedStep ==
  ASSUME ReferenceInv, [Next]_vars, NEW m \in MsgIds, rows'[m].orig # NoId
  PROVE  /\ rows'[m].orig < m
         /\ \E d \in DOMAIN dlq' : dlq'[d].orig = rows'[m].orig
<1>1. TypeOK /\ Numbered
  BY DEF ReferenceInv
<1>2. CASE rows'[m].orig = rows[m].orig
  <2>1. PICK d \in DOMAIN dlq : dlq[d].orig = rows[m].orig
    BY <1>2 DEF ReferenceInv, RescheduleReference, About
  <2>2. rows[m].orig < m
    BY <1>2 DEF ReferenceInv, RescheduleReference
  <2> QED
    BY <1>1, <1>2, <2>1, <2>2, DlqGrows
<1>3. CASE rows'[m].orig # rows[m].orig
  <2>1. m = lastMsg + 1 /\ lastMsg' = m /\ lastMsg \in Nat
    BY <1>1, <1>3, OrigStep, LastMsgGrows
  <2>2. ASSUME Enqueue PROVE FALSE
    <3>1. rows'[m] = NewRow("queue", NoId)
      BY <1>1, <2>1, <2>2 DEF Enqueue, Insert, TypeOK
    <3> QED
      BY <3>1 DEF NewRow
  <2>3. ASSUME NEW c \in Callers, RescheduleCommit(c)
        PROVE  /\ rows'[m].orig < m
               /\ \E d \in DOMAIN dlq' : dlq'[d].orig = rows'[m].orig
    <3>1. PICK d \in DOMAIN dlq : d = calls[c]
      BY <1>1, <2>3, CallerHolds
    <3>2. rows'[m] = NewRow("queue", OriginalOf(d))
      BY <1>1, <2>1, <2>3, <3>1 DEF RescheduleCommit, Insert, TypeOK
    <3>3. rows'[m].orig = dlq[d].orig
      BY <3>2 DEF NewRow, OriginalOf
    <3>4. dlq[d].orig \in 1..lastMsg
      BY <3>1 DEF ReferenceInv
    <3> QED
      BY <1>1, <2>1, <3>1, <3>3, <3>4, DlqGrows
  <2>4. lastMsg' = lastMsg \/ Enqueue \/ \E c \in Callers : RescheduleCommit(c)
    BY DEF Next, vars, Poll, PollEmpty, Expire, ProcessTask, CheckLimit,
       Start, Succeed, Raise, Fail, ReadErrors, WriteErrors, RetryStatus, RetryVt, Payload,
       SendDlq, SetDlq, RemoveStatus, Remove, Crash, Die, CompleteRaises, Reschedule,
       RescheduleRead, RescheduleAbort
  <2> QED
    BY <2>1, <2>2, <2>3, <2>4
<1> QED
  BY <1>2, <1>3

LEMMA ReferenceStep == ReferenceInv /\ [Next]_vars => ReferenceInv'
<1> SUFFICES ASSUME ReferenceInv, [Next]_vars PROVE ReferenceInv'
  OBVIOUS
<1>1. TypeOK' /\ Numbered'
  BY TypeStep, NumberedStep DEF ReferenceInv
<1>2. \A d \in DOMAIN dlq' :
        /\ dlq'[d].orig \in 1..lastMsg' /\ dlq'[d].retry <= lastMsg'
        /\ dlq'[d].retry # NoId => /\ dlq'[d].retry \in MsgIds
                                   /\ HasArchive => rows'[dlq'[d].retry].orig = dlq'[d].orig
  BY DlqRefersStep
<1>3. \A m \in MsgIds : rows'[m].orig # NoId =>
        rows'[m].orig < m /\ \E d \in DOMAIN dlq' : dlq'[d].orig = rows'[m].orig
  BY RetriedStep
<1> QED
  BY <1>1, <1>2, <1>3 DEF ReferenceInv, RescheduleReference, About

(* A rescheduled DLQ message refers to the message it was sent again as,   *)
(* and that message to the older one that failed and was dead-lettered,    *)
(* whatever transactions of other callers commit in between.               *)
THEOREM RescheduleReferenceCorrect == Spec => []RescheduleReference
BY ReferenceInit, ReferenceStep, PTL DEF Spec, ReferenceInv

-----------------------------------------------------------------------------
(* The steps of a job, by the step it comes to.                            *)

JobMove(j) == ProcessTask(j) \/ Crash(j) \/ CompleteRaises(j)

Comes(j) ==
  \/ CheckLimit(j) /\ At(j, "count") /\ jobs'[j].pc \in {"idle", "start"}
  \/ Start(j) /\ At(j, "start") /\ jobs'[j].pc = "run"
  \/ Succeed(j) /\ At(j, "run") /\ jobs'[j].pc = RemoveStep
  \/ Raise(j) /\ At(j, "run") /\ jobs'[j].pc = "read errors"
  \/ /\ ReadErrors(j) /\ At(j, "read errors") /\ jobs'[j].pc = "write errors"
     /\ jobs'[j].errs = ErrorsOf(jobs[j].msg) + 1
  \/ /\ WriteErrors(j) /\ At(j, "write errors")
     /\ \/ jobs'[j].pc = "retry status" /\ MaxRetries > 0 /\ jobs[j].errs < MaxRetries
        \/ jobs'[j].pc = "payload"
        \/ jobs'[j].pc = RemoveStep
  \/ RetryStatus(j) /\ At(j, "retry status") /\ jobs'[j].pc = "retry vt"
  \/ RetryVt(j) /\ At(j, "retry vt") /\ jobs'[j].pc = "idle"
  \/ /\ Payload(j) /\ At(j, "payload")
     /\ jobs'[j].pc = "send dlq" \/ (jobs'[j].pc = "idle" /\ ~InQueue(jobs[j].msg))
  \/ SendDlq(j) /\ At(j, "send dlq") /\ jobs'[j].pc = "set dlq"
  \/ SetDlq(j) /\ At(j, "set dlq") /\ jobs'[j].pc = RemoveStep
  \/ RemoveStatus(j) /\ At(j, "set status") /\ jobs'[j].pc = "remove"
  \/ Remove(j) /\ At(j, "remove") /\ jobs'[j].pc = "idle"
  \/ Crash(j) /\ jobs'[j].pc = "idle"
  \/ /\ CompleteRaises(j) /\ jobs[j].pc \in RemoveSteps /\ jobs'[j].pc = "read errors"

LEMMA Moves ==
  ASSUME TypeOK, NEW j \in Jobs, JobMove(j)
  PROVE  /\ Active(j) /\ jobs[j].msg \in MsgIds
         /\ Comes(j)
         /\ Active(j)' => jobs'[j].msg = jobs[j].msg
<1>1. Active(j) /\ jobs[j].msg \in MsgIds /\ jobs[j] \in Job /\ jobs \in [Jobs -> Job]
  BY DEF JobMove, ProcessTask, CheckLimit, Start, Succeed, Raise, Fail, ReadErrors, WriteErrors,
     RetryStatus, RetryVt, Payload, SendDlq, SetDlq, RemoveStatus, Remove, Crash,
     CompleteRaises, At, Active, TypeOK
<1>2. ASSUME NEW step, GoTo(j, step)
      PROVE  jobs'[j].pc = step
  BY <1>1, <1>2 DEF GoTo, Job
<1>3. ASSUME Finish(j)
      PROVE  jobs'[j].pc = "idle"
  BY <1>1, <1>3 DEF Finish, IdleJob, JobAt
<1>4. ASSUME NEW status, Removing(j, status)
      PROVE  jobs'[j].pc = RemoveStep
  <2>1. PICK step : step = RemoveStep
    OBVIOUS
  <2>2. jobs' = [jobs EXCEPT ![j] = [jobs[j] EXCEPT !.pc = step, !.status = status]]
    BY <1>4, <2>1 DEF Removing
  <2> QED
    BY <1>1, <2>1, <2>2 DEF Job
<1>5. ASSUME Catch(j)
      PROVE  jobs'[j].pc = "read errors"
  <2>1. PICK step, retry : /\ step = "read errors"
                           /\ jobs' = [jobs EXCEPT ![j] = JobAt(step, jobs[j].msg, retry)]
    BY <1>5 DEF Catch
  <2>2. jobs'[j] = JobAt(step, jobs[j].msg, retry)
    BY <1>1, <2>1
  <2>3. jobs'[j].pc = step
    BY <2>2, JobAtMsg
  <2> QED
    BY <2>1, <2>3
<1>6. ASSUME ReadErrors(j)
      PROVE  jobs'[j].pc = "write errors" /\ jobs'[j].errs = ErrorsOf(jobs[j].msg) + 1
  <2>1. PICK n : n = ErrorsOf(jobs[j].msg) + 1
    OBVIOUS
  <2>2. jobs' = [jobs EXCEPT ![j] = [jobs[j] EXCEPT !.pc = "write errors", !.errs = n]]
    BY <1>6, <2>1 DEF ReadErrors
  <2> QED
    BY <1>1, <2>1, <2>2 DEF Job
<1>7. ASSUME SendDlq(j)
      PROVE  jobs'[j].pc = "set dlq"
  BY <1>1, <1>7 DEF SendDlq, Job
<1>8. Comes(j)
  <2>1. CASE CheckLimit(j)
    BY <1>2, <1>3, <2>1 DEF CheckLimit, Comes
  <2>2. CASE Start(j)
    BY <1>2, <2>2 DEF Start, Comes
  <2>3. CASE Succeed(j)
    BY <1>4, <2>3 DEF Succeed, Comes
  <2>4. CASE Raise(j)
    BY <1>5, <2>4 DEF Raise, Comes
  <2>5. CASE ReadErrors(j)
    BY <1>6, <2>5 DEF ReadErrors, Comes
  <2>6. CASE WriteErrors(j)
    <3>1. At(j, "write errors") /\ AfterErrors(j)
      BY <2>6 DEF WriteErrors
    <3>2. \/ jobs'[j].pc = "retry status" /\ MaxRetries > 0 /\ jobs[j].errs < MaxRetries
          \/ jobs'[j].pc = "payload"
          \/ jobs'[j].pc = RemoveStep
      BY <1>2, <1>4, <3>1 DEF AfterErrors, MayRetry
    <3> QED
      BY <2>6, <3>1, <3>2 DEF Comes
  <2>7. CASE RetryStatus(j)
    BY <1>2, <2>7 DEF RetryStatus, Comes
  <2>8. CASE RetryVt(j)
    BY <1>3, <2>8 DEF RetryVt, Comes
  <2>9. CASE Payload(j)
    <3>1. At(j, "payload")
      BY <2>9 DEF Payload
    <3>2. jobs'[j].pc = "send dlq" \/ (jobs'[j].pc = "idle" /\ ~InQueue(jobs[j].msg))
      <4>1. CASE InQueue(jobs[j].msg)
        <5>1. PICK step : step = "send dlq" /\ GoTo(j, step)
          BY <2>9, <4>1 DEF Payload
        <5>2. jobs'[j].pc = step
          BY <1>2, <5>1
        <5> QED
          BY <5>1, <5>2
      <4>2. CASE ~InQueue(jobs[j].msg)
        <5>1. Finish(j)
          BY <2>9, <4>2 DEF Payload
        <5> QED
          BY <1>3, <4>2, <5>1
      <4> QED
        BY <4>1, <4>2
    <3> QED
      BY <2>9, <3>1, <3>2 DEF Comes
  <2>10. CASE SendDlq(j)
    BY <1>7, <2>10 DEF SendDlq, Comes
  <2>11. CASE SetDlq(j)
    BY <1>4, <2>11 DEF SetDlq, Comes
  <2>12. CASE RemoveStatus(j)
    BY <1>2, <2>12 DEF RemoveStatus, Comes
  <2>13. CASE Remove(j)
    BY <1>3, <2>13 DEF Remove, Comes
  <2>14. CASE Crash(j)
    BY <1>3, <2>14 DEF Crash, Comes
  <2>15. CASE CompleteRaises(j)
    BY <1>5, <2>15 DEF CompleteRaises, Comes, RemoveSteps
  <2> QED
    BY <2>1, <2>2, <2>3, <2>4, <2>5, <2>6, <2>7, <2>8, <2>9, <2>10, <2>11, <2>12, <2>13,
       <2>14, <2>15 DEF JobMove, ProcessTask, Fail
<1>9. Active(j)' => jobs'[j].msg = jobs[j].msg
  BY <1>1, JobStep DEF JobMove, Next
<1> QED
  BY <1>1, <1>8, <1>9

(* What the step of a job does to the row and the history of a message.    *)
LEMMA RowMove ==
  ASSUME TypeOK, NEW j \in Jobs, JobMove(j), NEW m \in MsgIds
  PROVE  /\ m # jobs[j].msg \/ ~InQueue(m) => rows'[m] = rows[m]
         /\ rows'[m].errs = IF WriteErrors(j) /\ m = jobs[j].msg /\ InQueue(m)
                            THEN jobs[j].errs ELSE rows[m].errs
         /\ InQueue(m)' => InQueue(m)
         /\ InQueue(m) /\ ~At(j, "remove") => InQueue(m)'
         /\ rows[m].hidden => rows'[m].hidden
         /\ Remove(j) /\ m = jobs[j].msg => ~InQueue(m)'
<1> DEFINE k == jobs[j].msg
<1>1. k \in MsgIds /\ rows \in [MsgIds -> Row]
  BY Moves DEF TypeOK
<1>2. ASSUME NEW row \in Row, rows' = UpdateRow(k, row)
      PROVE  /\ m # k \/ ~InQueue(m) => rows'[m] = rows[m]
             /\ m = k /\ InQueue(m) => rows'[m] = row
  BY <1>1, <1>2 DEF UpdateRow
<1>3. rows[k] \in Row /\ jobs[j].errs \in Nat /\ jobs[j].dlq \in Nat /\ jobs[j].status \in Status
  BY <1>1 DEF TypeOK, Job
<1>4. \/ rows' = rows /\ ~WriteErrors(j) /\ ~Remove(j)
      \/ \E s \in Status : rows' = UpdateRow(k, [rows[k] EXCEPT !.status = s])
                          /\ ~WriteErrors(j) /\ ~Remove(j)
      \/ RetryVt(j) /\ rows' = UpdateRow(k, [rows[k] EXCEPT !.hidden = TRUE])
         /\ ~WriteErrors(j) /\ ~Remove(j)
      \/ WriteErrors(j) /\ rows' = UpdateRow(k, [rows[k] EXCEPT !.errs = jobs[j].errs])
         /\ ~Remove(j)
      \/ SetDlq(j) /\ rows' = UpdateRow(k, [rows[k] EXCEPT !.dlq = jobs[j].dlq])
         /\ ~WriteErrors(j) /\ ~Remove(j)
      \/ At(j, "remove") /\ rows' = Archived(k) /\ ~WriteErrors(j)
  <2>1. /\ WriteErrors(j) => At(j, "write errors")
        /\ Remove(j) => At(j, "remove")
    BY DEF WriteErrors, Remove
  <2>2. "processing" \in Status /\ "queued" \in Status /\ "completed" \in Status
    BY DEF Status
  <2>3. CASE Start(j) \/ RetryStatus(j) \/ RemoveStatus(j)
    <3>1. ~WriteErrors(j) /\ ~Remove(j)
      BY <2>1, <2>3 DEF Start, RetryStatus, RemoveStatus, At
    <3> QED
      BY <1>3, <2>2, <2>3, <3>1 DEF Start, RetryStatus, RemoveStatus, SetStatus
  <2>4. CASE WriteErrors(j) \/ RetryVt(j) \/ SetDlq(j)
    <3>1. (RetryVt(j) \/ SetDlq(j) => ~WriteErrors(j)) /\ ~Remove(j)
      BY <2>1, <2>4 DEF WriteErrors, RetryVt, SetDlq, At
    <3> QED
      BY <2>4, <3>1 DEF WriteErrors, RetryVt, SetDlq
  <2>5. CASE Remove(j)
    BY <2>1, <2>5 DEF Remove, At
  <2>6. CASE CheckLimit(j) \/ Succeed(j) \/ Raise(j) \/ ReadErrors(j) \/ Payload(j) \/ SendDlq(j)
    <3>1. ~WriteErrors(j) /\ ~Remove(j)
      BY <2>1, <2>6 DEF CheckLimit, Succeed, Raise, ReadErrors, Payload, SendDlq, At
    <3> QED
      BY <2>6, <3>1 DEF CheckLimit, Succeed, Raise, ReadErrors, Payload, SendDlq
  <2>7. CASE Crash(j) \/ CompleteRaises(j)
    <3>1. ~WriteErrors(j) /\ ~Remove(j)
      <4>1. faults' = faults + 1
        BY <2>7 DEF Crash, CompleteRaises, Fault
      <4>2. faults \in Nat
        BY CountsAssumption DEF TypeOK
      <4>3. WriteErrors(j) \/ Remove(j) => faults' = faults
        BY DEF WriteErrors, Remove
      <4> QED
        BY <4>1, <4>2, <4>3
    <3>2. \/ rows' = rows \/ rows' = SetStatus(k, "completed")
          \/ At(j, "remove") /\ rows' = Archived(k)
      BY <2>7 DEF Crash, CompleteRaises
    <3>3. ~WriteErrors(j)
      BY <3>1
    <3> QED
      BY <2>2, <3>1, <3>2, <3>3 DEF SetStatus
  <2> QED
    BY <2>3, <2>4, <2>5, <2>6, <2>7 DEF JobMove, ProcessTask, Fail
<1>5. CASE rows' = rows /\ ~WriteErrors(j) /\ ~Remove(j)
  BY <1>5 DEF InQueue
<1>6. ASSUME NEW s \in Status, rows' = UpdateRow(k, [rows[k] EXCEPT !.status = s]),
             ~WriteErrors(j), ~Remove(j)
      PROVE  /\ m # k \/ ~InQueue(m) => rows'[m] = rows[m]
             /\ rows'[m].errs = rows[m].errs /\ rows'[m].loc = rows[m].loc
             /\ rows[m].hidden => rows'[m].hidden
  <2>1. PICK row \in Row : row = [rows[k] EXCEPT !.status = s]
    BY <1>3 DEF Row
  <2> QED
    BY <1>2, <1>3, <1>6, <2>1 DEF Row
<1>7. ASSUME rows' = UpdateRow(k, [rows[k] EXCEPT !.hidden = TRUE])
      PROVE  /\ m # k \/ ~InQueue(m) => rows'[m] = rows[m]
             /\ rows'[m].errs = rows[m].errs /\ rows'[m].loc = rows[m].loc
             /\ rows[m].hidden => rows'[m].hidden
  <2>1. PICK row \in Row : row = [rows[k] EXCEPT !.hidden = TRUE]
    BY <1>3 DEF Row
  <2>2. row.hidden = TRUE /\ row.errs = rows[k].errs /\ row.loc = rows[k].loc
    BY <1>3, <2>1 DEF Row
  <2>3. CASE m = k /\ InQueue(m)
    BY <1>2, <1>7, <2>1, <2>2, <2>3
  <2>4. CASE ~(m = k /\ InQueue(m))
    BY <1>2, <1>7, <2>1, <2>4
  <2> QED
    BY <2>3, <2>4
<1>8. ASSUME rows' = UpdateRow(k, [rows[k] EXCEPT !.errs = jobs[j].errs])
      PROVE  /\ m # k \/ ~InQueue(m) => rows'[m] = rows[m]
             /\ m = k /\ InQueue(m) => rows'[m].errs = jobs[j].errs
             /\ rows'[m].loc = rows[m].loc
             /\ rows[m].hidden => rows'[m].hidden
  <2>1. PICK row \in Row : row = [rows[k] EXCEPT !.errs = jobs[j].errs]
    BY <1>3 DEF Row
  <2> QED
    BY <1>2, <1>3, <1>8, <2>1 DEF Row
<1>9. ASSUME rows' = UpdateRow(k, [rows[k] EXCEPT !.dlq = jobs[j].dlq])
      PROVE  /\ m # k \/ ~InQueue(m) => rows'[m] = rows[m]
             /\ rows'[m].errs = rows[m].errs /\ rows'[m].loc = rows[m].loc
             /\ rows[m].hidden => rows'[m].hidden
  <2>1. PICK row \in Row : row = [rows[k] EXCEPT !.dlq = jobs[j].dlq]
    BY <1>3 DEF Row
  <2> QED
    BY <1>2, <1>3, <1>9, <2>1 DEF Row
<1>10. ASSUME rows' = Archived(k)
       PROVE  /\ m # k \/ ~InQueue(m) => rows'[m] = rows[m]
              /\ rows'[m].errs = rows[m].errs
              /\ m = k /\ InQueue(m) => rows'[m].loc # "queue"
              /\ rows[m].hidden => rows'[m].hidden
  <2>1. PICK loc \in {"archive", "deleted"} :
          rows' = UpdateRow(k, [rows[k] EXCEPT !.loc = loc])
    BY <1>10 DEF Archived
  <2>2. PICK row \in Row : row = [rows[k] EXCEPT !.loc = loc]
    BY <1>3 DEF Row
  <2> QED
    BY <1>2, <1>3, <2>1, <2>2 DEF Row
<1> HIDE DEF k
<1>11. CASE rows'[m].loc = rows[m].loc /\ ~Remove(j)
  BY <1>4, <1>5, <1>6, <1>7, <1>8, <1>9, <1>10, <1>11 DEF InQueue, k
<1>12. CASE At(j, "remove") /\ rows' = Archived(k) /\ ~WriteErrors(j)
  BY <1>10, <1>12 DEF InQueue, k
<1> QED
  BY <1>4, <1>5, <1>6, <1>7, <1>8, <1>9, <1>11, <1>12

(* What it does to the history of a message.                               *)
LEMMA HistoryMove ==
  ASSUME TypeOK, NEW j \in Jobs, JobMove(j), NEW m \in MsgIds
  PROVE  /\ m # jobs[j].msg => history'[m] = history[m]
         /\ history'[m].fails = history[m].fails +
              (IF m = jobs[j].msg /\ (Raise(j) \/ CompleteRaises(j)) THEN 1 ELSE 0)
         /\ history'[m].starts = history[m].starts +
              (IF m = jobs[j].msg /\ Start(j) THEN 1 ELSE 0)
         /\ history'[m].early = history[m].early
<1>1. PICK k \in MsgIds : k = jobs[j].msg
  BY Moves
<1>2. history \in [MsgIds -> History] /\ history[m] \in History /\ history[k] \in History
  BY DEF TypeOK
<1>3. history[m].fails \in Nat /\ history[m].starts \in Nat
  BY <1>2 DEF History
<1>4. At(j, "run") \/ At(j, "start") \/ jobs[j].pc \in RemoveSteps
        => \/ Raise(j) /\ ~Start(j)
           \/ CompleteRaises(j) /\ ~Start(j)
           \/ Start(j) /\ ~Raise(j) /\ ~CompleteRaises(j)
           \/ ~Start(j) /\ ~Raise(j) /\ ~CompleteRaises(j)
  BY DEF At, RemoveSteps, Raise, Start, CompleteRaises
<1>5. CASE Raise(j) \/ CompleteRaises(j)
  <2>1. ~Start(j)
    BY <1>5 DEF Raise, CompleteRaises, Start, At
  <2>2. history' = [history EXCEPT ![k] = [history[k] EXCEPT !.fails = history[k].fails + 1]]
    BY <1>1, <1>5 DEF Raise, CompleteRaises, Catch
  <2>3. PICK n : n = history[k].fails + 1
    OBVIOUS
  <2>4. CASE m = k
    <3>1. history'[m] = [history[k] EXCEPT !.fails = n]
      BY <1>2, <2>2, <2>3, <2>4
    <3> QED
      BY <1>1, <1>2, <1>3, <1>5, <2>1, <2>3, <2>4, <3>1 DEF History
  <2>5. CASE m # k
    BY <1>1, <1>2, <1>3, <2>2, <2>5
  <2> QED
    BY <2>4, <2>5
<1>6. CASE Start(j)
  <2>1. ~Raise(j) /\ ~CompleteRaises(j)
    BY <1>6 DEF Raise, CompleteRaises, Start, At
  <2>2. history' = [history EXCEPT ![k] = [history[k] EXCEPT !.starts = history[k].starts + 1]]
    BY <1>1, <1>6 DEF Start
  <2>3. PICK n : n = history[k].starts + 1
    OBVIOUS
  <2>4. CASE m = k
    <3>1. history'[m] = [history[k] EXCEPT !.starts = n]
      BY <1>2, <2>2, <2>3, <2>4
    <3> QED
      BY <1>1, <1>2, <1>3, <1>6, <2>1, <2>3, <2>4, <3>1 DEF History
  <2>5. CASE m # k
    BY <1>1, <1>2, <1>3, <2>2, <2>5
  <2> QED
    BY <2>4, <2>5
<1>7. CASE ~Raise(j) /\ ~CompleteRaises(j) /\ ~Start(j)
  <2>1. history' = history \/ history' = [history EXCEPT ![k] = [history[k] EXCEPT !.ok = TRUE]]
    BY <1>1, <1>7 DEF JobMove, ProcessTask, CheckLimit, Succeed, Fail, ReadErrors, WriteErrors,
       RetryStatus, RetryVt, Payload, SendDlq, SetDlq, RemoveStatus, Remove, Crash
  <2>2. /\ m # k => history'[m] = history[m]
        /\ history'[m].fails = history[m].fails /\ history'[m].starts = history[m].starts
        /\ history'[m].early = history[m].early
    BY <1>2, <2>1 DEF History
  <2> QED
    BY <1>1, <1>3, <1>7, <2>2
<1> QED
  BY <1>5, <1>6, <1>7

LEMMA FaultsMove ==
  ASSUME TypeOK, NEW j \in Jobs, JobMove(j)
  PROVE  /\ faults \in Nat
         /\ faults' = faults + (IF Crash(j) \/ CompleteRaises(j) THEN 1 ELSE 0)
<1>1. faults \in Nat
  BY CountsAssumption DEF TypeOK
<1>2. CASE Crash(j) \/ CompleteRaises(j)
  <2>1. faults' = faults + 1
    BY <1>2 DEF Crash, CompleteRaises, Fault
  <2> QED
    BY <1>1, <1>2, <2>1
<1>3. CASE ~(Crash(j) \/ CompleteRaises(j))
  <2>1. faults' = faults
    BY <1>3 DEF JobMove, ProcessTask, CheckLimit, Start, Succeed, Raise, Fail, ReadErrors,
       WriteErrors, RetryStatus, RetryVt, Payload, SendDlq, SetDlq, RemoveStatus, Remove
  <2> QED
    BY <1>1, <1>3, <2>1
<1> QED
  BY <1>1, <1>2, <1>3

(* The steps that are not of a job.                                        *)
Sent(m, orig) ==
  /\ rows[m].loc = "unsent" /\ lastMsg' = m
  /\ rows' = [rows EXCEPT ![m] = NewRow("queue", orig)]
  /\ UNCHANGED <<jobs, faults, history>>

LEMMA StepKinds ==
  ASSUME TypeOK, Numbered, [Next]_vars
  PROVE  \/ \E j \in Jobs : JobMove(j)
         \/ \E m \in MsgIds : \E orig \in Nat : Sent(m, orig)
         \/ \E batch \in SUBSET Readable :
              \E task \in [Idle -> batch \cup {NoId}] : PollEffect(batch, task)
         \/ \E m \in MsgIds : Expire(m)
         \/ \E worker \in Workers : Die(worker)
         \/ UNCHANGED <<rows, lastMsg, dlq, jobs, faults, history>>
<1>1. ASSUME NEW orig \in Nat, lastMsg < MaxMsgs, Insert(lastMsg + 1, orig),
             UNCHANGED <<jobs, faults, history>>
      PROVE  \E m \in MsgIds : Sent(m, orig)
  <2>1. PICK m \in MsgIds : m = lastMsg + 1
    BY <1>1, CountsAssumption DEF TypeOK, MsgIds
  <2>2. rows[m].loc = "unsent"
    BY <2>1, CountsAssumption DEF TypeOK, Numbered
  <2> QED
    BY <1>1, <2>1, <2>2 DEF Insert, Sent
<1>2. CASE Enqueue
  <2>1. PICK orig \in Nat : orig = NoId
    OBVIOUS
  <2> QED
    BY <1>1, <1>2, <2>1 DEF Enqueue
<1>3. ASSUME NEW c \in Callers, RescheduleCommit(c)
      PROVE  \E orig \in Nat : \E m \in MsgIds : Sent(m, orig)
  <2>1. PICK d \in DOMAIN dlq : d = calls[c]
    BY <1>3, CallerHolds
  <2>2. OriginalOf(d) \in Nat
    <3>1. dlq[d] \in DlqRow
      BY <2>1, ElementOfSeq, LenProperties DEF TypeOK
    <3> QED
      BY <3>1 DEF OriginalOf, DlqRow
  <2> QED
    BY <1>1, <1>3, <2>1, <2>2 DEF RescheduleCommit
<1>4. CASE Poll
  BY <1>4, PollIsEffect
<1> QED
  BY <1>2, <1>3, <1>4 DEF Next, vars, PollEmpty, Reschedule, RescheduleRead, RescheduleAbort,
     JobMove

-----------------------------------------------------------------------------
(* Counting the jobs that are at some steps for a message.                 *)

LEMMA HoldersFinite ==
  ASSUME NEW m, NEW steps
  PROVE  IsFiniteSet(Holders(m, steps)) /\ Cardinality(Holders(m, steps)) \in Nat
<1>1. Holders(m, steps) \subseteq Jobs
  BY DEF Holders
<1> QED
  BY <1>1, JobsAssumption, FS_Subset, FS_CardinalityType

LEMMA NextHoldersFinite ==
  ASSUME NEW m, NEW steps
  PROVE  Cardinality(Holders(m, steps)') \in Nat
<1> DEFINE T == {j \in Jobs : jobs'[j].msg = m /\ jobs'[j].pc \in steps}
<1>1. T \subseteq Jobs /\ Holders(m, steps)' = T
  BY DEF Holders
<1> HIDE DEF T
<1> QED
  BY <1>1, JobsAssumption, FS_Subset, FS_CardinalityType

(* A statement moves its job only, into the steps and out of them.         *)
LEMMA HoldersMove ==
  ASSUME TypeOK, NEW j \in Jobs, JobMove(j), NEW m \in MsgIds,
         NEW steps, "idle" \notin steps
  PROVE  Cardinality(Holders(m, steps)') =
           Cardinality(Holders(m, steps))
           + (IF m = jobs[j].msg /\ jobs'[j].pc \in steps THEN 1 ELSE 0)
           - (IF m = jobs[j].msg /\ jobs[j].pc \in steps THEN 1 ELSE 0)
<1> DEFINE S == Holders(m, steps)
           T == {i \in Jobs : jobs'[i].msg = m /\ jobs'[i].pc \in steps}
<1>1. IsFiniteSet(S) /\ Cardinality(S) \in Nat
  BY HoldersFinite
<1>2. T = Holders(m, steps)'
  BY DEF Holders
<1>3. \A i \in Jobs \ {j} : i \in T <=> i \in S
  BY OtherJobs DEF Holders, JobMove
<1>4. j \in S <=> m = jobs[j].msg /\ jobs[j].pc \in steps
  BY DEF Holders
<1>5. j \in T <=> m = jobs[j].msg /\ jobs'[j].pc \in steps
  BY Moves DEF Active
<1>6. S \subseteq Jobs /\ T \subseteq Jobs
  BY DEF Holders
<1> HIDE DEF S, T
<1>7. CASE j \in S /\ j \in T
  <2>1. T = S
    BY <1>3, <1>6, <1>7
  <2> QED
    BY <1>1, <1>2, <1>4, <1>5, <1>7, <2>1 DEF S
<1>8. CASE j \in S /\ j \notin T
  <2>1. T = S \ {j}
    BY <1>3, <1>6, <1>8
  <2>2. Cardinality(T) = Cardinality(S) - 1
    BY <1>1, <1>8, <2>1, FS_RemoveElement
  <2> QED
    BY <1>1, <1>2, <1>4, <1>5, <1>8, <2>2 DEF S
<1>9. CASE j \notin S /\ j \in T
  <2>1. T = S \cup {j}
    BY <1>3, <1>6, <1>9
  <2>2. Cardinality(T) = Cardinality(S) + 1
    BY <1>1, <1>9, <2>1, FS_AddElement
  <2> QED
    BY <1>1, <1>2, <1>4, <1>5, <1>9, <2>2 DEF S
<1>10. CASE j \notin S /\ j \notin T
  <2>1. T = S
    BY <1>3, <1>6, <1>10
  <2> QED
    BY <1>1, <1>2, <1>4, <1>5, <1>10, <2>1 DEF S
<1> QED
  BY <1>7, <1>8, <1>9, <1>10

(* A poll brings a job to the first step for each message of its batch.    *)
LEMMA HoldersPoll ==
  ASSUME TypeOK, NEW batch \in SUBSET Readable, NEW task \in [Idle -> batch \cup {NoId}],
         PollEffect(batch, task), NEW m \in MsgIds, NEW steps, "idle" \notin steps
  PROVE  /\ FirstStep \notin steps \/ m \notin batch => Holders(m, steps)' = Holders(m, steps)
         /\ Cardinality(Holders(m, steps)') <= Cardinality(Holders(m, steps)) + 1
<1> DEFINE S == Holders(m, steps)
           T == {i \in Jobs : jobs'[i].msg = m /\ jobs'[i].pc \in steps}
<1>1. IsFiniteSet(S) /\ Cardinality(S) \in Nat
  BY HoldersFinite
<1>2. T = Holders(m, steps)'
  BY DEF Holders
<1>3. ASSUME NEW i \in Jobs
      PROVE  \/ jobs'[i] = jobs[i]
             \/ i \in Idle /\ i \notin S /\ task[i] \in batch /\ jobs'[i].msg = task[i]
                /\ jobs'[i].pc = FirstStep
  <2>1. CASE i \in Idle /\ task[i] # NoId
    <3>1. jobs'[i] = NewJob(task[i])
      BY <2>1 DEF PollEffect
    <3>2. i \notin S
      BY <2>1 DEF Idle, Active, Holders
    <3> QED
      BY <2>1, <3>1, <3>2, NewJobStep
  <2>2. CASE ~(i \in Idle /\ task[i] # NoId)
    BY <2>2 DEF PollEffect
  <2> QED
    BY <2>1, <2>2
<1>4. S \subseteq T
  BY <1>3 DEF Holders
<1>5. CASE T = S
  <2>1. Holders(m, steps)' = Holders(m, steps)
    BY <1>2, <1>5
  <2> QED
    BY <1>1, <2>1
<1>6. CASE T # S
  <2>1. PICK i \in T : i \notin S
    BY <1>4, <1>6
  <2>2. i \in Idle /\ task[i] = m /\ m \in batch /\ FirstStep \in steps
    BY <1>3, <2>1 DEF Holders
  <2>3. ASSUME NEW k \in T, k \notin S PROVE k = i
    <3>1. k \in Idle /\ task[k] = m
      BY <1>3, <2>3 DEF Holders
    <3>2. m # NoId
      BY DEF MsgIds
    <3> QED
      BY <2>2, <3>1, <3>2 DEF PollEffect
  <2>4. T = S \cup {i}
    BY <1>4, <2>1, <2>3
  <2> HIDE DEF S, T
  <2>5. Cardinality(T) = Cardinality(S) + 1
    BY <1>1, <2>1, <2>4, FS_AddElement
  <2>6. Cardinality(Holders(m, steps)') = Cardinality(Holders(m, steps)) + 1
    BY <1>2, <2>5 DEF S
  <2> QED
    BY <1>1, <2>2, <2>6 DEF S
<1> QED
  BY <1>5, <1>6

LEMMA HoldersKept ==
  ASSUME NEW m, NEW steps, jobs' = jobs
  PROVE  Holders(m, steps)' = Holders(m, steps)
BY DEF Holders

(* The death of a worker takes holders away and adds none.                 *)
LEMMA HoldersDie ==
  ASSUME NEW worker \in Workers, Die(worker), NEW m, NEW steps, "idle" \notin steps
  PROVE  /\ Holders(m, steps)' \subseteq Holders(m, steps)
         /\ Cardinality(Holders(m, steps)') <= Cardinality(Holders(m, steps))
<1>1. Holders(m, steps)' \subseteq Holders(m, steps)
  BY DieEffect DEF Holders
<1> QED
  BY <1>1, HoldersFinite, FS_Subset

-----------------------------------------------------------------------------
(* What was never sent is blank.                                           *)

LEMMA BlankInit == Init => Blank
BY DEF Init, Blank

LEMMA BlankStep ==
  ASSUME TypeOK, Numbered, Blank, [Next]_vars
  PROVE  Blank'
<1> SUFFICES ASSUME NEW m \in MsgIds, rows'[m].loc = "unsent"
             PROVE  rows'[m] = NewRow("unsent", NoId) /\ history'[m] = NoHistory
  BY DEF Blank, NewRow, NoHistory
<1>1. rows[m].loc = "unsent" /\ rows'[m] = rows[m] /\ m > lastMsg
  <2>1. m > lastMsg'
    BY NumberedStep DEF Numbered
  <2>2. m > lastMsg /\ m \in Nat
    BY <2>1, LastMsgGrows DEF MsgIds
  <2>3. lastMsg' \in Nat /\ lastMsg' # m
    BY <2>1, <2>2, LastMsgGrows
  <2> QED
    BY <2>2, <2>3, RowStep DEF Numbered, InQueue
<1>2. history'[m] = history[m]
  <2>1. ASSUME NEW j \in Jobs, JobMove(j) PROVE m # jobs[j].msg
    BY <1>1, <2>1, Moves, LastMsgGrows DEF Numbered, MsgIds
  <2>2. ASSUME NEW k \in MsgIds, Expire(k) PROVE history'[m] = history[m]
    <3>1. k # m
      BY <1>1, <2>2 DEF Expire, InQueue
    <3> QED
      BY <2>2, <3>1 DEF Expire, TypeOK
  <2> QED
    BY <2>1, <2>2, HistoryMove, DieEffect, StepKinds DEF Sent, PollEffect
<1> QED
  BY <1>1, <1>2 DEF Blank

-----------------------------------------------------------------------------
(* The status of an archived message.                                      *)

LEMMA OutcomeInit == Init => OutcomeInv
<1> SUFFICES ASSUME Init PROVE OutcomeInv
  OBVIOUS
<1>1. \A m \in MsgIds : rows[m].loc = "unsent" /\ rows[m].status = "none"
  BY DEF Init, NewRow
<1>2. \A j \in Jobs : jobs[j].pc = "idle"
  BY DEF Init, IdleJob, JobAt
<1> QED
  BY <1>1, <1>2, CauseInit DEF OutcomeInv, HolderInv, ArchivedOutcome, Active, At

(* Status completed is written by complete only.                           *)
LEMMA CompletedStep ==
  ASSUME OutcomeInv, [Next]_vars, NEW m \in MsgIds, rows'[m].status = "completed"
  PROVE  history'[m].ok
<1>1. TypeOK /\ Numbered /\ rows[m] \in Row
  BY DEF OutcomeInv, CauseInv, TypeOK
<1>2. CASE rows[m].status = "completed"
  BY <1>1, <1>2, HistoryGrows DEF OutcomeInv
<1>3. CASE rows[m].status # "completed"
  <2>1. ASSUME NEW orig \in Nat, rows'[m] = NewRow("queue", orig) PROVE FALSE
    BY <2>1 DEF NewRow
  <2>2. ASSUME NEW h \in BOOLEAN, rows'[m] = [rows[m] EXCEPT !.hidden = h] PROVE FALSE
    BY <1>1, <1>3, <2>2 DEF Row
  <2>3. ASSUME NEW j \in Jobs, jobs[j].msg = m, Changed(j, rows'[m])
        PROVE  history[m].ok
    <3>1. At(j, "set status") /\ jobs[j].status = "completed"
      BY <1>1, <1>3, <2>3 DEF Row, Changed
    <3>2. RemoveCause(m, jobs[j].status)
      BY <2>3, <3>1 DEF OutcomeInv, CauseInv, JobCause, RemoveSteps, At
    <3> QED
      BY <3>1, <3>2 DEF RemoveCause
  <2>4. history[m].ok
    BY <1>1, <1>3, <2>1, <2>2, <2>3, RowStep
  <2> QED
    BY <1>1, <2>4, HistoryGrows
<1> QED
  BY <1>2, <1>3

LEMMA EarlyGrows ==
  ASSUME TypeOK, [Next]_vars, NEW m \in MsgIds, history'[m].early = 0
  PROVE  history[m].early = 0
<1>1. history[m].early \in Nat /\ history'[m].early >= history[m].early
  BY HistoryGrows DEF TypeOK, History
<1> QED
  BY <1>1

(* A job about to archive its message has written the status, and nobody   *)
(* else has the message.                                                   *)
LEMMA StatusStep ==
  ASSUME OutcomeInv, [Next]_vars, NEW j \in Jobs, jobs'[j].pc = "remove", HasArchive,
         NEW m \in MsgIds, m = jobs'[j].msg, InQueue(m)', history'[m].early = 0
  PROVE  rows'[m].status \in {"completed", "failed"}
<1>1. TypeOK /\ Numbered /\ HolderInv /\ rows[m] \in Row /\ jobs[j] \in Job
  BY DEF OutcomeInv, CauseInv, TypeOK
<1>2. Active(j) /\ jobs[j].msg = m
  <2>1. Active(j)'
    BY DEF Active
  <2>2. \A k : NewJob(k).pc # "remove"
    BY DEF NewJob, JobAt, FirstStep
  <2> QED
    BY <1>1, <2>1, <2>2, JobStep
<1>3. history[m].early = 0
  BY <1>1, EarlyGrows
<1>4. InQueue(m)
  <2>1. rows[m].loc # "unsent"
    BY <1>1, <1>2 DEF Numbered, MsgIds, TypeOK
  <2> QED
    BY <1>1, <2>1, RowStep DEF InQueue
<1>5. ASSUME NEW i \in Jobs, Active(i), jobs[i].msg = m
      PROVE  i = j
  BY <1>1, <1>2, <1>3, <1>5 DEF HolderInv
<1>6. CASE jobs'[j] = jobs[j]
  <2>1. rows[m].status \in {"completed", "failed"}
    BY <1>2, <1>3, <1>4, <1>6 DEF OutcomeInv, At
  <2>2. ASSUME Changed(j, rows'[m]) PROVE FALSE
    BY <1>1, <1>2, <1>6, <2>2 DEF Changed, At, Row, InQueue
  <2>3. ASSUME NEW h \in BOOLEAN, rows'[m] = [rows[m] EXCEPT !.hidden = h]
        PROVE  rows'[m].status = rows[m].status
    BY <1>1, <2>3 DEF Row
  <2> QED
    BY <1>1, <1>4, <1>5, <2>1, <2>2, <2>3, RowStep DEF InQueue
<1>7. CASE JobMove(j)
  <2>1. RemoveStatus(j)
    <3>1. Comes(j)
      BY <1>1, <1>7, Moves
    <3>2. RemoveStep # "remove"
      BY DEF RemoveStep
    <3> QED
      BY <3>1, <3>2 DEF Comes
  <2>2. RemoveCause(m, jobs[j].status)
    BY <1>2, <2>1 DEF OutcomeInv, CauseInv, JobCause, RemoveSteps, RemoveStatus, At
  <2>3. rows'[m] = [rows[m] EXCEPT !.status = jobs[j].status]
    BY <1>1, <1>2, <1>4, <2>1 DEF RemoveStatus, SetStatus, UpdateRow, TypeOK
  <2> QED
    BY <1>1, <2>2, <2>3 DEF RemoveCause, Row
<1>8. ASSUME NEW i \in Jobs, JobMove(i), i # j
      PROVE  jobs'[j] = jobs[j]
  BY <1>1, <1>8, OtherJobs DEF JobMove
<1>9. CASE \E batch \in SUBSET Readable :
             \E task \in [Idle -> batch \cup {NoId}] : PollEffect(batch, task)
  <2>1. j \notin Idle
    BY <1>2 DEF Idle
  <2> QED
    BY <1>6, <1>9, <2>1 DEF PollEffect
<1>10. ASSUME NEW worker \in Workers, Die(worker)
       PROVE  jobs'[j] = jobs[j]
  BY <1>2, <1>10, DieEffect
<1> QED
  BY <1>1, <1>6, <1>7, <1>8, <1>9, <1>10, StepKinds DEF Sent, Expire

LEMMA ArchivedStep ==
  ASSUME OutcomeInv, [Next]_vars, NEW m \in MsgIds, rows'[m].loc = "archive",
         history'[m].early = 0
  PROVE  rows'[m].status \in {"completed", "failed"}
<1>1. TypeOK /\ Numbered /\ rows[m] \in Row
  BY DEF OutcomeInv, CauseInv, TypeOK
<1>2. history[m].early = 0
  BY <1>1, EarlyGrows
<1>3. CASE rows'[m] = rows[m]
  BY <1>2, <1>3 DEF OutcomeInv, ArchivedOutcome
<1>4. CASE rows'[m] # rows[m]
  <2>1. ASSUME NEW orig \in Nat, rows'[m] = NewRow("queue", orig) PROVE FALSE
    BY <2>1 DEF NewRow
  <2>2. ASSUME NEW h \in BOOLEAN, rows'[m] = [rows[m] EXCEPT !.hidden = h], InQueue(m)
        PROVE  FALSE
    BY <1>1, <2>2 DEF Row, InQueue
  <2>3. ASSUME NEW j \in Jobs, Active(j), jobs[j].msg = m, InQueue(m), Changed(j, rows'[m])
        PROVE  rows'[m].status \in {"completed", "failed"}
    <3>1. At(j, "remove") /\ HasArchive /\ rows'[m].status = rows[m].status
      BY <1>1, <2>3 DEF Changed, Row, InQueue
    <3> QED
      BY <1>2, <2>3, <3>1 DEF OutcomeInv
  <2> QED
    BY <1>1, <1>4, <2>1, <2>2, <2>3, RowStep
<1> QED
  BY <1>3, <1>4

LEMMA OutcomeStep == OutcomeInv /\ [Next]_vars => OutcomeInv'
<1> SUFFICES ASSUME OutcomeInv, [Next]_vars PROVE OutcomeInv'
  OBVIOUS
<1>1. CauseInv /\ CauseInv' /\ HolderInv'
  <2>1. CauseInv /\ ExclusiveInv
    BY DEF OutcomeInv, CauseInv, ExclusiveInv
  <2> QED
    BY <2>1, CauseStep, HolderStep DEF ExclusiveInv
<1>2. \A m \in MsgIds : rows'[m].status = "completed" => history'[m].ok
  BY CompletedStep
<1>3. \A m \in MsgIds : rows'[m].loc = "archive" /\ history'[m].early = 0
        => rows'[m].status \in {"completed", "failed"}
  BY ArchivedStep
<1>4. ASSUME NEW j \in Jobs, jobs'[j].pc = "remove", HasArchive,
             rows'[jobs'[j].msg].loc = "queue", history'[jobs'[j].msg].early = 0
      PROVE  rows'[jobs'[j].msg].status \in {"completed", "failed"}
  <2>1. PICK m \in MsgIds : m = jobs'[j].msg
    BY <1>1, <1>4 DEF CauseInv, TypeOK, Active
  <2> QED
    BY <1>4, <2>1, StatusStep DEF InQueue
<1> QED
  BY <1>1, <1>2, <1>3, <1>4 DEF OutcomeInv, ArchivedOutcome, At, InQueue

(* Status completed in the archive means that the processor returned; a    *)
(* message archived without an expiry under a job has its outcome, never   *)
(* the status of a message in work.                                        *)
THEOREM ArchivedOutcomeCorrect == Spec => []ArchivedOutcome
BY OutcomeInit, OutcomeStep, PTL DEF Spec, OutcomeInv

-----------------------------------------------------------------------------
(* Failures, DLQ messages and errors.                                      *)

LEMMA NoneInit ==
  ASSUME Init, NEW m \in MsgIds
  PROVE  /\ \A steps : "idle" \notin steps => Cardinality(Holders(m, steps)) = 0
         /\ Letters(m) = {} /\ Cardinality(Letters(m)) = 0
<1>1. DOMAIN dlq = {}
  <2>1. DOMAIN << >> = {}
    OBVIOUS
  <2> QED
    BY <2>1 DEF Init
<1>2. Letters(m) = {}
  BY <1>1 DEF Letters
<1>3. ASSUME NEW steps, "idle" \notin steps PROVE Holders(m, steps) = {}
  <2>1. \A j \in Jobs : jobs[j].pc = "idle"
    BY DEF Init, IdleJob, JobAt
  <2> QED
    BY <1>3, <2>1 DEF Holders
<1> QED
  BY <1>2, <1>3, FS_EmptySet

LEMMA LettersFinite ==
  ASSUME TypeOK, NEW m
  PROVE  IsFiniteSet(Letters(m)) /\ Cardinality(Letters(m)) \in Nat
<1>1. DOMAIN dlq = 1..Len(dlq) /\ Len(dlq) \in Int /\ 1 \in Int
  BY LenProperties DEF TypeOK
<1>2. IsFiniteSet(DOMAIN dlq)
  BY <1>1, FS_Interval
<1>3. Letters(m) \subseteq DOMAIN dlq
  BY DEF Letters
<1> QED
  BY <1>2, <1>3, FS_Subset, FS_CardinalityType

(* Only a job adds a DLQ message, and one.                                 *)
LEMMA LettersStep ==
  ASSUME TypeOK, Numbered, [Next]_vars, NEW m \in MsgIds
  PROVE  \/ Letters(m)' = Letters(m)
         \/ \E j \in Jobs : /\ SendDlq(j) /\ jobs[j].msg = m
                            /\ Cardinality(Letters(m)') = Cardinality(Letters(m)) + 1
<1>1. dlq \in Seq(DlqRow) /\ Len(dlq) \in Nat /\ DOMAIN dlq = 1..Len(dlq)
  BY LenProperties DEF TypeOK
<1>2. ASSUME DOMAIN dlq' = DOMAIN dlq, \A e \in DOMAIN dlq : dlq'[e].orig = dlq[e].orig
      PROVE  Letters(m)' = Letters(m)
  BY <1>2 DEF Letters, About
<1>3. ASSUME NEW j \in Jobs, NEW letter \in DlqRow, SendDlq(j), letter.orig = jobs[j].msg,
             dlq' = Append(dlq, letter)
      PROVE  \/ Letters(m)' = Letters(m)
             \/ /\ jobs[j].msg = m
                /\ Cardinality(Letters(m)') = Cardinality(Letters(m)) + 1
  <2>1. /\ DOMAIN dlq' = 1..(Len(dlq) + 1) /\ dlq'[Len(dlq) + 1] = letter
        /\ \A d \in DOMAIN dlq : dlq'[d] = dlq[d]
    BY <1>1, <1>3
  <2>2. DOMAIN dlq' = DOMAIN dlq \cup {Len(dlq) + 1} /\ Len(dlq) + 1 \notin DOMAIN dlq
    BY <1>1, <2>1
  <2>3. CASE jobs[j].msg = m
    <3> DEFINE T == {d \in DOMAIN dlq' : dlq'[d].orig = m}
    <3>1. T = Letters(m) \cup {Len(dlq) + 1} /\ Len(dlq) + 1 \notin Letters(m)
      BY <1>3, <2>1, <2>2, <2>3 DEF Letters, About
    <3>2. Letters(m)' = T
      BY DEF Letters, About
    <3> HIDE DEF T
    <3>3. Cardinality(T) = Cardinality(Letters(m)) + 1
      BY <3>1, LettersFinite, FS_AddElement
    <3> QED
      BY <2>3, <3>2, <3>3
  <2>4. CASE jobs[j].msg # m
    BY <1>3, <2>1, <2>2, <2>4 DEF Letters, About
  <2> QED
    BY <2>3, <2>4
<1> QED
  BY <1>2, <1>3, DlqStep

LEMMA FailuresInit == Init => FailuresInv
<1> SUFFICES ASSUME Init PROVE FailuresInv
  OBVIOUS
<1>1. \A m \in MsgIds : rows[m].errs = 0 /\ history[m].fails = 0
  BY DEF Init, NewRow, NoHistory
<1>2. \A j \in Jobs : jobs[j].pc = "idle"
  BY DEF Init, IdleJob, JobAt
<1>3. ASSUME NEW m \in MsgIds
      PROVE  /\ Cardinality(Unlettered(m)) = 0 /\ Cardinality(Unread(m)) = 0
             /\ Cardinality(Letters(m)) = 0
  <2>1. "idle" \notin FailSteps \ {"set dlq"} /\ "idle" \notin {"read errors"}
    BY DEF FailSteps
  <2> QED
    BY <2>1, NoneInit DEF Unlettered, Unread
<1>4. ASSUME NEW m \in MsgIds
      PROVE  /\ Cardinality(Letters(m)) + Cardinality(Unlettered(m)) <= history[m].fails
             /\ rows[m].errs + Cardinality(Unread(m)) <= history[m].fails
  BY <1>1, <1>3
<1> QED
  BY <1>2, <1>4, TypeInit, NumberedInit, BlankInit DEF FailuresInv, At

LEMMA MovesOn ==
  ASSUME TypeOK, NEW j \in Jobs, JobMove(j)
  PROVE  jobs'[j] # jobs[j]
<1>1. Comes(j) /\ Active(j)
  BY Moves
<1>2. RemoveStep \in RemoveSteps
  BY DEF RemoveStep, RemoveSteps
<1>3. jobs'[j].pc # jobs[j].pc
  BY <1>1, <1>2 DEF Comes, At, Active, RemoveSteps
<1> QED
  BY <1>3

LEMMA OneMove ==
  ASSUME TypeOK, NEW i \in Jobs, JobMove(i), NEW j \in Jobs, JobMove(j)
  PROVE  i = j
BY MovesOn, OtherJobs DEF JobMove

LEMMA ReadErrorsMove ==
  ASSUME TypeOK, NEW j \in Jobs, ReadErrors(j)
  PROVE  /\ JobMove(j) /\ jobs'[j].pc = "write errors"
         /\ jobs'[j].errs = ErrorsOf(jobs[j].msg) + 1
<1>1. JobMove(j)
  BY DEF JobMove, ProcessTask, Fail
<1>2. PICK n : n = ErrorsOf(jobs[j].msg) + 1
  OBVIOUS
<1>3. jobs' = [jobs EXCEPT ![j] = [jobs[j] EXCEPT !.pc = "write errors", !.errs = n]]
  BY <1>2 DEF ReadErrors
<1> QED
  BY <1>1, <1>2, <1>3 DEF TypeOK, Job

(* The numbers behind FailuresInv.                                         *)
LEMMA FailuresTypes ==
  ASSUME TypeOK, NEW m \in MsgIds
  PROVE  /\ rows[m].errs \in Nat /\ history[m].fails \in Nat
         /\ Cardinality(Letters(m)) \in Nat /\ Cardinality(Unlettered(m)) \in Nat
         /\ Cardinality(Unread(m)) \in Nat
BY LettersFinite, HoldersFinite DEF TypeOK, Row, History, Unlettered, Unread

(* A message that the step of a job does not concern.                      *)
LEMMA FailuresApart ==
  ASSUME TypeOK, Numbered, NEW j \in Jobs, JobMove(j), NEW m \in MsgIds, m # jobs[j].msg
  PROVE  /\ Letters(m)' = Letters(m)
         /\ Cardinality(Unlettered(m)') = Cardinality(Unlettered(m))
         /\ Cardinality(Unread(m)') = Cardinality(Unread(m))
         /\ history'[m] = history[m] /\ rows'[m] = rows[m]
<1>1. Letters(m)' = Letters(m)
  <2>1. ASSUME NEW i \in Jobs, SendDlq(i), jobs[i].msg = m PROVE FALSE
    BY <2>1, OneMove DEF JobMove, ProcessTask, Fail
  <2>2. [Next]_vars
    BY DEF JobMove, Next
  <2> QED
    BY <2>1, <2>2, LettersStep
<1>2. "idle" \notin FailSteps \ {"set dlq"} /\ "idle" \notin {"read errors"}
  BY DEF FailSteps
<1>3. /\ Cardinality(Unlettered(m)') = Cardinality(Unlettered(m))
      /\ Cardinality(Unread(m)') = Cardinality(Unread(m))
  <2>1. ASSUME NEW steps, "idle" \notin steps
        PROVE  Cardinality(Holders(m, steps)') = Cardinality(Holders(m, steps))
    <3>1. Cardinality(Holders(m, steps)') = Cardinality(Holders(m, steps)) + 0 - 0
      BY <2>1, HoldersMove
    <3> QED
      BY <3>1, HoldersFinite
  <2> QED
    BY <1>2, <2>1 DEF Unlettered, Unread
<1> QED
  BY <1>1, <1>3, RowMove, HistoryMove

(* The message of the job that moves.                                      *)
LEMMA FailuresOwn ==
  ASSUME TypeOK, Numbered, NEW j \in Jobs, JobMove(j), NEW m \in MsgIds, m = jobs[j].msg
  PROVE  /\ Cardinality(Letters(m)') + Cardinality(Unlettered(m)') - history'[m].fails
               <= Cardinality(Letters(m)) + Cardinality(Unlettered(m)) - history[m].fails
         /\ Cardinality(Unread(m)') - history'[m].fails
               <= Cardinality(Unread(m)) - history[m].fails
         /\ ReadErrors(j) => Cardinality(Unread(m)') = Cardinality(Unread(m)) - 1
                             /\ history'[m].fails = history[m].fails
<1> DEFINE L == Cardinality(Letters(m))
           U == Cardinality(Unlettered(m))
           R == Cardinality(Unread(m))
           F == history[m].fails
           Steps1 == FailSteps \ {"set dlq"}
           Steps2 == {"read errors"}
<1>1. L \in Nat /\ U \in Nat /\ R \in Nat /\ F \in Nat
  BY FailuresTypes
<1>2. "idle" \notin Steps1 /\ "idle" \notin Steps2
  BY DEF FailSteps
<1>3. Cardinality(Unlettered(m)') = U + (IF jobs'[j].pc \in Steps1 THEN 1 ELSE 0)
                                      - (IF jobs[j].pc \in Steps1 THEN 1 ELSE 0)
  BY <1>2, HoldersMove DEF Unlettered
<1>4. Cardinality(Unread(m)') = R + (IF jobs'[j].pc \in Steps2 THEN 1 ELSE 0)
                                  - (IF jobs[j].pc \in Steps2 THEN 1 ELSE 0)
  BY <1>2, HoldersMove DEF Unread
<1>5. history'[m].fails = F + (IF Raise(j) \/ CompleteRaises(j) THEN 1 ELSE 0)
  BY HistoryMove
<1>6. Letters(m)' = Letters(m) \/ (SendDlq(j) /\ Cardinality(Letters(m)') = L + 1)
  <2>1. ASSUME NEW i \in Jobs, SendDlq(i) PROVE i = j
    BY <2>1, OneMove DEF JobMove, ProcessTask, Fail
  <2>2. [Next]_vars
    BY DEF JobMove, Next
  <2> QED
    BY <2>1, <2>2, LettersStep
<1>7. Comes(j) /\ Active(j) /\ RemoveStep \in RemoveSteps
  BY Moves DEF RemoveStep, RemoveSteps
<1>8. /\ jobs'[j].pc = "read errors" => Raise(j) \/ CompleteRaises(j)
      /\ jobs'[j].pc \in Steps1 => jobs[j].pc \in Steps1 \/ Raise(j) \/ CompleteRaises(j)
      /\ SendDlq(j) => jobs[j].pc \in Steps1 /\ jobs'[j].pc \notin Steps1
      /\ ReadErrors(j) => jobs[j].pc = "read errors" /\ jobs'[j].pc # "read errors"
                          /\ ~Raise(j) /\ ~CompleteRaises(j)
  <2>1. /\ SendDlq(j) => At(j, "send dlq")
        /\ ReadErrors(j) => At(j, "read errors")
        /\ Raise(j) => At(j, "run")
        /\ CompleteRaises(j) => jobs[j].pc \in RemoveSteps
    BY DEF SendDlq, ReadErrors, Raise, CompleteRaises, RemoveSteps
  <2>2. CASE SendDlq(j)
    <3>1. jobs'[j].pc = "set dlq"
      BY <2>2 DEF SendDlq, TypeOK, Job
    <3> QED
      BY <2>1, <2>2, <3>1 DEF At, FailSteps, RemoveSteps
  <2>3. CASE ReadErrors(j)
    <3>1. jobs'[j].pc = "write errors"
      BY <2>3, ReadErrorsMove
    <3> QED
      BY <2>1, <2>3, <3>1 DEF At, FailSteps, RemoveSteps
  <2>4. CASE ~SendDlq(j) /\ ~ReadErrors(j)
    BY <1>7, <2>4 DEF Comes, At, FailSteps, RemoveSteps
  <2> QED
    BY <2>2, <2>3, <2>4
<1> DEFINE L1 == Cardinality(Letters(m)')
           U1 == Cardinality(Unlettered(m)')
           R1 == Cardinality(Unread(m)')
           F1 == history'[m].fails
           sent == IF SendDlq(j) THEN 1 ELSE 0
<1>9. jobs'[j].pc \in Steps2 => Raise(j) \/ CompleteRaises(j)
  BY <1>8
<1> HIDE DEF Steps1, Steps2
<1>10. F1 \in Int /\ F1 >= F
  BY <1>1, <1>5
<1>11. U1 \in Int /\ U1 - F1 <= U - F - sent
  <2>1. CASE SendDlq(j)
    <3>1. U1 = U + 0 - 1 /\ sent = 1
      BY <1>3, <1>8, <2>1
    <3> HIDE DEF U, F, U1, F1, sent
    <3> QED
      BY <1>1, <1>10, <3>1
  <2>2. CASE ~SendDlq(j) /\ (Raise(j) \/ CompleteRaises(j))
    <3>1. F1 = F + 1 /\ U1 <= U + 1 /\ U1 \in Int /\ sent = 0
      BY <1>1, <1>3, <1>5, <2>2
    <3> HIDE DEF U, F, U1, F1, sent
    <3> QED
      BY <1>1, <3>1
  <2>3. CASE ~SendDlq(j) /\ ~(Raise(j) \/ CompleteRaises(j))
    <3>0. F1 = F + 0 /\ sent = 0
      BY <1>5, <2>3
    <3>1. F1 = F + 0 /\ U1 <= U /\ U1 \in Int /\ sent = 0
      <4>1. CASE jobs'[j].pc \in Steps1
        <5>1. jobs[j].pc \in Steps1
          BY <1>8, <2>3, <4>1
        <5>2. U1 = U + 1 - 1
          BY <1>3, <4>1, <5>1
        <5> HIDE DEF U, F, U1, F1, sent
        <5> QED
          BY <1>1, <3>0, <5>2
      <4>2. CASE jobs'[j].pc \notin Steps1
        <5>1. U1 = U + 0 - 1 \/ U1 = U + 0 - 0
          BY <1>3, <4>2
        <5> HIDE DEF U, F, U1, F1, sent
        <5> QED
          BY <1>1, <3>0, <5>1
      <4> QED
        BY <4>1, <4>2
    <3> HIDE DEF U, F, U1, F1, sent
    <3> QED
      BY <1>1, <3>1
  <2> QED
    BY <2>1, <2>2, <2>3
<1>12. R1 \in Int /\ R1 - F1 <= R - F
  BY <1>1, <1>4, <1>5, <1>9
<1>13. ReadErrors(j) => R1 = R - 1 /\ F1 = F
  <2>1. ReadErrors(j) => /\ jobs[j].pc \in Steps2 /\ jobs'[j].pc \notin Steps2
                         /\ ~(Raise(j) \/ CompleteRaises(j))
    BY <1>8 DEF Steps2
  <2>2. ReadErrors(j) => R1 = R + 0 - 1 /\ F1 = F + 0
    BY <1>4, <1>5, <2>1
  <2> HIDE DEF R, F, R1, F1
  <2> QED
    BY <1>1, <2>2
<1>14. L1 \in Int /\ L1 <= L + sent
  BY <1>1, <1>6
<1> HIDE DEF L, U, R, F, L1, U1, R1, F1
<1>15. L1 + U1 - F1 <= L + U - F
  BY <1>1, <1>10, <1>11, <1>14
<1> QED
  BY <1>12, <1>13, <1>15 DEF L, U, R, F, L1, U1, R1, F1

LEMMA FailuresStep == FailuresInv /\ [Next]_vars => FailuresInv'
<1> SUFFICES ASSUME FailuresInv, [Next]_vars PROVE FailuresInv'
  OBVIOUS
<1>1. TypeOK /\ Numbered /\ Blank /\ TypeOK' /\ Numbered' /\ Blank'
  BY TypeStep, NumberedStep, BlankStep DEF FailuresInv
<1> DEFINE
     Letters1(m) == Cardinality(Letters(m)') + Cardinality(Unlettered(m)') <= history'[m].fails
     Errors1(m) == rows'[m].errs + Cardinality(Unread(m)') <= history'[m].fails
     Job1(j, m) == jobs'[j].errs + Cardinality(Unread(m)') <= history'[m].fails
<1>2. ASSUME NEW m \in MsgIds
      PROVE  /\ Cardinality(Letters(m)) + Cardinality(Unlettered(m)) <= history[m].fails
             /\ rows[m].errs + Cardinality(Unread(m)) <= history[m].fails
             /\ \A j \in Jobs : At(j, "write errors") /\ jobs[j].msg = m =>
                  jobs[j].errs + Cardinality(Unread(m)) <= history[m].fails
  BY DEF FailuresInv
<1>3. \A j \in Jobs : jobs[j].errs \in Nat /\ jobs'[j].errs \in Nat
  BY <1>1 DEF TypeOK, Job
<1>4. ASSUME NEW i \in Jobs, JobMove(i), NEW m \in MsgIds
      PROVE  /\ Letters1(m) /\ Errors1(m)
             /\ \A j \in Jobs : jobs'[j].pc = "write errors" /\ jobs'[j].msg = m => Job1(j, m)
  <2>1. CASE m # jobs[i].msg
    <3>1. /\ Letters(m)' = Letters(m)
          /\ Cardinality(Unlettered(m)') = Cardinality(Unlettered(m))
          /\ Cardinality(Unread(m)') = Cardinality(Unread(m))
          /\ history'[m] = history[m] /\ rows'[m] = rows[m]
      BY <1>1, <1>4, <2>1, FailuresApart
    <3>2. ASSUME NEW j \in Jobs, jobs'[j].pc = "write errors", jobs'[j].msg = m
          PROVE  jobs'[j] = jobs[j]
      <4>1. j # i
        BY <1>1, <1>4, <2>1, <3>2, Moves DEF Active
      <4> QED
        BY <1>1, <1>4, <4>1, OtherJobs DEF JobMove
    <3> QED
      BY <1>2, <3>1, <3>2 DEF At
  <2>2. CASE m = jobs[i].msg
    <3> DEFINE L == Cardinality(Letters(m))
               U == Cardinality(Unlettered(m))
               R == Cardinality(Unread(m))
               F == history[m].fails
               E == rows[m].errs
               L1 == Cardinality(Letters(m)')
               U1 == Cardinality(Unlettered(m)')
               R1 == Cardinality(Unread(m)')
               F1 == history'[m].fails
               E1 == rows'[m].errs
    <3>1. L \in Nat /\ U \in Nat /\ R \in Nat /\ F \in Nat /\ E \in Nat
      BY <1>1, FailuresTypes
    <3>2. L1 \in Nat /\ U1 \in Nat /\ R1 \in Nat /\ F1 \in Nat /\ E1 \in Nat
      <4>1. \A n \in MsgIds : rows'[n].errs \in Nat /\ history'[n].fails \in Nat
        BY <1>1 DEF TypeOK, Row, History
      <4>2. L1 \in Nat
        BY <1>1, <3>1, LettersStep
      <4>3. U1 \in Nat /\ R1 \in Nat
        BY NextHoldersFinite DEF Unlettered, Unread
      <4> QED
        BY <4>1, <4>2, <4>3
    <3>3. /\ L1 + U1 - F1 <= L + U - F /\ R1 - F1 <= R - F
          /\ ReadErrors(i) => R1 = R - 1 /\ F1 = F
      BY <1>1, <1>4, <2>2, FailuresOwn
    <3>4. L + U <= F /\ E + R <= F
      BY <1>2
    <3>5. E1 = E \/ (WriteErrors(i) /\ E1 = jobs[i].errs /\ jobs[i].errs + R <= F)
      <4>1. WriteErrors(i) => jobs[i].errs + R <= F
        BY <1>2, <2>2 DEF WriteErrors
      <4> QED
        BY <1>1, <1>4, <4>1, RowMove
    <3>6. ASSUME NEW j \in Jobs, jobs'[j].pc = "write errors", jobs'[j].msg = m
          PROVE  jobs'[j].errs + R1 <= F1
      <4>1. CASE j # i
        <5>1. jobs'[j] = jobs[j]
          BY <1>1, <1>4, <4>1, OtherJobs DEF JobMove
        <5>2. jobs[j].errs + R <= F /\ jobs[j].errs \in Nat
          BY <1>2, <1>3, <3>6, <5>1 DEF At
        <5> HIDE DEF R, F, R1, F1
        <5> QED
          BY <3>1, <3>2, <3>3, <5>1, <5>2
      <4>2. CASE j = i
        <5>1. ReadErrors(i)
          <6>1. Comes(i)
            BY <1>1, <1>4, Moves
          <6> QED
            BY <3>6, <4>2, <6>1 DEF Comes, RemoveStep
        <5>2. jobs'[i].errs = ErrorsOf(m) + 1 /\ (ErrorsOf(m) = E \/ ErrorsOf(m) = 0)
          BY <1>1, <2>2, <5>1, ReadErrorsMove DEF ErrorsOf
        <5> HIDE DEF R, F, R1, F1, E
        <5> QED
          BY <3>1, <3>2, <3>3, <3>4, <4>2, <5>1, <5>2
      <4> QED
        BY <4>1, <4>2
    <3>7. L1 + U1 <= F1
      <4> HIDE DEF L, U, F, L1, U1, F1
      <4> QED
        BY <3>1, <3>2, <3>3, <3>4
    <3>8. E1 + R1 <= F1
      <4> HIDE DEF R, F, R1, F1, E, E1
      <4> QED
        BY <1>3, <3>1, <3>2, <3>3, <3>4, <3>5
    <3> QED
      BY <3>6, <3>7, <3>8
  <2> QED
    BY <2>1, <2>2
<1>5. ASSUME NEW m \in MsgIds, ~\E j \in Jobs : JobMove(j)
      PROVE  /\ Letters1(m) /\ Errors1(m)
             /\ \A j \in Jobs : jobs'[j].pc = "write errors" /\ jobs'[j].msg = m => Job1(j, m)
  <2>1. Letters(m)' = Letters(m)
    BY <1>1, <1>5, LettersStep DEF JobMove, ProcessTask, Fail
  <2>2. /\ Cardinality(Unlettered(m)') <= Cardinality(Unlettered(m))
        /\ Cardinality(Unread(m)') <= Cardinality(Unread(m))
        /\ \A j \in Jobs : jobs'[j].pc = "write errors" => jobs'[j] = jobs[j]
    <3>1. "idle" \notin FailSteps \ {"set dlq"} /\ "idle" \notin {"read errors"}
      BY DEF FailSteps
    <3>2. FirstStep \notin FailSteps /\ FirstStep # "write errors"
      BY DEF FirstStep, FailSteps
    <3>3. ASSUME NEW batch \in SUBSET Readable, NEW task \in [Idle -> batch \cup {NoId}],
                 PollEffect(batch, task)
          PROVE  /\ Unlettered(m)' = Unlettered(m) /\ Unread(m)' = Unread(m)
                 /\ \A j \in Jobs : jobs'[j].pc = "write errors" => jobs'[j] = jobs[j]
      <4>1. Unlettered(m)' = Unlettered(m) /\ Unread(m)' = Unread(m)
        BY <1>1, <3>1, <3>2, <3>3, HoldersPoll DEF Unlettered, Unread, FailSteps
      <4>2. ASSUME NEW j \in Jobs, jobs'[j].pc = "write errors"
            PROVE  jobs'[j] = jobs[j]
        <5>1. jobs'[j] = jobs[j] \/ jobs'[j] = NewJob(task[j])
          BY <3>3 DEF PollEffect
        <5> QED
          BY <3>2, <4>2, <5>1, NewJobStep
      <4> QED
        BY <4>1, <4>2
    <3>6. /\ Cardinality(Unlettered(m)) <= Cardinality(Unlettered(m))
          /\ Cardinality(Unread(m)) <= Cardinality(Unread(m))
      <4>1. Cardinality(Unlettered(m)) \in Nat /\ Cardinality(Unread(m)) \in Nat
        BY HoldersFinite DEF Unlettered, Unread
      <4> QED
        BY <4>1
    <3>4. CASE jobs' = jobs
      BY <3>4, <3>6, HoldersKept DEF Unlettered, Unread
    <3>5. ASSUME NEW worker \in Workers, Die(worker)
          PROVE  /\ Cardinality(Unlettered(m)') <= Cardinality(Unlettered(m))
                 /\ Cardinality(Unread(m)') <= Cardinality(Unread(m))
                 /\ \A j \in Jobs : jobs'[j].pc = "write errors" => jobs'[j] = jobs[j]
      <4>1. \A j \in Jobs : jobs'[j].pc = "write errors" => jobs'[j] = jobs[j]
        BY <3>5, DieEffect
      <4> QED
        BY <3>1, <3>5, <4>1, HoldersDie DEF Unlettered, Unread
    <3> QED
      BY <1>1, <1>5, <3>3, <3>4, <3>5, <3>6, StepKinds DEF Sent, Expire
  <2>3. history'[m].fails = history[m].fails
    <3>1. ASSUME NEW k \in MsgIds, Expire(k) PROVE history'[m].fails = history[m].fails
      <4>1. history \in [MsgIds -> History]
        BY <1>1 DEF TypeOK
      <4>2. history' = history \/ \E n : history' = [history EXCEPT ![k].early = n]
        BY <3>1 DEF Expire
      <4> QED
        BY <4>1, <4>2 DEF History
    <3> QED
      BY <1>1, <1>5, <3>1, DieEffect, StepKinds DEF Sent, PollEffect
  <2>4. rows'[m].errs \in {0, rows[m].errs}
    <3>1. rows[m] \in Row
      BY <1>1 DEF TypeOK
    <3>2. ASSUME NEW k \in MsgIds, NEW orig, Sent(k, orig)
          PROVE  rows'[m].errs \in {0, rows[m].errs}
      BY <1>1, <3>2 DEF Sent, NewRow, TypeOK
    <3>3. ASSUME NEW k \in MsgIds, Expire(k)
          PROVE  rows'[m].errs = rows[m].errs
      BY <1>1, <3>1, <3>3 DEF Expire, TypeOK, Row
    <3>4. ASSUME NEW batch \in SUBSET Readable, NEW task, PollEffect(batch, task)
          PROVE  rows'[m].errs = rows[m].errs
      BY <3>1, <3>4 DEF PollEffect, ReadRow, Row
    <3> QED
      BY <1>1, <1>5, <3>2, <3>3, <3>4, DieEffect, StepKinds
  <2>5. Letters1(m)
    <3>1. /\ Cardinality(Letters(m)) + Cardinality(Unlettered(m)) <= history[m].fails
          /\ Cardinality(Letters(m)) \in Nat /\ Cardinality(Unlettered(m)) \in Nat
          /\ history[m].fails \in Nat
      BY <1>1, <1>2, FailuresTypes
    <3>2. Cardinality(Unlettered(m)') \in Nat
      BY NextHoldersFinite DEF Unlettered
    <3>3. \A l, f, u, u1 \in Nat : l + u <= f /\ u1 <= u => l + u1 <= f
      OBVIOUS
    <3>4. Cardinality(Unlettered(m)') <= Cardinality(Unlettered(m))
      BY <2>2
    <3>5. Cardinality(Letters(m)) + Cardinality(Unlettered(m)') <= history[m].fails
      BY <3>1, <3>2, <3>3, <3>4
    <3> QED
      BY <2>1, <2>3, <3>5
  <2>6. Errors1(m)
    <3>1. /\ rows[m].errs + Cardinality(Unread(m)) <= history[m].fails
          /\ rows[m].errs \in Nat /\ Cardinality(Unread(m)) \in Nat /\ history[m].fails \in Nat
      BY <1>1, <1>2, FailuresTypes
    <3>2. /\ Cardinality(Unread(m)') <= Cardinality(Unread(m))
          /\ Cardinality(Unread(m)') \in Nat
      BY <2>2, NextHoldersFinite DEF Unread
    <3>3. CASE rows'[m].errs = 0
      BY <2>3, <3>1, <3>2, <3>3
    <3>4. CASE rows'[m].errs = rows[m].errs
      BY <2>3, <3>1, <3>2, <3>4
    <3> QED
      BY <2>4, <3>3, <3>4
  <2>7. ASSUME NEW j \in Jobs, jobs'[j].pc = "write errors", jobs'[j].msg = m
        PROVE  Job1(j, m)
    <3>1. jobs'[j] = jobs[j] /\ At(j, "write errors")
      BY <2>2, <2>7 DEF At
    <3>2. /\ jobs[j].errs + Cardinality(Unread(m)) <= history[m].fails
          /\ jobs[j].errs \in Nat /\ history[m].fails \in Nat
          /\ Cardinality(Unread(m)) \in Nat /\ Cardinality(Unread(m)') \in Nat
      BY <1>1, <1>2, <2>7, <3>1, FailuresTypes, NextHoldersFinite DEF Unread, TypeOK, Job
    <3>3. Cardinality(Unread(m)') <= Cardinality(Unread(m))
      BY <2>2
    <3>4. \A e, f, u, u1 \in Nat : e + u <= f /\ u1 <= u => e + u1 <= f
      OBVIOUS
    <3>5. jobs[j].errs + Cardinality(Unread(m)') <= history[m].fails
      BY <3>2, <3>3, <3>4
    <3> QED
      BY <2>3, <3>1, <3>5
  <2> QED
    BY <2>5, <2>6, <2>7
<1>6. \A m \in MsgIds : Letters1(m) /\ Errors1(m)
  BY <1>4, <1>5
<1>7. ASSUME NEW j \in Jobs, At(j, "write errors")'
      PROVE  (jobs[j].errs + Cardinality(Unread(jobs[j].msg)) <= history[jobs[j].msg].fails)'
  <2>1. PICK m \in MsgIds : m = jobs'[j].msg
    BY <1>1, <1>7 DEF TypeOK, Active, At
  <2>2. Job1(j, m)
    BY <1>4, <1>5, <1>7, <2>1 DEF At
  <2> QED
    BY <2>1, <2>2 DEF Unread, Holders, At
<1>8. (\A m \in MsgIds :
        /\ Cardinality(Letters(m)) + Cardinality(Unlettered(m)) <= history[m].fails
        /\ rows[m].errs + Cardinality(Unread(m)) <= history[m].fails)'
  BY <1>6
<1> QED
  BY <1>1, <1>7, <1>8 DEF FailuresInv

(* A failure has at most one DLQ message, and is counted at most once in   *)
(* the errors header, with any number of jobs on one message.              *)
THEOREM FailuresCorrect == Spec => []FailuresBound
<1>1. FailuresInv => FailuresBound
  <2> SUFFICES ASSUME FailuresInv, NEW m \in MsgIds
               PROVE  /\ Cardinality(Letters(m)) <= history[m].fails
                      /\ rows[m].errs <= history[m].fails
    BY DEF FailuresBound, Letters
  <2>1. /\ Cardinality(Letters(m)) + Cardinality(Unlettered(m)) <= history[m].fails
        /\ rows[m].errs + Cardinality(Unread(m)) <= history[m].fails
    BY DEF FailuresInv
  <2>2. TypeOK
    BY DEF FailuresInv
  <2>3. /\ Cardinality(Letters(m)) \in Nat /\ Cardinality(Unlettered(m)) \in Nat
        /\ Cardinality(Unread(m)) \in Nat
        /\ history[m].fails \in Nat /\ rows[m].errs \in Nat
    BY <2>2, FailuresTypes
  <2> QED
    BY <2>1, <2>3
<1> QED
  BY <1>1, FailuresInit, FailuresStep, PTL DEF Spec

-----------------------------------------------------------------------------
(* The errors header of a message without faults and early expiries.       *)

(* What a poll does to a job.                                              *)
LEMMA PollJob ==
  ASSUME NEW batch \in SUBSET Readable, NEW task \in [Idle -> batch \cup {NoId}],
         PollEffect(batch, task), NEW i \in Jobs
  PROVE  \/ jobs'[i] = jobs[i]
         \/ /\ i \in Idle /\ task[i] \in batch
            /\ jobs'[i].msg = task[i] /\ jobs'[i].pc = FirstStep
<1>1. CASE i \in Idle /\ task[i] # NoId
  <2>1. jobs'[i] = NewJob(task[i]) /\ task[i] \in batch
    BY <1>1 DEF PollEffect
  <2> QED
    BY <1>1, <2>1, NewJobStep
<1>2. CASE ~(i \in Idle /\ task[i] # NoId)
  BY <1>2 DEF PollEffect
<1> QED
  BY <1>1, <1>2

(* A step that does not concern a message.                                 *)
LEMMA ToldKept ==
  ASSUME TypeOK, NEW m \in MsgIds, Told(m),
         rows'[m].errs = rows[m].errs, history'[m].fails = history[m].fails,
         InQueue(m) => InQueue(m)',
         \A j \in Jobs : (Active(j) /\ jobs[j].msg = m) \/ (Active(j)' /\ jobs'[j].msg = m)
                         => jobs'[j] = jobs[j]
  PROVE  Told(m)'
<1>1. ~Held(m)' => ~Held(m)
  BY DEF Held, Active
<1>2. ASSUME NEW j \in Jobs, Active(j)', jobs'[j].msg = m
      PROVE  HeldErrors(j)'
  <2>1. jobs'[j] = jobs[j] /\ Active(j) /\ jobs[j].msg = m
    BY <1>2 DEF Active
  <2>2. HeldErrors(j)
    BY <2>1 DEF Told
  <2> QED
    BY <2>1, <2>2 DEF HeldErrors, At, InQueue
<1> QED
  BY <1>1, <1>2 DEF Told

LEMMA RaiseMove ==
  ASSUME TypeOK, NEW j \in Jobs, Raise(j)
  PROVE  jobs'[j].pc = "read errors"
<1>1. PICK step, retry : /\ step = "read errors"
                         /\ jobs' = [jobs EXCEPT ![j] = JobAt(step, jobs[j].msg, retry)]
  BY DEF Raise, Catch
<1>2. jobs'[j] = JobAt(step, jobs[j].msg, retry)
  BY <1>1 DEF TypeOK
<1>3. jobs'[j].pc = step
  BY <1>2, JobAtMsg
<1> QED
  BY <1>1, <1>3

(* The only holder of a message executes a statement.                      *)
LEMMA ToldMove ==
  ASSUME ExclusiveInv, [Next]_vars, NEW j \in Jobs, JobMove(j),
         NEW m \in MsgIds, m = jobs[j].msg, history[m].early = 0, faults' = 0,
         Told(m)
  PROVE  Told(m)'
<1>1. TypeOK /\ Active(j) /\ Comes(j)
  BY Moves DEF ExclusiveInv
<1>2. ~Crash(j) /\ ~CompleteRaises(j)
  <2>1. Crash(j) \/ CompleteRaises(j) => faults' = faults + 1
    BY DEF Crash, CompleteRaises, Fault
  <2>2. faults \in Nat
    BY <1>1, FaultsMove
  <2> QED
    BY <2>1, <2>2
<1>3. /\ InQueue(m)
      /\ history[m].fails = IF At(j, "write errors") THEN jobs[j].errs
                            ELSE rows[m].errs + (IF At(j, "read errors") THEN 1 ELSE 0)
  BY <1>1 DEF Told, HeldErrors
<1>4. \A i \in Jobs \ {j} : ~(Active(i) /\ jobs[i].msg = m) /\ jobs'[i] = jobs[i]
  BY <1>1, OtherJobs DEF ExclusiveInv, HolderInv, JobMove
<1>5. /\ rows'[m].errs = IF WriteErrors(j) THEN jobs[j].errs ELSE rows[m].errs
      /\ ~At(j, "remove") => InQueue(m)'
  BY <1>1, <1>3, RowMove
<1>6. history'[m].fails = history[m].fails + (IF Raise(j) THEN 1 ELSE 0)
  BY <1>1, <1>2, HistoryMove
<1>7. /\ rows[m].errs \in Nat /\ history[m].fails \in Nat /\ jobs[j].errs \in Nat
  BY <1>1 DEF TypeOK, Row, History, Job
<1>8. ~Raise(j) => history'[m].fails = history[m].fails
  <2>1. ~Raise(j) => history'[m].fails = history[m].fails + 0
    BY <1>6
  <2> QED
    BY <1>7, <2>1
<1>9. RemoveStep \in {"set status", "remove"}
  BY DEF RemoveStep
<1>10. /\ WriteErrors(j) => At(j, "write errors")
       /\ Raise(j) => At(j, "run")
  BY DEF WriteErrors, Raise
<1>11. /\ At(j, "write errors") => /\ WriteErrors(j)
                                   /\ jobs'[j].pc \notin {"idle", "read errors", "write errors"}
       /\ At(j, "read errors") => /\ jobs'[j].pc = "write errors"
                                  /\ jobs'[j].errs = ErrorsOf(m) + 1
       /\ Raise(j) => jobs'[j].pc = "read errors"
       /\ ~At(j, "write errors") /\ ~At(j, "read errors") /\ ~Raise(j)
            => /\ jobs'[j].pc \notin {"read errors", "write errors"}
               /\ jobs'[j].pc = "idle" \/ ~At(j, "remove")
  <2>1. Raise(j) => At(j, "run") /\ jobs'[j].pc = "read errors"
    BY <1>1, <1>10, RaiseMove
  <2>2. /\ At(j, "write errors") => /\ WriteErrors(j)
                                    /\ jobs'[j].pc \in {"retry status", "payload", RemoveStep}
        /\ At(j, "read errors") => /\ jobs'[j].pc = "write errors"
                                   /\ jobs'[j].errs = ErrorsOf(m) + 1
        /\ ~At(j, "write errors") /\ ~At(j, "read errors") /\ ~Raise(j)
             => /\ jobs'[j].pc \notin {"read errors", "write errors"}
                /\ jobs'[j].pc = "idle" \/ ~At(j, "remove")
    BY <1>1, <1>2, <1>9 DEF Comes, At
  <2> QED
    BY <1>9, <2>1, <2>2
<1>12. rows'[m].errs = IF At(j, "write errors") THEN jobs[j].errs ELSE rows[m].errs
  BY <1>5, <1>10, <1>11
<1>13. CASE At(j, "write errors")
  <2>1. history'[m].fails = history[m].fails
    <3>1. ~Raise(j)
      BY <1>10, <1>13 DEF At
    <3> QED
      BY <1>8, <3>1
  <2>2. rows'[m].errs = history'[m].fails
    <3>1. history[m].fails = jobs[j].errs /\ rows'[m].errs = jobs[j].errs
      BY <1>3, <1>12, <1>13
    <3> QED
      BY <2>1, <3>1
  <2>3. InQueue(m)' /\ Active(j)' /\ jobs'[j].msg = m
    BY <1>1, <1>5, <1>11, <1>13, Moves DEF At, Active
  <2>4. HeldErrors(j)'
    <3>1. jobs'[j].pc \notin {"read errors", "write errors"} /\ history'[m].fails \in Nat
      BY <1>7, <1>11, <1>13, <2>1
    <3>2. rows'[m].errs \in Nat
      BY <1>3, <1>7, <1>12, <1>13
    <3>3. history'[m].fails = rows'[m].errs + 0
      BY <2>2, <3>2
    <3> QED
      BY <2>3, <3>1, <3>3 DEF HeldErrors, At, InQueue
  <2> QED
    BY <1>4, <2>3, <2>4 DEF Told, Held, Active
<1>14. CASE At(j, "read errors")
  <2>1. history'[m].fails = history[m].fails
    <3>1. ~Raise(j)
      BY <1>10, <1>14 DEF At
    <3> QED
      BY <1>8, <3>1
  <2>2. history[m].fails = rows[m].errs + 1
    BY <1>3, <1>14 DEF At
  <2>3. jobs'[j].errs = history'[m].fails
    BY <1>3, <1>11, <1>14, <2>1, <2>2 DEF ErrorsOf
  <2>4. InQueue(m)' /\ Active(j)' /\ jobs'[j].msg = m
    BY <1>1, <1>5, <1>11, <1>14, Moves DEF At, Active
  <2>5. HeldErrors(j)'
    BY <1>11, <1>14, <2>3, <2>4 DEF HeldErrors, At, InQueue
  <2> QED
    BY <1>4, <2>4, <2>5 DEF Told, Held, Active
<1>15. CASE Raise(j)
  <2>1. history'[m].fails = history[m].fails + 1
    BY <1>6, <1>15
  <2>2. At(j, "run") /\ jobs'[j].pc = "read errors"
    BY <1>10, <1>11, <1>15
  <2>3. history[m].fails = rows[m].errs /\ rows'[m].errs = rows[m].errs
    <3>1. jobs[j].pc = "run" /\ ~At(j, "write errors") /\ ~At(j, "read errors")
      BY <2>2 DEF At
    <3>2. history[m].fails = rows[m].errs + 0 /\ rows'[m].errs = rows[m].errs
      BY <1>3, <1>12, <3>1
    <3> QED
      BY <1>7, <3>2
  <2>4. InQueue(m)' /\ Active(j)' /\ jobs'[j].msg = m
    BY <1>1, <1>5, <2>2, Moves DEF At, Active
  <2>5. HeldErrors(j)'
    BY <2>1, <2>2, <2>3, <2>4 DEF HeldErrors, At, InQueue
  <2> QED
    BY <1>4, <2>4, <2>5 DEF Told, Held, Active
<1>16. CASE ~At(j, "write errors") /\ ~At(j, "read errors") /\ ~Raise(j)
  <2>1. history'[m].fails = history[m].fails
    BY <1>16, <1>8
  <2>2. history'[m].fails = rows'[m].errs + 0
    BY <1>3, <1>12, <1>16, <2>1
  <2>3. CASE Active(j)'
    <3>1. InQueue(m)' /\ jobs'[j].msg = m
      BY <1>1, <1>5, <1>11, <1>16, <2>3, Moves DEF At, Active
    <3>2. HeldErrors(j)'
      BY <1>11, <1>16, <2>2, <3>1 DEF HeldErrors, At, InQueue
    <3> QED
      BY <1>4, <2>3, <3>1, <3>2 DEF Told, Held, Active
  <2>4. CASE ~Active(j)'
    <3>1. rows'[m].errs = history'[m].fails
      <4>1. rows'[m].errs \in Nat
        BY <1>7, <1>12
      <4> QED
        BY <2>2, <4>1
    <3>2. \A i \in Jobs : ~(Active(i)' /\ jobs'[i].msg = m)
      BY <1>4, <2>4 DEF Active
    <3> QED
      BY <3>1, <3>2 DEF Told
  <2> QED
    BY <2>3, <2>4
<1> QED
  BY <1>13, <1>14, <1>15, <1>16

LEMMA ErrorsStep == ErrorsInv /\ [Next]_vars => ErrorsInv'
<1> SUFFICES ASSUME ErrorsInv, [Next]_vars,
                    NEW m \in MsgIds, faults' = 0, history'[m].early = 0
             PROVE  Told(m)'
  <2>1. ErrorsInv /\ [Next]_vars => ExclusiveInv' /\ Blank'
    BY HolderStep, BlankStep DEF ErrorsInv, ExclusiveInv
  <2>2. ASSUME ErrorsInv, [Next]_vars,
               \A m \in MsgIds : faults' = 0 /\ history'[m].early = 0 => Told(m)'
        PROVE  ErrorsInv'
    BY <2>1, <2>2 DEF ErrorsInv
  <2> QED
    BY <2>2
<1>1. ExclusiveInv /\ TypeOK /\ Numbered /\ HolderInv /\ Blank
  BY DEF ErrorsInv, ExclusiveInv
<1>2. history[m].early = 0
  BY <1>1, EarlyGrows
<1>3. rows[m] \in Row /\ history[m] \in History
  BY <1>1 DEF TypeOK
<1>4. ASSUME NEW j \in Jobs, JobMove(j)
      PROVE  Told(m)'
  <2>1. faults = 0
    <3>1. faults \in Nat /\ (faults' = faults + 1 \/ faults' = faults + 0)
      BY <1>1, <1>4, FaultsMove
    <3> QED
      BY <3>1
  <2>2. Told(m)
    BY <1>1, <1>2, <2>1 DEF ErrorsInv
  <2>3. CASE m = jobs[j].msg
    BY <1>1, <1>2, <1>4, <2>2, <2>3, ToldMove
  <2>4. CASE m # jobs[j].msg
    <3>1. rows'[m] = rows[m] /\ history'[m] = history[m]
      BY <1>1, <1>4, <2>4, RowMove, HistoryMove
    <3>2. \A i \in Jobs : i # j => jobs'[i] = jobs[i]
      BY <1>1, <1>4, OtherJobs DEF JobMove
    <3>3. Active(j)' => jobs'[j].msg = jobs[j].msg
      BY <1>1, <1>4, Moves
    <3>4. \A i \in Jobs : (Active(i) /\ jobs[i].msg = m) \/ (Active(i)' /\ jobs'[i].msg = m)
                            => jobs'[i] = jobs[i]
      BY <2>4, <3>2, <3>3
    <3> QED
      BY <1>1, <2>2, <3>1, <3>4, ToldKept DEF InQueue
  <2> QED
    BY <2>3, <2>4
<1>5. ASSUME NEW k \in MsgIds, NEW orig \in Nat, Sent(k, orig)
      PROVE  Told(m)'
  <2>1. Told(m)
    BY <1>1, <1>2, <1>5 DEF ErrorsInv, Sent
  <2>2. CASE m = k
    <3>1. rows[m].loc = "unsent" /\ history[m] = NoHistory /\ rows'[m] = NewRow("queue", orig)
          /\ jobs' = jobs /\ history' = history
      BY <1>1, <1>5, <2>2 DEF Sent, TypeOK, Blank
    <3>2. rows'[m].errs = 0 /\ history'[m].fails = 0
      BY <3>1 DEF NewRow, NoHistory
    <3>3. \A i \in Jobs : ~(Active(i)' /\ jobs'[i].msg = m)
      <4>1. m > lastMsg
        BY <1>1, <3>1 DEF Numbered
      <4> QED
        BY <1>1, <3>1, <4>1 DEF Numbered, Active, MsgIds, TypeOK
    <3> QED
      BY <3>2, <3>3 DEF Told
  <2>3. CASE m # k
    BY <1>1, <1>5, <2>1, <2>3, ToldKept DEF Sent, TypeOK, InQueue
  <2> QED
    BY <2>2, <2>3
<1>6. ASSUME NEW batch \in SUBSET Readable, NEW task \in [Idle -> batch \cup {NoId}],
             PollEffect(batch, task)
      PROVE  Told(m)'
  <2>1. /\ rows'[m].errs = rows[m].errs /\ rows'[m].loc = rows[m].loc
        /\ history' = history /\ faults' = faults
    BY <1>3, <1>6 DEF PollEffect, ReadRow, Row
  <2>2. Told(m)
    BY <1>1, <1>2, <2>1 DEF ErrorsInv
  <2>3. CASE m \in batch
    <3>1. InQueue(m) /\ ~Held(m)
      BY <1>1, <1>2, <2>3 DEF Readable, Held, HolderInv
    <3>2. rows'[m].errs = history'[m].fails /\ InQueue(m)'
      BY <2>1, <2>2, <3>1 DEF Told, InQueue
    <3>3. ASSUME NEW i \in Jobs, Active(i)', jobs'[i].msg = m
          PROVE  jobs'[i].pc = FirstStep
      BY <1>6, <3>1, <3>3, PollJob DEF Held, Active
    <3>4. FirstStep \notin {"read errors", "write errors"}
      BY DEF FirstStep
    <3>5. history'[m].fails \in Nat
      BY <1>3, <2>1 DEF History
    <3>6. ASSUME NEW i \in Jobs, Active(i)', jobs'[i].msg = m
          PROVE  HeldErrors(i)'
      <4>1. history'[m].fails = rows'[m].errs + 0
        BY <3>2, <3>5
      <4>2. jobs'[i].pc \notin {"read errors", "write errors"}
        BY <3>3, <3>4, <3>6
      <4> QED
        BY <3>2, <3>6, <4>1, <4>2 DEF HeldErrors, At, InQueue
    <3> QED
      BY <3>2, <3>6 DEF Told
  <2>4. CASE m \notin batch
    <3>1. ASSUME NEW i \in Jobs, (Active(i) /\ jobs[i].msg = m) \/ (Active(i)' /\ jobs'[i].msg = m)
          PROVE  jobs'[i] = jobs[i]
      BY <1>6, <2>4, <3>1, PollJob DEF Idle
    <3> QED
      BY <1>1, <2>1, <2>2, <3>1, ToldKept DEF InQueue
  <2> QED
    BY <2>3, <2>4
<1>7. ASSUME NEW k \in MsgIds, Expire(k)
      PROVE  Told(m)'
  <2>1. jobs' = jobs /\ faults' = faults
    BY <1>7 DEF Expire
  <2>2. Told(m)
    BY <1>1, <1>2, <2>1 DEF ErrorsInv
  <2>3. rows'[m].errs = rows[m].errs /\ rows'[m].loc = rows[m].loc
    BY <1>1, <1>3, <1>7 DEF Expire, TypeOK, Row
  <2>4. history'[m].fails = history[m].fails
    <3>1. history' = history \/ \E n : history' = [history EXCEPT ![k].early = n]
      BY <1>7 DEF Expire
    <3>2. PICK h \in [MsgIds -> History] : h = history
      BY <1>1 DEF TypeOK
    <3>3. \A n : [h EXCEPT ![k].early = n][m].fails = h[m].fails
      BY DEF History
    <3> QED
      BY <3>1, <3>2, <3>3
  <2> QED
    BY <1>1, <2>1, <2>2, <2>3, <2>4, ToldKept DEF InQueue
<1>8. CASE UNCHANGED <<rows, lastMsg, dlq, jobs, faults, history>>
  <2>1. Told(m)
    BY <1>1, <1>2, <1>8 DEF ErrorsInv
  <2> QED
    BY <1>1, <1>8, <2>1, ToldKept DEF InQueue
<1>9. ASSUME NEW worker \in Workers, Die(worker) PROVE FALSE
  BY <1>1, <1>9, DieEffect, CountsAssumption DEF TypeOK
<1> QED
  BY <1>1, <1>4, <1>5, <1>6, <1>7, <1>8, <1>9, StepKinds

(* Every failure is in the errors header as long as no statement fails and *)
(* no vt passes under a job.                                               *)
THEOREM NoErrorLostCorrect == Spec => []NoErrorLost
<1>1. Init => ErrorsInv
  <2> SUFFICES ASSUME Init PROVE ErrorsInv
    OBVIOUS
  <2>1. \A j \in Jobs : ~Active(j)
    BY DEF Init, IdleJob, JobAt, Active
  <2>2. \A m \in MsgIds : Told(m)
    BY <2>1 DEF Init, Told, NewRow, NoHistory
  <2> QED
    BY <2>1, <2>2, TypeInit, NumberedInit, BlankInit DEF ErrorsInv, ExclusiveInv, HolderInv
<1>2. ErrorsInv => NoErrorLost
  BY DEF ErrorsInv, NoErrorLost, Told
<1> QED
  BY <1>1, <1>2, ErrorsStep, PTL DEF Spec

-----------------------------------------------------------------------------
(* The calls of the processor a message has left.                          *)

LEMMA AttemptsType ==
  Attempts \in Nat /\ Attempts >= 1 /\ (MaxRetries > 0 => Attempts >= MaxRetries)
BY CountsAssumption DEF Attempts

LEMMA ExpectedType ==
  ASSUME TypeOK, NEW m \in MsgIds
  PROVE  /\ Expected(m) \in Nat /\ Excess(m) \in Nat
         /\ rows[m].errs \in Nat /\ history[m].starts \in Nat
         /\ history[m].early \in Nat /\ faults \in Nat
         /\ Cardinality(Unstarted(m)) \in Nat
         /\ history[m].starts + Cardinality(Unstarted(m)) <= Expected(m)
<1>1. Cardinality(Unstarted(m)) \in Nat
  BY HoldersFinite DEF Unstarted
<1>2. /\ rows[m].errs \in Nat /\ history[m].starts \in Nat
      /\ history[m].early \in Nat /\ faults \in Nat
  BY CountsAssumption DEF TypeOK, Row, History
<1> QED
  BY <1>1, <1>2 DEF Expected, Excess

LEMMA NextExpectedType ==
  ASSUME TypeOK', NEW m \in MsgIds
  PROVE  Expected(m)' \in Nat /\ Excess(m)' \in Nat
<1>1. Cardinality(Unstarted(m)') \in Nat
  BY NextHoldersFinite DEF Unstarted
<1>2. history'[m].starts \in Nat /\ history'[m].early \in Nat /\ faults' \in Nat
  BY CountsAssumption DEF TypeOK, History
<1> QED
  BY <1>1, <1>2 DEF Expected, Excess

(* The steps of the holders of a message at which StartsLeft says more.    *)
CountedSteps == {"write errors", "retry status", "retry vt"}

(* A step that starts nothing and leaves the errors header as it is.       *)
LEMMA StartsApart ==
  ASSUME TypeOK, TypeOK', NEW m \in MsgIds, StartsLeft(m),
         Expected(m)' <= Expected(m), Excess(m) <= Excess(m)',
         rows'[m].errs = rows[m].errs, history'[m].starts = history[m].starts,
         InQueue(m)' => InQueue(m),
         Held(m) => Held(m)' \/ Excess(m) < Excess(m)',
         \A j \in Jobs : jobs'[j].msg = m /\ jobs'[j].pc \in CountedSteps => jobs'[j] = jobs[j]
  PROVE  StartsLeft(m)'
<1> DEFINE E == Expected(m)
           X == Excess(m)
           E1 == Expected(m)'
           X1 == Excess(m)'
<1>1. /\ E \in Nat /\ X \in Nat /\ E1 \in Nat /\ X1 \in Nat /\ E1 <= E /\ X <= X1
      /\ rows[m].errs \in Nat /\ history[m].starts \in Nat
  BY ExpectedType, NextExpectedType
<1>2. Attempts \in Nat
  BY AttemptsType
<1>3. Attempts' = Attempts
  BY DEF Attempts
<1>4. /\ E <= Attempts + X
      /\ InQueue(m) => E <= rows[m].errs + 1 + X
      /\ InQueue(m) /\ ~Held(m) => /\ history[m].starts <= rows[m].errs + X
                                   /\ history[m].starts < Attempts + X
  BY DEF StartsLeft
<1>5. ASSUME NEW j \in Jobs, jobs'[j].msg = m, InQueue(m)', jobs'[j].pc \in CountedSteps
      PROVE  /\ jobs'[j].pc = "write errors" => E1 <= jobs'[j].errs + X1
             /\ jobs'[j].pc \in {"retry status", "retry vt"} =>
                  E1 <= rows'[m].errs + X1 /\ E1 < Attempts + X1
  <2>1. jobs'[j] = jobs[j] /\ jobs[j].errs \in Nat /\ InQueue(m)
    BY <1>5 DEF TypeOK, Job
  <2>2. /\ jobs[j].pc = "write errors" => E <= jobs[j].errs + X
        /\ jobs[j].pc \in {"retry status", "retry vt"} =>
             E <= rows[m].errs + X /\ E < Attempts + X
    BY <1>5, <2>1 DEF StartsLeft, At
  <2>3. rows'[m].errs = rows[m].errs /\ jobs'[j].errs = jobs[j].errs
    BY <2>1
  <2>4. CASE jobs[j].pc = "write errors"
    <3>1. E <= jobs[j].errs + X
      BY <2>2, <2>4
    <3> HIDE DEF E, X, E1, X1
    <3>2. E1 <= jobs[j].errs + X1
      BY <1>1, <2>1, <3>1
    <3> QED
      BY <2>1, <2>3, <2>4, <3>2
  <2>5. CASE jobs[j].pc \in {"retry status", "retry vt"}
    <3>1. E <= rows[m].errs + X /\ E < Attempts + X
      BY <2>2, <2>5
    <3> HIDE DEF E, X, E1, X1
    <3>2. E1 <= rows[m].errs + X1 /\ E1 < Attempts + X1
      BY <1>1, <1>2, <3>1
    <3> QED
      BY <2>1, <2>3, <2>5, <3>2
  <2> QED
    BY <1>5, <2>1, <2>4, <2>5 DEF CountedSteps
<1>6. /\ E1 <= Attempts + X1
      /\ InQueue(m)' => E1 <= rows'[m].errs + 1 + X1
      /\ InQueue(m)' /\ ~Held(m)' => /\ history'[m].starts <= rows'[m].errs + X1
                                     /\ history'[m].starts < Attempts + X1
  <2>1. history[m].starts <= E
    <3>1. /\ history[m].starts + Cardinality(Unstarted(m)) <= E
          /\ Cardinality(Unstarted(m)) \in Nat
      BY ExpectedType
    <3> HIDE DEF E
    <3> QED
      BY <1>1, <3>1
  <2>2. Held(m) => Held(m)' \/ X < X1
    OBVIOUS
  <2> HIDE DEF E, X, E1, X1
  <2> QED
    BY <1>1, <1>2, <1>4, <2>1, <2>2
<1> QED
  BY <1>3, <1>5, <1>6 DEF StartsLeft, At, CountedSteps

(* A statement never adds to the starts to expect.                         *)
LEMMA ExpectedMove ==
  ASSUME TypeOK, TypeOK', NEW j \in Jobs, JobMove(j), NEW m \in MsgIds
  PROVE  /\ Expected(m)' <= Expected(m)
         /\ Excess(m)' = Excess(m) + (IF Crash(j) \/ CompleteRaises(j) THEN 1 ELSE 0)
         /\ m # jobs[j].msg => Expected(m)' = Expected(m)
<1> DEFINE U == Cardinality(Unstarted(m))
           U1 == Cardinality(Unstarted(m)')
           S == history[m].starts
           S1 == history'[m].starts
           R == IF m \in Readable THEN 1 ELSE 0
           R1 == IF m \in Readable' THEN 1 ELSE 0
           steps == {"count", "start"}
<1>1. U \in Nat /\ S \in Nat /\ U1 \in Nat
  BY ExpectedType, NextHoldersFinite DEF Unstarted
<1>2. U1 = U + (IF m = jobs[j].msg /\ jobs'[j].pc \in steps THEN 1 ELSE 0)
             - (IF m = jobs[j].msg /\ jobs[j].pc \in steps THEN 1 ELSE 0)
  BY HoldersMove DEF Unstarted
<1>3. S1 = S + (IF m = jobs[j].msg /\ Start(j) THEN 1 ELSE 0)
  BY HistoryMove
<1>4. R1 <= R /\ R \in Nat /\ R1 \in Nat
  BY RowMove DEF Readable, InQueue
<1>5. Excess(m)' = Excess(m) + (IF Crash(j) \/ CompleteRaises(j) THEN 1 ELSE 0)
  <2>1. history'[m].early = history[m].early /\ history[m].early \in Nat
    BY HistoryMove, ExpectedType
  <2>2. CASE Crash(j) \/ CompleteRaises(j)
    <3>1. faults' = faults + 1 /\ faults \in Nat
      BY <2>2, FaultsMove
    <3>2. Excess(m)' = Excess(m) + 1
      BY <2>1, <3>1 DEF Excess
    <3> QED
      BY <2>2, <3>2
  <2>3. CASE ~(Crash(j) \/ CompleteRaises(j))
    <3>1. faults' = faults + 0 /\ faults \in Nat
      BY <2>3, FaultsMove
    <3>2. Excess(m)' = Excess(m) + 0
      BY <2>1, <3>1 DEF Excess
    <3> QED
      BY <2>3, <3>2
  <2> QED
    BY <2>2, <2>3
<1>6. /\ Start(j) => jobs[j].pc = "start" /\ jobs'[j].pc = "run"
      /\ jobs'[j].pc \in steps => jobs[j].pc \in steps
  <2>1. Comes(j) /\ RemoveStep \notin steps
    BY Moves DEF RemoveStep
  <2>2. jobs'[j].pc \in steps => jobs[j].pc \in steps
    BY <2>1 DEF Comes, At
  <2>3. Start(j) => jobs[j].pc = "start" /\ jobs'[j].pc = "run"
    <3> SUFFICES ASSUME Start(j) PROVE jobs[j].pc = "start" /\ jobs'[j].pc = "run"
      OBVIOUS
    <3>1. PICK step : step = "run" /\ GoTo(j, step)
      BY DEF Start
    <3>2. jobs'[j].pc = step
      BY <3>1 DEF GoTo, TypeOK, Job
    <3> QED
      BY <3>1, <3>2 DEF Start, At
  <2> QED
    BY <2>2, <2>3
<1>7. S1 + U1 <= S + U /\ (m # jobs[j].msg => S1 + U1 = S + U)
  <2>1. CASE m # jobs[j].msg
    <3>1. S1 = S + 0 /\ U1 = U + 0 - 0
      BY <1>2, <1>3, <2>1
    <3> HIDE DEF U, U1, S, S1
    <3> QED
      BY <1>1, <3>1
  <2>2. CASE m = jobs[j].msg /\ Start(j)
    <3>1. S1 = S + 1 /\ U1 = U + 0 - 1
      BY <1>2, <1>3, <1>6, <2>2
    <3> HIDE DEF U, U1, S, S1
    <3> QED
      BY <1>1, <2>2, <3>1
  <2>3. CASE m = jobs[j].msg /\ ~Start(j)
    <3>1. S1 = S + 0 /\ (U1 = U + 0 - 0 \/ U1 = U + 0 - 1 \/ U1 = U + 1 - 1)
      BY <1>2, <1>3, <1>6, <2>3
    <3> HIDE DEF U, U1, S, S1
    <3> QED
      BY <1>1, <2>3, <3>1
  <2> QED
    BY <2>1, <2>2, <2>3
<1>8. m # jobs[j].msg => R1 = R
  BY RowMove DEF Readable, InQueue
<1>9. S1 \in Nat
  BY NextExpectedType DEF TypeOK, History
<1> HIDE DEF U, U1, S, S1, R, R1
<1>10. S1 + U1 + R1 <= S + U + R /\ (m # jobs[j].msg => S1 + U1 + R1 = S + U + R)
  BY <1>1, <1>4, <1>7, <1>8, <1>9
<1> QED
  BY <1>5, <1>10 DEF Expected, U, U1, S, S1, R, R1

(* What a holder does to the header, and how it ends.                      *)
LEMMA HolderMove ==
  ASSUME TypeOK, NEW j \in Jobs, JobMove(j), NEW m \in MsgIds, m = jobs[j].msg
  PROVE  /\ rows'[m].errs = IF InQueue(m) /\ At(j, "write errors") /\ WriteErrors(j)
                            THEN jobs[j].errs ELSE rows[m].errs
         /\ jobs'[j].pc = "write errors" => jobs'[j].errs = ErrorsOf(m) + 1
         /\ jobs'[j].pc = "retry status" =>
              At(j, "write errors") /\ WriteErrors(j) /\ jobs[j].errs < MaxRetries
         /\ jobs'[j].pc = "retry vt" =>
              At(j, "retry status") /\ ~(At(j, "write errors") /\ WriteErrors(j))
         /\ ~Active(j)' /\ InQueue(m)' =>
              \/ At(j, "count") \/ At(j, "retry vt") \/ Crash(j)
<1>1. Comes(j) /\ Active(j)
  BY Moves
<1>2. RemoveStep \in RemoveSteps
  BY DEF RemoveStep, RemoveSteps
<1>3. WriteErrors(j) => At(j, "write errors")
  BY DEF WriteErrors
<1>4. rows'[m].errs = IF InQueue(m) /\ At(j, "write errors") /\ WriteErrors(j)
                      THEN jobs[j].errs ELSE rows[m].errs
  BY <1>3, RowMove
<1>5. jobs'[j].pc = "write errors" => jobs'[j].errs = ErrorsOf(m) + 1
  BY <1>1, <1>2 DEF Comes, RemoveSteps
<1>6. /\ jobs'[j].pc = "retry status" =>
           At(j, "write errors") /\ WriteErrors(j) /\ jobs[j].errs < MaxRetries
      /\ jobs'[j].pc = "retry vt" => At(j, "retry status")
  BY <1>1, <1>2 DEF Comes, RemoveSteps
<1>7. At(j, "retry status") => ~At(j, "write errors")
  BY DEF At
<1>8. ~Active(j)' /\ InQueue(m)' => At(j, "count") \/ At(j, "retry vt") \/ Crash(j)
  <2>1. InQueue(m)' => InQueue(m) /\ ~Remove(j)
    BY RowMove
  <2> QED
    BY <1>1, <1>2, <2>1 DEF Comes, RemoveSteps, Active
<1> QED
  BY <1>4, <1>5, <1>6, <1>7, <1>8

(* A holder of the message executes a statement.                           *)
LEMMA StartsOwn ==
  ASSUME TypeOK, TypeOK', NEW j \in Jobs, JobMove(j), NEW m \in MsgIds, m = jobs[j].msg,
         StartsLeft(m)
  PROVE  StartsLeft(m)'
<1> DEFINE E == Expected(m)
           X == Excess(m)
           E1 == Expected(m)'
           X1 == Excess(m)'
<1>1. /\ E \in Nat /\ X \in Nat /\ E1 \in Nat /\ X1 \in Nat
      /\ rows[m].errs \in Nat /\ history[m].starts \in Nat /\ history'[m].starts \in Nat
      /\ Cardinality(Unstarted(m)) \in Nat
      /\ history[m].starts + Cardinality(Unstarted(m)) <= E
      /\ \A i \in Jobs : jobs[i].errs \in Nat
  BY ExpectedType, NextExpectedType DEF TypeOK, Job, History
<1>2. Attempts \in Nat /\ (MaxRetries > 0 => Attempts >= MaxRetries) /\ MaxRetries \in Nat
  BY AttemptsType, CountsAssumption
<1>3. Attempts' = Attempts
  BY DEF Attempts
<1>4. E1 <= E /\ X1 = X + (IF Crash(j) \/ CompleteRaises(j) THEN 1 ELSE 0)
  BY ExpectedMove
<1>5. X1 \in {X, X + 1} /\ (Crash(j) => X1 = X + 1)
  <2>1. (X1 = X + 0 \/ X1 = X + 1) /\ (Crash(j) => X1 = X + 1)
    BY <1>4
  <2> HIDE DEF X, X1
  <2> QED
    BY <1>1, <2>1
<1>6. InQueue(m)' => InQueue(m)
  BY RowMove
<1>7. InQueue(m) => /\ E <= rows[m].errs + 1 + X
                    /\ At(j, "write errors") => E <= jobs[j].errs + X
  BY Moves DEF StartsLeft
<1>8. E <= Attempts + X
  BY DEF StartsLeft
<1>9. E1 <= Attempts + X1
  <2> HIDE DEF E, X, E1, X1
  <2> QED
    BY <1>1, <1>2, <1>4, <1>5, <1>8
<1>10. PICK w \in BOOLEAN : w = (InQueue(m) /\ At(j, "write errors") /\ WriteErrors(j))
  OBVIOUS
<1>11. rows'[m].errs = IF w THEN jobs[j].errs ELSE rows[m].errs
  BY <1>10, HolderMove
<1>12. ASSUME InQueue(m)' PROVE E1 <= rows'[m].errs + 1 + X1
  <2>1. CASE w
    <3>1. rows'[m].errs = jobs[j].errs /\ E <= jobs[j].errs + X
      BY <1>7, <1>10, <1>11, <2>1
    <3> HIDE DEF E, X, E1, X1
    <3> QED
      BY <1>1, <1>4, <1>5, <3>1
  <2>2. CASE ~w
    <3>1. rows'[m].errs = rows[m].errs /\ E <= rows[m].errs + 1 + X
      BY <1>6, <1>7, <1>11, <1>12, <2>2
    <3> HIDE DEF E, X, E1, X1
    <3> QED
      BY <1>1, <1>4, <1>5, <3>1
  <2> QED
    BY <2>1, <2>2
<1>13. ASSUME InQueue(m)', ~Held(m)'
       PROVE  /\ history'[m].starts <= rows'[m].errs + X1
              /\ history'[m].starts < Attempts + X1
  <2>1. ~Active(j)' /\ InQueue(m)
    BY <1>6, <1>13, Moves DEF Held
  <2>2. At(j, "count") \/ At(j, "retry vt") \/ Crash(j)
    BY <1>13, <2>1, HolderMove
  <2>3. history'[m].starts = history[m].starts
    <3>1. ~Start(j)
      <4>1. Start(j) => jobs'[j].pc = "run"
        <5> SUFFICES ASSUME Start(j) PROVE jobs'[j].pc = "run"
          OBVIOUS
        <5>1. PICK step : step = "run" /\ GoTo(j, step)
          BY DEF Start
        <5>2. jobs'[j].pc = step
          BY <5>1 DEF GoTo, TypeOK, Job
        <5> QED
          BY <5>1, <5>2
      <4> QED
        BY <2>1, <4>1 DEF Active
    <3>2. history'[m].starts = history[m].starts + 0
      BY <3>1, HistoryMove
    <3> QED
      BY <1>1, <3>2
  <2>4. CASE Crash(j)
    <3>1. ~WriteErrors(j)
      <4>1. faults' = faults + 1 /\ faults \in Nat
        BY <2>4, ExpectedType DEF Crash, Fault
      <4>2. WriteErrors(j) => faults' = faults
        BY DEF WriteErrors
      <4> QED
        BY <4>1, <4>2
    <3>2. ~w
      BY <1>10, <3>1
    <3>3. rows'[m].errs = rows[m].errs /\ E <= rows[m].errs + 1 + X /\ X1 = X + 1
      BY <1>5, <1>7, <1>11, <2>1, <2>4, <3>2
    <3> HIDE DEF E, X, E1, X1
    <3> QED
      BY <1>1, <1>2, <1>8, <2>3, <3>3
  <2>5. CASE At(j, "count")
    <3>1. rows'[m].errs = rows[m].errs /\ E <= rows[m].errs + 1 + X
      BY <1>7, <1>10, <1>11, <2>1, <2>5 DEF At
    <3>2. Cardinality(Unstarted(m)) > 0
      <4>1. j \in Unstarted(m) /\ IsFiniteSet(Unstarted(m))
        <5>1. IsFiniteSet(Unstarted(m))
          BY HoldersFinite DEF Unstarted
        <5>2. j \in Unstarted(m)
          BY <2>5 DEF Unstarted, Holders, At
        <5> QED
          BY <5>1, <5>2
      <4>2. Cardinality(Unstarted(m)) # 0
        BY <4>1, FS_EmptySet
      <4> QED
        BY <1>1, <4>2
    <3> HIDE DEF E, X, E1, X1
    <3> QED
      BY <1>1, <1>2, <1>5, <1>8, <2>3, <3>1, <3>2
  <2>6. CASE At(j, "retry vt")
    <3>1. rows'[m].errs = rows[m].errs
      BY <1>10, <1>11, <2>6 DEF At
    <3>2. E <= rows[m].errs + X /\ E < Attempts + X
      BY <2>1, <2>6 DEF StartsLeft, At
    <3> HIDE DEF E, X, E1, X1
    <3> QED
      BY <1>1, <1>2, <1>5, <2>3, <3>1, <3>2
  <2> QED
    BY <2>2, <2>4, <2>5, <2>6
<1>14. ASSUME NEW i \in Jobs, jobs'[i].msg = m, InQueue(m)', jobs'[i].pc = "write errors"
       PROVE  E1 <= jobs'[i].errs + X1
  <2>1. CASE i # j
    <3>1. jobs'[i] = jobs[i]
      BY <2>1, OtherJobs DEF JobMove
    <3>2. E <= jobs[i].errs + X
      BY <1>6, <1>14, <3>1 DEF StartsLeft, At
    <3> HIDE DEF E, X, E1, X1
    <3> QED
      BY <1>1, <1>4, <1>5, <3>1, <3>2
  <2>2. CASE i = j
    <3>1. jobs'[j].errs = rows[m].errs + 1 /\ E <= rows[m].errs + 1 + X
      BY <1>6, <1>7, <1>14, <2>2, HolderMove DEF ErrorsOf
    <3> HIDE DEF E, X, E1, X1
    <3> QED
      BY <1>1, <1>4, <1>5, <2>2, <3>1
  <2> QED
    BY <2>1, <2>2
<1>15. ASSUME NEW i \in Jobs, jobs'[i].msg = m, InQueue(m)',
              jobs'[i].pc \in {"retry status", "retry vt"}
       PROVE  E1 <= rows'[m].errs + X1 /\ E1 < Attempts + X1
  <2>1. CASE i # j
    <3>1. jobs'[i] = jobs[i]
      BY <2>1, OtherJobs DEF JobMove
    <3>2. E <= rows[m].errs + X /\ E < Attempts + X
      BY <1>6, <1>15, <3>1 DEF StartsLeft
    <3>3. E <= rows'[m].errs + X
      BY <1>7, <1>10, <1>11, <3>2
    <3>4. rows'[m].errs \in Nat
      BY <1>1, <1>11
    <3> HIDE DEF E, X, E1, X1
    <3> QED
      BY <1>1, <1>2, <1>4, <1>5, <3>2, <3>3, <3>4
  <2>2. CASE i = j /\ jobs'[j].pc = "retry status"
    <3>1. w /\ jobs[j].errs < MaxRetries
      BY <1>6, <1>10, <1>15, <2>2, HolderMove
    <3>2. rows'[m].errs = jobs[j].errs /\ E <= jobs[j].errs + X
      BY <1>7, <1>10, <1>11, <3>1
    <3> HIDE DEF E, X, E1, X1
    <3> QED
      BY <1>1, <1>2, <1>4, <1>5, <3>1, <3>2
  <2>3. CASE i = j /\ jobs'[j].pc = "retry vt"
    <3>1. At(j, "retry status") /\ ~w
      BY <1>10, <2>3, HolderMove
    <3>2. rows'[m].errs = rows[m].errs /\ E <= rows[m].errs + X /\ E < Attempts + X
      BY <1>6, <1>11, <1>15, <3>1 DEF StartsLeft, At
    <3> HIDE DEF E, X, E1, X1
    <3> QED
      BY <1>1, <1>2, <1>4, <1>5, <3>2
  <2> QED
    BY <1>15, <2>1, <2>2, <2>3
<1> QED
  BY <1>3, <1>9, <1>12, <1>13, <1>14, <1>15 DEF StartsLeft, At

(* A vt passes: the message will be started once more, which an expiry     *)
(* under a job is counted for.                                             *)
LEMMA StartsExpire ==
  ASSUME TypeOK, TypeOK', NEW m \in MsgIds, Expire(m), StartsLeft(m), InQueue(m),
         jobs' = jobs, faults' = faults,
         rows'[m].errs = rows[m].errs, m \in Readable', m \notin Readable
  PROVE  StartsLeft(m)'
<1> DEFINE E == Expected(m)
           X == Excess(m)
           E1 == Expected(m)'
           X1 == Excess(m)'
           S == history[m].starts
           U == Cardinality(Unstarted(m))
<1>1. /\ E \in Nat /\ X \in Nat /\ E1 \in Nat /\ X1 \in Nat /\ S \in Nat /\ U \in Nat
      /\ rows[m].errs \in Nat /\ history[m].early \in Nat /\ faults \in Nat
      /\ \A i \in Jobs : jobs[i].errs \in Nat
  BY ExpectedType, NextExpectedType DEF TypeOK, Job
<1>2. Attempts \in Nat /\ Attempts' = Attempts
  BY AttemptsType DEF Attempts
<1>3. history[m] \in History /\ history \in [MsgIds -> History]
  BY DEF TypeOK
<1>4. history'[m].starts = S /\ Unstarted(m)' = Unstarted(m)
  <2>1. history' = history \/ \E n : history' = [history EXCEPT ![m].early = n]
    BY DEF Expire
  <2>2. history'[m].starts = S
    BY <1>3, <2>1 DEF History
  <2> QED
    BY <2>2, HoldersKept DEF Unstarted
<1>5. E = S + U + 0 /\ E1 = S + U + 1
  BY <1>4 DEF Expected
<1>6. Held(m)' <=> Held(m)
  BY DEF Held, Active
<1>7. CASE Held(m)
  <2>1. X1 = X + 1
    <3>1. history' = [history EXCEPT ![m].early = history[m].early + 1]
      BY <1>7 DEF Expire
    <3>2. history'[m].early = history[m].early + 1
      BY <1>3, <3>1 DEF History
    <3> QED
      BY <1>1, <3>2 DEF Excess
  <2>2. E <= Attempts + X /\ E <= rows[m].errs + 1 + X
    BY DEF StartsLeft
  <2>3. ASSUME NEW i \in Jobs, jobs[i].msg = m
        PROVE  /\ jobs[i].pc = "write errors" => E1 <= jobs[i].errs + X1
               /\ jobs[i].pc \in {"retry status", "retry vt"} =>
                    E1 <= rows[m].errs + X1 /\ E1 < Attempts + X1
    <3>1. jobs[i].errs \in Nat
      BY <1>1
    <3>2. CASE jobs[i].pc = "write errors"
      <4>1. E <= jobs[i].errs + X
        BY <2>3, <3>2 DEF StartsLeft, At
      <4> HIDE DEF E, X, E1, X1, S, U
      <4>2. E1 <= jobs[i].errs + X1
        BY <1>1, <1>5, <2>1, <3>1, <4>1
      <4> QED
        BY <3>2, <4>2
    <3>3. CASE jobs[i].pc \in {"retry status", "retry vt"}
      <4>1. E <= rows[m].errs + X /\ E < Attempts + X
        BY <2>3, <3>3 DEF StartsLeft
      <4> HIDE DEF E, X, E1, X1, S, U
      <4>2. E1 <= rows[m].errs + X1 /\ E1 < Attempts + X1
        BY <1>1, <1>2, <1>5, <2>1, <4>1
      <4> QED
        BY <3>3, <4>2
    <3> QED
      BY <3>2, <3>3
  <2>4. E1 <= Attempts + X1 /\ E1 <= rows[m].errs + 1 + X1
    <3> HIDE DEF E, X, E1, X1, S, U
    <3> QED
      BY <1>1, <1>2, <1>5, <2>1, <2>2
  <2> QED
    BY <1>2, <1>6, <1>7, <2>3, <2>4 DEF StartsLeft, At
<1>8. CASE ~Held(m)
  <2>1. X1 = X
    BY <1>8 DEF Expire, Excess
  <2>2. U = 0
    <3>1. Unstarted(m) = {}
      BY <1>8 DEF Unstarted, Holders, Held, Active
    <3> QED
      BY <3>1, FS_EmptySet
  <2>3. S <= rows[m].errs + X /\ S < Attempts + X
    BY <1>8 DEF StartsLeft
  <2>4. /\ E1 <= Attempts + X1 /\ E1 <= rows[m].errs + 1 + X1
        /\ S <= rows[m].errs + X1 /\ S < Attempts + X1
    <3> HIDE DEF E, X, E1, X1, S, U
    <3> QED
      BY <1>1, <1>2, <1>5, <2>1, <2>2, <2>3
  <2>5. \A i \in Jobs : jobs[i].msg = m => jobs[i].pc = "idle"
    BY <1>8 DEF Held, Active
  <2> QED
    BY <1>2, <1>4, <2>4, <2>5 DEF StartsLeft, At
<1> QED
  BY <1>7, <1>8

LEMMA StartsStep == StartsInv /\ [Next]_vars => StartsInv'
<1> SUFFICES ASSUME StartsInv, [Next]_vars, NEW m \in MsgIds
             PROVE  StartsLeft(m)'
  <2>1. StartsInv /\ [Next]_vars => TypeOK' /\ Numbered' /\ Blank'
    BY TypeStep, NumberedStep, BlankStep DEF StartsInv
  <2>2. ASSUME StartsInv, [Next]_vars, \A m \in MsgIds : StartsLeft(m)'
        PROVE  StartsInv'
    BY <2>1, <2>2 DEF StartsInv
  <2> QED
    BY <2>2
<1>1. TypeOK /\ Numbered /\ Blank /\ StartsLeft(m)
  BY DEF StartsInv
<1>2. TypeOK'
  BY <1>1, TypeStep
<1>3. rows[m] \in Row /\ history[m] \in History
  BY <1>1 DEF TypeOK
<1>4. ASSUME NEW j \in Jobs, JobMove(j)
      PROVE  StartsLeft(m)'
  <2>1. CASE m = jobs[j].msg
    BY <1>1, <1>2, <1>4, <2>1, StartsOwn
  <2>2. CASE m # jobs[j].msg
    <3>1. rows'[m] = rows[m] /\ history'[m] = history[m]
      BY <1>1, <1>4, <2>2, RowMove, HistoryMove
    <3>2. \A i \in Jobs : i # j => jobs'[i] = jobs[i]
      BY <1>1, <1>4, OtherJobs DEF JobMove
    <3>3. Active(j)' => jobs'[j].msg = jobs[j].msg
      BY <1>1, <1>4, Moves
    <3>4. \A i \in Jobs : jobs'[i].msg = m /\ jobs'[i].pc \in CountedSteps => jobs'[i] = jobs[i]
      BY <2>2, <3>2, <3>3 DEF Active, CountedSteps
    <3>5. Held(m) => Held(m)'
      BY <2>2, <3>2 DEF Held, Active
    <3>6. Expected(m)' <= Expected(m) /\ Excess(m) <= Excess(m)'
      <4>1. Expected(m)' <= Expected(m)
        BY <1>1, <1>2, <1>4, ExpectedMove
      <4>2. Excess(m)' = Excess(m) + 0 \/ Excess(m)' = Excess(m) + 1
        BY <1>1, <1>2, <1>4, ExpectedMove
      <4>3. Excess(m) \in Nat
        BY <1>1, ExpectedType
      <4> QED
        BY <4>1, <4>2, <4>3
    <3> QED
      BY <1>1, <1>2, <3>1, <3>4, <3>5, <3>6, StartsApart DEF InQueue
  <2> QED
    BY <2>1, <2>2
<1>5. ASSUME jobs' = jobs, history'[m] = history[m], faults' = faults, rows'[m] = rows[m]
      PROVE  StartsLeft(m)'
  <2>1. Unstarted(m)' = Unstarted(m)
    BY <1>5, HoldersKept DEF Unstarted
  <2>2. m \in Readable' <=> m \in Readable
    BY <1>5 DEF Readable, InQueue
  <2>3. Expected(m)' = Expected(m) /\ Excess(m)' = Excess(m)
    BY <1>5, <2>1, <2>2 DEF Expected, Excess
  <2>4. Expected(m) \in Nat /\ Excess(m) \in Nat
    BY <1>1, ExpectedType
  <2>5. Held(m) => Held(m)'
    BY <1>5 DEF Held, Active
  <2>6. Expected(m)' <= Expected(m) /\ Excess(m) <= Excess(m)'
    BY <2>3, <2>4
  <2> QED
    BY <1>1, <1>2, <1>5, <2>5, <2>6, StartsApart DEF InQueue
<1>6. ASSUME NEW k \in MsgIds, NEW orig \in Nat, Sent(k, orig)
      PROVE  StartsLeft(m)'
  <2>1. CASE m # k
    BY <1>1, <1>5, <1>6, <2>1 DEF Sent, TypeOK
  <2>2. CASE m = k
    <3>1. rows[m].loc = "unsent" /\ history[m] = NoHistory /\ rows'[m] = NewRow("queue", orig)
          /\ jobs' = jobs /\ history' = history /\ faults' = faults
      BY <1>1, <1>6, <2>2 DEF Sent, TypeOK, Blank
    <3>2. rows'[m].errs = 0 /\ history'[m].starts = 0 /\ history'[m].early = 0
      BY <3>1 DEF NewRow, NoHistory
    <3>3. \A i \in Jobs : ~(Active(i)' /\ jobs'[i].msg = m)
      <4>1. m > lastMsg
        BY <1>1, <3>1 DEF Numbered
      <4> QED
        BY <1>1, <3>1, <4>1 DEF Numbered, Active, MsgIds, TypeOK
    <3>4. Cardinality(Unstarted(m)') = 0
      <4>1. Unstarted(m)' = {}
        BY <3>3 DEF Unstarted, Holders, Active
      <4> QED
        BY <4>1, FS_EmptySet
    <3>5. faults' \in Nat
      BY <1>1, <3>1, ExpectedType
    <3>6. Expected(m)' \in {0, 1} /\ Excess(m)' = faults'
      <4>1. Expected(m)' = 0 + 0 + 1 \/ Expected(m)' = 0 + 0 + 0
        BY <3>2, <3>4 DEF Expected
      <4>2. Excess(m)' = faults' + 0
        BY <3>2 DEF Excess
      <4>3. Excess(m)' = faults'
        <5>1. \A f \in Nat : f + 0 = f
          OBVIOUS
        <5> QED
          BY <3>5, <4>2, <5>1
      <4>4. 0 + 0 + 1 = 1 /\ 0 + 0 + 0 = 0
        OBVIOUS
      <4> QED
        BY <4>1, <4>3, <4>4
    <3>7. Attempts \in Nat /\ Attempts >= 1 /\ Attempts' = Attempts
      BY AttemptsType DEF Attempts
    <3>8. /\ Expected(m)' <= Attempts + Excess(m)'
          /\ Expected(m)' <= rows'[m].errs + 1 + Excess(m)'
          /\ history'[m].starts <= rows'[m].errs + Excess(m)'
          /\ history'[m].starts < Attempts + Excess(m)'
      <4>1. \A e \in {0, 1} : \A a, x \in Nat : a >= 1 =>
              e <= a + x /\ e <= 0 + 1 + x /\ 0 <= 0 + x /\ 0 < a + x
        OBVIOUS
      <4> QED
        BY <3>2, <3>5, <3>6, <3>7, <4>1
    <3>9. \A i \in Jobs : jobs'[i].msg = m =>
            jobs'[i].pc # "write errors" /\ jobs'[i].pc \notin {"retry status", "retry vt"}
      BY <3>3 DEF Active
    <3> QED
      BY <3>7, <3>8, <3>9 DEF StartsLeft, At
  <2> QED
    BY <2>1, <2>2
<1>7. ASSUME NEW batch \in SUBSET Readable, NEW task \in [Idle -> batch \cup {NoId}],
             PollEffect(batch, task)
      PROVE  StartsLeft(m)'
  <2>1. /\ rows'[m].errs = rows[m].errs /\ rows'[m].loc = rows[m].loc
        /\ history' = history /\ faults' = faults
    BY <1>3, <1>7 DEF PollEffect, ReadRow, Row
  <2>2. Expected(m)' <= Expected(m)
    <3> DEFINE U == Cardinality(Unstarted(m))
               U1 == Cardinality(Unstarted(m)')
    <3>1. U \in Nat /\ U1 \in Nat /\ history[m].starts \in Nat
      BY <1>1, ExpectedType, NextHoldersFinite DEF Unstarted
    <3>2. CASE m \in batch
      <4>1. m \in Readable /\ m \notin Readable'
        <5>1. rows'[m].hidden
          BY <1>3, <1>7, <3>2 DEF PollEffect, ReadRow, Row
        <5> QED
          BY <3>2, <5>1 DEF Readable
      <4>2. U1 <= U + 1
        BY <1>1, <1>7, HoldersPoll DEF Unstarted
      <4>3. /\ Expected(m) = history[m].starts + U + 1
            /\ Expected(m)' = history[m].starts + U1 + 0
        BY <2>1, <4>1 DEF Expected
      <4> HIDE DEF U, U1
      <4> QED
        BY <3>1, <4>2, <4>3
    <3>3. CASE m \notin batch
      <4>1. Unstarted(m)' = Unstarted(m)
        BY <1>1, <1>7, <3>3, HoldersPoll DEF Unstarted
      <4>2. rows'[m] = rows[m]
        BY <1>7, <3>3 DEF PollEffect
      <4>3. Expected(m)' = Expected(m) /\ Expected(m) \in Nat
        BY <1>1, <2>1, <4>1, <4>2, ExpectedType DEF Expected, Readable, InQueue
      <4> QED
        BY <4>3
    <3> QED
      BY <3>2, <3>3
  <2>3. Excess(m) <= Excess(m)'
    <3>1. Excess(m)' = Excess(m) /\ Excess(m) \in Nat
      BY <1>1, <2>1, ExpectedType DEF Excess
    <3> QED
      BY <3>1
  <2>4. FirstStep \notin CountedSteps
    BY DEF FirstStep, CountedSteps
  <2>5. \A i \in Jobs : jobs'[i].msg = m /\ jobs'[i].pc \in CountedSteps => jobs'[i] = jobs[i]
    BY <1>7, <2>4, PollJob
  <2>6. Held(m) => Held(m)'
    BY <1>7, PollJob DEF Held, Idle, Active
  <2> QED
    BY <1>1, <1>2, <2>1, <2>2, <2>3, <2>5, <2>6, StartsApart DEF InQueue
<1>8. ASSUME NEW k \in MsgIds, Expire(k)
      PROVE  StartsLeft(m)'
  <2>1. jobs' = jobs /\ faults' = faults
    BY <1>8 DEF Expire
  <2>2. CASE m # k
    <3>1. rows'[m] = rows[m]
      BY <1>1, <1>8, <2>2 DEF Expire, TypeOK
    <3>2. history'[m] = history[m]
      <4>1. history' = history \/ \E n : history' = [history EXCEPT ![k].early = n]
        BY <1>8 DEF Expire
      <4> QED
        BY <1>1, <2>2, <4>1 DEF TypeOK
    <3> QED
      BY <1>5, <2>1, <3>1, <3>2
  <2>3. CASE m = k
    <3>1. InQueue(m) /\ rows[m].hidden /\ rows' = [rows EXCEPT ![m].hidden = FALSE]
      BY <1>8, <2>3 DEF Expire
    <3>2. /\ rows'[m].errs = rows[m].errs /\ rows'[m].loc = rows[m].loc
          /\ m \in Readable' /\ m \notin Readable
      BY <1>1, <1>3, <3>1 DEF TypeOK, Row, Readable, InQueue
    <3> QED
      BY <1>1, <1>2, <1>8, <2>1, <2>3, <3>1, <3>2, StartsExpire
  <2> QED
    BY <2>2, <2>3
<1>9. CASE UNCHANGED <<rows, lastMsg, dlq, jobs, faults, history>>
  BY <1>5, <1>9
<1>10. ASSUME NEW worker \in Workers, Die(worker)
       PROVE  StartsLeft(m)'
  <2>1. rows' = rows /\ history' = history /\ faults' = faults + 1
    BY <1>10, DieEffect
  <2>2. Expected(m)' <= Expected(m)
    <3> DEFINE U == Cardinality(Unstarted(m))
               U1 == Cardinality(Unstarted(m)')
               R == IF m \in Readable THEN 1 ELSE 0
    <3>1. U1 <= U
      BY <1>10, HoldersDie DEF Unstarted
    <3>2. U \in Nat /\ U1 \in Nat /\ history[m].starts \in Nat /\ R \in Nat
      BY <1>1, ExpectedType, NextHoldersFinite DEF Unstarted
    <3>3. m \in Readable' <=> m \in Readable
      BY <2>1 DEF Readable, InQueue
    <3>4. Expected(m) = history[m].starts + U + R /\ Expected(m)' = history[m].starts + U1 + R
      BY <2>1, <3>3 DEF Expected
    <3> HIDE DEF U, U1, R
    <3> QED
      BY <3>1, <3>2, <3>4
  <2>3. Excess(m)' = Excess(m) + 1 /\ Excess(m) \in Nat
    <3>1. history[m].early \in Nat /\ faults \in Nat
      BY <1>1, ExpectedType
    <3> QED
      BY <2>1, <3>1 DEF Excess
  <2>4. Excess(m) < Excess(m)' /\ Excess(m) <= Excess(m)'
    BY <2>3
  <2>5. \A i \in Jobs : jobs'[i].msg = m /\ jobs'[i].pc \in CountedSteps => jobs'[i] = jobs[i]
    BY <1>10, DieEffect DEF CountedSteps
  <2> QED
    BY <1>1, <1>2, <2>1, <2>2, <2>4, <2>5, StartsApart DEF InQueue
<1> QED
  BY <1>1, <1>4, <1>6, <1>7, <1>8, <1>9, <1>10, StepKinds

(* The processor's code is called at most max_retries times for a message, *)
(* and once more for every fault and every vt that passes under a job.     *)
THEOREM StartsCorrect == Spec => []StartsBound
<1>1. Init => StartsInv
  <2> SUFFICES ASSUME Init PROVE StartsInv
    OBVIOUS
  <2>1. TypeOK /\ Numbered /\ Blank
    BY TypeInit, NumberedInit, BlankInit
  <2>2. ASSUME NEW m \in MsgIds PROVE StartsLeft(m)
    <3>1. \A j \in Jobs : jobs[j].msg = NoId
      BY DEF Init, IdleJob, JobAt
    <3>2. Unstarted(m) = {}
      BY <3>1 DEF Unstarted, Holders, MsgIds
    <3>3. ~InQueue(m) /\ history[m].starts = 0 /\ history[m].early = 0 /\ faults = 0
      BY DEF Init, InQueue, NewRow, NoHistory
    <3>4. Expected(m) = 0 /\ Excess(m) = 0
      BY <3>2, <3>3, FS_EmptySet DEF Expected, Excess, Readable
    <3> QED
      <4>1. Expected(m) <= Attempts + Excess(m)
        BY <3>4, AttemptsType
      <4>2. \A j \in Jobs : jobs[j].msg # m
        BY <3>1 DEF MsgIds
      <4> QED
        BY <3>3, <4>1, <4>2 DEF StartsLeft
  <2> QED
    BY <2>1, <2>2 DEF StartsInv
<1>2. StartsInv => StartsBound
  <2> SUFFICES ASSUME StartsInv, NEW m \in MsgIds
               PROVE  history[m].starts <= Attempts + faults + history[m].early
    BY DEF StartsBound, Attempts
  <2>1. Expected(m) <= Attempts + Excess(m)
    BY DEF StartsInv, StartsLeft
  <2>2. /\ Expected(m) \in Nat /\ history[m].starts \in Nat /\ history[m].early \in Nat
        /\ faults \in Nat /\ Cardinality(Unstarted(m)) \in Nat /\ Attempts \in Nat
        /\ history[m].starts + Cardinality(Unstarted(m)) <= Expected(m)
    BY ExpectedType, AttemptsType DEF StartsInv
  <2> QED
    BY <2>1, <2>2 DEF Excess
<1> QED
  BY <1>1, <1>2, StartsStep, PTL DEF Spec

-----------------------------------------------------------------------------
(* The dead letters a message has left.                                    *)

LEMMA SettleStepsFacts ==
  /\ "idle" \notin SettleSteps /\ "set dlq" \notin SettleSteps
  /\ SettleSteps \cap RemoveSteps = {}
  /\ {"count", "retry vt", "send dlq"} \subseteq SettleSteps
BY DEF SettleSteps, Steps, RemoveSteps

LEMMA LettersTypes ==
  ASSUME TypeOK, NEW m \in MsgIds
  PROVE  /\ Cardinality(Letters(m)) \in Nat /\ Cardinality(Unsettled(m)) \in Nat
         /\ faults \in Nat /\ history[m].early \in Nat /\ Excess(m) \in Nat
BY LettersFinite, HoldersFinite, ExpectedType DEF Unsettled

LEMMA NextLettersTypes ==
  ASSUME TypeOK, Numbered, [Next]_vars, NEW m \in MsgIds
  PROVE  /\ Cardinality(Letters(m)') \in Nat /\ Cardinality(Unsettled(m)') \in Nat
         /\ Excess(m)' \in Nat
<1>1. Cardinality(Unsettled(m)') \in Nat
  BY NextHoldersFinite DEF Unsettled
<1>2. Cardinality(Letters(m)') \in Nat
  BY LettersStep, LettersFinite
<1> QED
  BY <1>1, <1>2, TypeStep, NextExpectedType

(* LettersLeft from how the counts have changed.                           *)
LEMMA LettersCount ==
  ASSUME TypeOK, Numbered, [Next]_vars, NEW m \in MsgIds, LettersLeft(m),
         NEW R \in {0, 1}, NEW R1 \in {0, 1},
         R = (IF m \in Readable THEN 1 ELSE 0), R1 = (IF m \in Readable' THEN 1 ELSE 0),
         \/ Cardinality(Letters(m)') + Cardinality(Unsettled(m)') + R1 + Excess(m)
              <= Cardinality(Letters(m)) + Cardinality(Unsettled(m)) + R + Excess(m)'
         \/ Cardinality(Letters(m)') + Cardinality(Unsettled(m)') + R1 <= 1 + Excess(m)',
         InQueue(m)' /\ ~Held(m)' => Cardinality(Letters(m)') <= Excess(m)'
  PROVE  LettersLeft(m)'
<1> DEFINE L == Cardinality(Letters(m))
           U == Cardinality(Unsettled(m))
           X == Excess(m)
           L1 == Cardinality(Letters(m)')
           U1 == Cardinality(Unsettled(m)')
           X1 == Excess(m)'
<1>1. /\ L \in Nat /\ U \in Nat /\ X \in Nat /\ L1 \in Nat /\ U1 \in Nat /\ X1 \in Nat
      /\ R \in Nat /\ R1 \in Nat
  BY LettersTypes, NextLettersTypes
<1>2. L + U + R <= 1 + X
  <2>1. Letterable(m) = L + U + R
    BY DEF Letterable
  <2>2. 1 + faults + history[m].early = 1 + Excess(m)
    BY LettersTypes DEF Excess
  <2> QED
    BY <2>1, <2>2 DEF LettersLeft
<1>3. L1 + U1 + R1 <= 1 + X1
  <2>1. \/ L1 + U1 + R1 + X <= L + U + R + X1
        \/ L1 + U1 + R1 <= 1 + X1
    OBVIOUS
  <2> HIDE DEF L, U, X, L1, U1, X1
  <2> QED
    BY <1>1, <1>2, <2>1
<1>4. Letterable(m)' = L1 + U1 + R1
  BY DEF Letterable
<1>5. 1 + faults' + history'[m].early = 1 + X1 /\ faults' + history'[m].early = X1
  <2>1. faults' \in Nat /\ history'[m].early \in Nat
    BY TypeStep, CountsAssumption DEF TypeOK, History
  <2> QED
    BY <2>1 DEF Excess
<1> QED
  BY <1>3, <1>4, <1>5 DEF LettersLeft

(* A job executes a statement: the one that sends a letter settles it.     *)
LEMMA LettersMove ==
  ASSUME TypeOK, Numbered, NEW m \in MsgIds, LettersLeft(m), NEW j \in Jobs, JobMove(j)
  PROVE  LettersLeft(m)'
<1> DEFINE L == Cardinality(Letters(m))
           U == Cardinality(Unsettled(m))
           X == Excess(m)
           L1 == Cardinality(Letters(m)')
           U1 == Cardinality(Unsettled(m)')
           X1 == Excess(m)'
           F == IF Crash(j) \/ CompleteRaises(j) THEN 1 ELSE 0
<1>0. [Next]_vars /\ TypeOK'
  BY TypeStep DEF JobMove, Next
<1>1. /\ L \in Nat /\ U \in Nat /\ X \in Nat /\ L1 \in Nat /\ U1 \in Nat /\ X1 \in Nat
  BY <1>0, LettersTypes, NextLettersTypes
<1>2. PICK R \in {0, 1} : R = IF m \in Readable THEN 1 ELSE 0
  OBVIOUS
<1>3. PICK R1 \in {0, 1} : R1 = IF m \in Readable' THEN 1 ELSE 0
  OBVIOUS
<1>4. R1 <= R
  BY <1>2, <1>3, RowMove DEF Readable, InQueue
<1>5. X1 = X + F
  BY <1>0, ExpectedMove
<1>6. U1 = U + (IF m = jobs[j].msg /\ jobs'[j].pc \in SettleSteps THEN 1 ELSE 0)
             - (IF m = jobs[j].msg /\ jobs[j].pc \in SettleSteps THEN 1 ELSE 0)
  <2>1. PICK steps : steps = SettleSteps
    OBVIOUS
  <2>2. Unsettled(m) = Holders(m, steps) /\ Unsettled(m)' = Holders(m, steps)'
    BY <2>1 DEF Unsettled, Holders, SettleSteps, Steps, RemoveSteps
  <2>3. "idle" \notin steps
    BY <2>1, SettleStepsFacts
  <2>4. Cardinality(Holders(m, steps)') =
           Cardinality(Holders(m, steps))
           + (IF m = jobs[j].msg /\ jobs'[j].pc \in steps THEN 1 ELSE 0)
           - (IF m = jobs[j].msg /\ jobs[j].pc \in steps THEN 1 ELSE 0)
    BY <2>3, HoldersMove
  <2> QED
    BY <2>1, <2>2, <2>4
<1>7. Comes(j) /\ Active(j) /\ RemoveStep \in RemoveSteps
  BY Moves DEF RemoveStep, RemoveSteps
<1>8. L1 = L \/ (SendDlq(j) /\ jobs[j].msg = m /\ L1 = L + 1)
  <2>1. \A i \in Jobs : SendDlq(i) => i = j
    BY OneMove DEF JobMove, ProcessTask, Fail
  <2> QED
    BY <1>0, <2>1, LettersStep
<1>9. SendDlq(j) => /\ jobs[j].pc = "send dlq" /\ jobs'[j].pc = "set dlq" /\ faults' = faults
                    /\ ~Crash(j)
  <2> SUFFICES ASSUME SendDlq(j)
               PROVE  /\ jobs[j].pc = "send dlq" /\ jobs'[j].pc = "set dlq" /\ faults' = faults
                      /\ ~Crash(j)
    OBVIOUS
  <2>1. jobs[j].pc = "send dlq" /\ faults' = faults
    BY DEF SendDlq, At
  <2>2. PICK n : n = DlqMsgId
    OBVIOUS
  <2>3. jobs' = [jobs EXCEPT ![j] = [jobs[j] EXCEPT !.pc = "set dlq", !.dlq = n]]
    BY <2>2 DEF SendDlq
  <2>4. jobs'[j].pc = "set dlq"
    BY <2>3 DEF TypeOK, Job
  <2>5. ~Crash(j)
    <3>1. Crash(j) => faults' = faults + 1
      BY DEF Crash, Fault
    <3>2. faults \in Nat
      BY FaultsMove
    <3>3. \A n1 \in Nat : n1 # n1 + 1
      OBVIOUS
    <3>4. faults' # faults + 1
      BY <2>1, <3>2, <3>3, Zenon
    <3> QED
      BY <3>1, <3>4
  <2> QED
    BY <2>1, <2>4, <2>5
<1>10. L1 + U1 <= L + U + F
  <2>1. CASE SendDlq(j) /\ jobs[j].msg = m
    <3>1. U1 = U + 0 - 1
      BY <1>6, <1>9, <2>1, SettleStepsFacts
    <3>2. L1 <= L + 1 /\ F \in Nat
      BY <1>1, <1>8
    <3> HIDE DEF L, U, L1, U1, F
    <3> QED
      BY <1>1, <3>1, <3>2
  <2>2. CASE ~(SendDlq(j) /\ jobs[j].msg = m)
    <3>1. L1 = L
      BY <1>8, <2>2
    <3>2. /\ jobs'[j].pc \in SettleSteps /\ ~(jobs[j].pc \in SettleSteps) => CompleteRaises(j)
      BY <1>7, SettleStepsFacts DEF Comes, At, SettleSteps, Steps, RemoveSteps
    <3>3. U1 = U + 0 - 0 \/ U1 = U + 0 - 1 \/ U1 = U + 1 - 1 \/ (U1 = U + 1 - 0 /\ CompleteRaises(j))
      BY <1>6, <3>2
    <3>4. U1 <= U \/ (U1 = U + 1 /\ F = 1)
      <4>1. CompleteRaises(j) => F = 1
        OBVIOUS
      <4> HIDE DEF U, U1, F
      <4> QED
        BY <1>1, <3>3, <4>1
    <3>5. F \in {0, 1}
      OBVIOUS
    <3> HIDE DEF L, U, L1, U1, F
    <3> QED
      BY <1>1, <3>1, <3>4, <3>5
  <2> QED
    BY <2>1, <2>2
<1>11. L1 + U1 + R1 + X <= L + U + R + X1
  <2>1. F \in Nat
    OBVIOUS
  <2> HIDE DEF L, U, X, L1, U1, X1, F
  <2> QED
    BY <1>1, <1>4, <1>5, <1>10, <2>1
<1>12. ASSUME InQueue(m)', ~Held(m)'
       PROVE  L1 <= X1
  <2>1. InQueue(m)
    BY <1>12, RowMove
  <2>2. L + U <= 1 + X /\ (~Held(m) => L <= X)
    <3>1. Letterable(m) = L + U + R
      BY <1>2 DEF Letterable
    <3>2. 1 + faults + history[m].early = 1 + X /\ faults + history[m].early = X
      BY LettersTypes DEF Excess
    <3>3. L + U + R <= 1 + X /\ (~Held(m) => L <= X)
      BY <2>1, <3>1, <3>2 DEF LettersLeft
    <3> HIDE DEF L, U, X
    <3> QED
      BY <1>1, <3>3
  <2>3. X1 = X \/ (X1 = X + 1)
    <3>1. X1 = X + 0 \/ X1 = X + 1
      BY <1>5
    <3> HIDE DEF X, X1
    <3> QED
      BY <1>1, <3>1
  <2>4. CASE m # jobs[j].msg
    <3>1. \A i \in Jobs : i # j => jobs'[i] = jobs[i]
      BY OtherJobs DEF JobMove
    <3>2. ~Held(m) /\ L1 = L
      BY <1>8, <1>12, <2>4, <3>1 DEF Held, Active
    <3>3. L <= X
      BY <2>2, <3>2
    <3> HIDE DEF L, U, X, L1, U1, X1
    <3> QED
      BY <1>1, <2>3, <3>2, <3>3
  <2>5. CASE m = jobs[j].msg
    <3>1. ~Active(j)'
      BY <1>12, <2>5, Moves DEF Held
    <3>2. At(j, "count") \/ At(j, "retry vt") \/ Crash(j)
      BY <1>12, <2>5, <3>1, HolderMove
    <3>3. L1 = L
      BY <1>8, <1>9, <3>2 DEF At
    <3>4. CASE Crash(j)
      <4>1. X1 = X + 1
        BY <1>5, <3>4
      <4> HIDE DEF L, U, X, L1, U1, X1
      <4> QED
        BY <1>1, <2>2, <3>3, <4>1
    <3>5. CASE At(j, "count") \/ At(j, "retry vt")
      <4>1. j \in Unsettled(m)
        BY <2>5, <3>5, SettleStepsFacts DEF Unsettled, Holders, SettleSteps, At
      <4>2. IsFiniteSet(Unsettled(m))
        BY HoldersFinite DEF Unsettled
      <4>3. U # 0
        BY <4>1, <4>2, FS_EmptySet
      <4> HIDE DEF L, U, X, L1, U1, X1
      <4> QED
        BY <1>1, <2>2, <2>3, <3>3, <4>3
    <3> QED
      BY <3>2, <3>4, <3>5
  <2> QED
    BY <2>4, <2>5
<1> QED
  BY <1>0, <1>2, <1>3, <1>11, <1>12, LettersCount

(* A vt passes: one more job will read the message, which an expiry under  *)
(* a job is counted for.                                                   *)
LEMMA LettersExpire ==
  ASSUME TypeOK, Numbered, NEW m \in MsgIds, LettersLeft(m), Expire(m)
  PROVE  LettersLeft(m)'
<1> DEFINE L == Cardinality(Letters(m))
           U == Cardinality(Unsettled(m))
           X == Excess(m)
           L1 == Cardinality(Letters(m)')
           U1 == Cardinality(Unsettled(m)')
           X1 == Excess(m)'
<1>0. [Next]_vars /\ rows[m] \in Row /\ history[m] \in History /\ history \in [MsgIds -> History]
  BY DEF Next, TypeOK
<1>1. /\ L \in Nat /\ U \in Nat /\ X \in Nat /\ L1 \in Nat /\ U1 \in Nat /\ X1 \in Nat
      /\ faults \in Nat /\ history[m].early \in Nat
  BY <1>0, LettersTypes, NextLettersTypes
<1>2. /\ InQueue(m) /\ rows[m].hidden /\ rows' = [rows EXCEPT ![m].hidden = FALSE]
      /\ dlq' = dlq /\ jobs' = jobs /\ faults' = faults
  BY DEF Expire
<1>3. m \notin Readable /\ m \in Readable'
  BY <1>0, <1>2 DEF TypeOK, Row, Readable, InQueue
<1>4. L1 = L /\ U1 = U /\ (Held(m)' <=> Held(m))
  <2>1. Letters(m)' = Letters(m)
    BY <1>2 DEF Letters, About
  <2>2. Unsettled(m)' = Unsettled(m)
    BY <1>2 DEF Unsettled, Holders, SettleSteps, Steps, RemoveSteps
  <2> QED
    BY <1>2, <2>1, <2>2 DEF Held, Active
<1>5. PICK R \in {0, 1} : R = 0 /\ R = IF m \in Readable THEN 1 ELSE 0
  BY <1>3
<1>6. PICK R1 \in {0, 1} : R1 = 1 /\ R1 = IF m \in Readable' THEN 1 ELSE 0
  BY <1>3
<1>7. CASE Held(m)
  <2>1. X1 = X + 1
    <3>1. history' = [history EXCEPT ![m].early = history[m].early + 1]
      BY <1>7 DEF Expire
    <3>2. history'[m].early = history[m].early + 1
      BY <1>0, <3>1 DEF History
    <3> QED
      BY <1>1, <1>2, <3>2 DEF Excess
  <2>2. L1 + U1 + R1 + X <= L + U + R + X1
    <3> HIDE DEF L, U, X, L1, U1, X1
    <3> QED
      BY <1>1, <1>4, <1>5, <1>6, <2>1
  <2> QED
    BY <1>0, <1>4, <1>5, <1>6, <1>7, <2>2, LettersCount
<1>8. CASE ~Held(m)
  <2>1. X1 = X
    BY <1>8 DEF Expire, Excess
  <2>2. U = 0
    <3>1. Unsettled(m) = {}
      BY <1>8, SettleStepsFacts DEF Unsettled, Holders, Held, Active
    <3> QED
      BY <3>1, FS_EmptySet
  <2>3. L <= X
    <3>1. faults + history[m].early = X
      BY DEF Excess
    <3> QED
      BY <1>2, <1>8, <3>1 DEF LettersLeft
  <2>4. L1 + U1 + R1 <= 1 + X1 /\ L1 <= X1
    <3> HIDE DEF L, U, X, L1, U1, X1
    <3> QED
      BY <1>1, <1>4, <1>6, <2>1, <2>2, <2>3
  <2> QED
    BY <1>0, <1>5, <1>6, <2>4, LettersCount
<1> QED
  BY <1>7, <1>8

(* A step that sends no letter, and leaves no fewer holders without one    *)
(* but by a fault.                                                         *)
LEMMA LettersKept ==
  ASSUME TypeOK, Numbered, [Next]_vars, NEW m \in MsgIds, LettersLeft(m),
         Letters(m)' = Letters(m),
         Cardinality(Unsettled(m)') <= Cardinality(Unsettled(m)),
         rows'[m] = rows[m], history'[m] = history[m],
         \/ faults' = faults /\ (Held(m) => Held(m)')
         \/ faults' = faults + 1
  PROVE  LettersLeft(m)'
<1> DEFINE L == Cardinality(Letters(m))
           U == Cardinality(Unsettled(m))
           X == Excess(m)
           L1 == Cardinality(Letters(m)')
           U1 == Cardinality(Unsettled(m)')
           X1 == Excess(m)'
<1>1. /\ L \in Nat /\ U \in Nat /\ X \in Nat /\ L1 \in Nat /\ U1 \in Nat /\ X1 \in Nat
      /\ faults \in Nat /\ history[m].early \in Nat
  BY LettersTypes, NextLettersTypes
<1>2. L1 = L /\ U1 <= U /\ (InQueue(m)' <=> InQueue(m)) /\ (m \in Readable' <=> m \in Readable)
  BY DEF InQueue, Readable
<1>3. PICK R \in {0, 1} : R = IF m \in Readable THEN 1 ELSE 0
  OBVIOUS
<1>4. R = IF m \in Readable' THEN 1 ELSE 0
  BY <1>2, <1>3
<1>5. (X1 = X /\ (Held(m) => Held(m)')) \/ X1 = X + 1
  <2>1. CASE faults' = faults /\ (Held(m) => Held(m)')
    BY <2>1 DEF Excess
  <2>2. CASE faults' = faults + 1
    <3>1. X1 = faults + 1 + history[m].early /\ X = faults + history[m].early
      BY <2>2 DEF Excess
    <3> HIDE DEF X, X1
    <3> QED
      BY <1>1, <3>1
  <2> QED
    BY <2>1, <2>2
<1>6. L1 + U1 + R + X <= L + U + R + X1
  <2>1. X1 = X \/ X1 = X + 1
    BY <1>5
  <2> HIDE DEF L, U, X, L1, U1, X1
  <2> QED
    BY <1>1, <1>2, <2>1
<1>7. InQueue(m)' /\ ~Held(m)' => L1 <= X1
  <2>1. L <= 1 + X /\ (InQueue(m) /\ ~Held(m) => L <= X)
    <3>1. Letterable(m) = L + U + R
      BY <1>3 DEF Letterable
    <3>2. 1 + faults + history[m].early = 1 + X /\ faults + history[m].early = X
      BY <1>1 DEF Excess
    <3>3. L + U + R <= 1 + X /\ (InQueue(m) /\ ~Held(m) => L <= X)
      BY <3>1, <3>2 DEF LettersLeft
    <3> HIDE DEF L, U, X
    <3> QED
      BY <1>1, <3>3
  <2>2. CASE X1 = X /\ (Held(m) => Held(m)')
    BY <1>2, <2>1, <2>2
  <2>3. CASE X1 = X + 1
    <3> HIDE DEF L, U, X, L1, U1, X1
    <3> QED
      BY <1>1, <1>2, <2>1, <2>3
  <2> QED
    BY <1>5, <2>2, <2>3
<1> QED
  BY <1>3, <1>4, <1>6, <1>7, LettersCount

(* Only a job that moves sends a letter.                                   *)
LEMMA LettersSame ==
  ASSUME TypeOK, Numbered, [Next]_vars, NEW m \in MsgIds,
         \A j \in Jobs : Active(j) => jobs'[j] = jobs[j]
  PROVE  Letters(m)' = Letters(m)
<1>1. ASSUME NEW j \in Jobs, SendDlq(j) PROVE FALSE
  <2>1. JobMove(j)
    BY <1>1 DEF JobMove, ProcessTask, Fail
  <2> QED
    BY <2>1, Moves, MovesOn
<1> QED
  BY <1>1, LettersStep

(* A poll makes of the job that would read the message a holder of it.     *)
LEMMA LettersPoll ==
  ASSUME TypeOK, Numbered, [Next]_vars, NEW m \in MsgIds, LettersLeft(m),
         NEW batch \in SUBSET Readable, NEW task \in [Idle -> batch \cup {NoId}],
         PollEffect(batch, task)
  PROVE  LettersLeft(m)'
<1> DEFINE L == Cardinality(Letters(m))
           U == Cardinality(Unsettled(m))
           X == Excess(m)
           L1 == Cardinality(Letters(m)')
           U1 == Cardinality(Unsettled(m)')
           X1 == Excess(m)'
<1>1. /\ L \in Nat /\ U \in Nat /\ X \in Nat /\ L1 \in Nat /\ U1 \in Nat /\ X1 \in Nat
      /\ faults \in Nat /\ history[m].early \in Nat /\ rows[m] \in Row
  BY LettersTypes, NextLettersTypes DEF TypeOK
<1>2. Letters(m)' = Letters(m) /\ (Held(m) => Held(m)')
  <2>1. \A j \in Jobs : Active(j) => jobs'[j] = jobs[j]
    BY PollJob DEF Idle
  <2> QED
    BY <2>1, LettersSame DEF Held, Active
<1>3. history' = history /\ faults' = faults
  BY DEF PollEffect
<1>4. PICK steps : steps = SettleSteps /\ "idle" \notin steps
  BY SettleStepsFacts
<1>5. Unsettled(m) = Holders(m, steps) /\ Unsettled(m)' = Holders(m, steps)'
  BY <1>4 DEF Unsettled, Holders, SettleSteps, Steps, RemoveSteps
<1>6. CASE m \notin batch
  <2>1. rows'[m] = rows[m]
    BY <1>6 DEF PollEffect
  <2>2. Unsettled(m)' = Unsettled(m)
    BY <1>4, <1>5, <1>6, HoldersPoll
  <2>3. U1 <= U
    <3>1. U1 = U
      BY <2>2
    <3> HIDE DEF U, U1
    <3> QED
      BY <1>1, <3>1
  <2> QED
    BY <1>2, <1>3, <2>1, <2>3, LettersKept
<1>7. CASE m \in batch
  <2>1. m \in Readable /\ m \notin Readable' /\ InQueue(m)
    <3>1. rows'[m].hidden
      BY <1>1, <1>7 DEF PollEffect, ReadRow, Row
    <3> QED
      BY <1>7, <3>1 DEF Readable
  <2>2. PICK R \in {0, 1} : R = 1 /\ R = IF m \in Readable THEN 1 ELSE 0
    BY <2>1
  <2>3. PICK R1 \in {0, 1} : R1 = 0 /\ R1 = IF m \in Readable' THEN 1 ELSE 0
    BY <2>1
  <2>4. U1 <= U + 1
    BY <1>4, <1>5, HoldersPoll
  <2>5. L1 = L /\ X1 = X
    BY <1>2, <1>3 DEF Excess
  <2>6. L1 + U1 + R1 + X <= L + U + R + X1
    <3> HIDE DEF L, U, X, L1, U1, X1
    <3> QED
      BY <1>1, <2>2, <2>3, <2>4, <2>5
  <2>7. InQueue(m)' /\ ~Held(m)' => L1 <= X1
    <3>1. faults + history[m].early = X
      BY DEF Excess
    <3> QED
      BY <1>2, <2>1, <2>5, <3>1 DEF LettersLeft
  <2> QED
    BY <2>2, <2>3, <2>6, <2>7, LettersCount
<1> QED
  BY <1>6, <1>7

(* A message is sent: no DLQ message refers to it, and no job holds it.    *)
LEMMA LettersSent ==
  ASSUME ReferenceInv, Blank, [Next]_vars, NEW m \in MsgIds, NEW orig \in Nat, Sent(m, orig)
  PROVE  LettersLeft(m)'
<1>1. TypeOK /\ Numbered /\ m > lastMsg /\ lastMsg \in Nat
  BY LastMsgGrows DEF ReferenceInv, Sent, Numbered
<1>2. history'[m].early = 0
  BY DEF Sent, Blank, NoHistory
<1>3. Cardinality(Letters(m)') = 0
  <2>1. Letters(m) = {}
    BY <1>1 DEF ReferenceInv, Letters, About
  <2>2. Letters(m)' = Letters(m)
    BY <1>1, LettersSame DEF Sent
  <2> QED
    BY <2>1, <2>2, FS_EmptySet
<1>4. Cardinality(Unsettled(m)') = 0
  <2>1. \A i \in Jobs : Active(i) => jobs[i].msg # m
    BY <1>1 DEF Numbered, TypeOK, MsgIds
  <2>2. Unsettled(m) = {}
    BY <2>1, SettleStepsFacts DEF Unsettled, Holders, Active
  <2>3. Unsettled(m)' = Unsettled(m)
    BY DEF Sent, Unsettled, Holders, SettleSteps, Steps, RemoveSteps
  <2> QED
    BY <2>2, <2>3, FS_EmptySet
<1>5. faults' \in Nat
  BY <1>1, TypeStep, CountsAssumption DEF TypeOK
<1>6. Letterable(m)' = 0 + 0 + 0 \/ Letterable(m)' = 0 + 0 + 1
  BY <1>3, <1>4 DEF Letterable
<1>7. Letterable(m)' <= 1 + faults' + 0 /\ 0 <= faults' + 0
  <2>1. \A f \in Nat : 0 + 0 + 0 <= 1 + f + 0 /\ 0 + 0 + 1 <= 1 + f + 0 /\ 0 <= f + 0
    OBVIOUS
  <2>2. Letterable(m)' \in {0 + 0 + 0, 0 + 0 + 1}
    BY <1>6
  <2> QED
    BY <1>5, <1>6, <2>1
<1> QED
  BY <1>2, <1>3, <1>7 DEF LettersLeft

LEMMA LettersLeftStep == LettersInv /\ [Next]_vars => LettersInv'
<1> SUFFICES ASSUME LettersInv, [Next]_vars, NEW m \in MsgIds
             PROVE  LettersLeft(m)'
  <2>1. LettersInv /\ [Next]_vars => ReferenceInv' /\ Blank'
    BY ReferenceStep, BlankStep DEF LettersInv, ReferenceInv
  <2>2. ASSUME LettersInv, [Next]_vars, \A m \in MsgIds : LettersLeft(m)'
        PROVE  LettersInv'
    BY <2>1, <2>2 DEF LettersInv
  <2> QED
    BY <2>2
<1>1. TypeOK /\ Numbered /\ Blank /\ ReferenceInv /\ LettersLeft(m)
  BY DEF LettersInv, ReferenceInv
<1>2. Cardinality(Unsettled(m)) \in Nat
  BY <1>1, LettersTypes
<1>3. ASSUME jobs' = jobs, history'[m] = history[m], faults' = faults, rows'[m] = rows[m]
      PROVE  LettersLeft(m)'
  <2>1. Letters(m)' = Letters(m)
    BY <1>1, <1>3, LettersSame
  <2>2. Unsettled(m)' = Unsettled(m)
    BY <1>3 DEF Unsettled, Holders, SettleSteps, Steps, RemoveSteps
  <2>3. Cardinality(Unsettled(m)') <= Cardinality(Unsettled(m))
    BY <1>2, <2>2
  <2>4. Held(m) => Held(m)'
    BY <1>3 DEF Held, Active
  <2> QED
    BY <1>1, <1>3, <2>1, <2>3, <2>4, LettersKept
<1>4. ASSUME NEW j \in Jobs, JobMove(j)
      PROVE  LettersLeft(m)'
  BY <1>1, <1>4, LettersMove
<1>5. ASSUME NEW k \in MsgIds, NEW orig \in Nat, Sent(k, orig)
      PROVE  LettersLeft(m)'
  <2>1. CASE m # k
    BY <1>1, <1>3, <1>5, <2>1 DEF Sent, TypeOK
  <2>2. CASE m = k
    BY <1>1, <1>5, <2>2, LettersSent
  <2> QED
    BY <2>1, <2>2
<1>6. ASSUME NEW batch \in SUBSET Readable, NEW task \in [Idle -> batch \cup {NoId}],
             PollEffect(batch, task)
      PROVE  LettersLeft(m)'
  BY <1>1, <1>6, LettersPoll
<1>7. ASSUME NEW k \in MsgIds, Expire(k)
      PROVE  LettersLeft(m)'
  <2>1. CASE m # k
    <3>1. jobs' = jobs /\ faults' = faults /\ rows'[m] = rows[m]
      BY <1>1, <1>7, <2>1 DEF Expire, TypeOK
    <3>2. history'[m] = history[m]
      <4>1. history' = history \/ \E n : history' = [history EXCEPT ![k].early = n]
        BY <1>7 DEF Expire
      <4> QED
        BY <1>1, <2>1, <4>1 DEF TypeOK
    <3> QED
      BY <1>3, <3>1, <3>2
  <2>2. CASE m = k
    BY <1>1, <1>7, <2>2, LettersExpire
  <2> QED
    BY <2>1, <2>2
<1>8. ASSUME NEW worker \in Workers, Die(worker)
      PROVE  LettersLeft(m)'
  <2>1. rows' = rows /\ history' = history /\ dlq' = dlq /\ faults' = faults + 1
    BY <1>8, DieEffect
  <2>2. Letters(m)' = Letters(m)
    BY <2>1 DEF Letters, About
  <2>3. PICK steps : steps = SettleSteps /\ "idle" \notin steps
    BY SettleStepsFacts
  <2>4. Unsettled(m) = Holders(m, steps) /\ Unsettled(m)' = Holders(m, steps)'
    BY <2>3 DEF Unsettled, Holders, SettleSteps, Steps, RemoveSteps
  <2>5. Cardinality(Unsettled(m)') <= Cardinality(Unsettled(m))
    BY <1>8, <2>3, <2>4, HoldersDie
  <2> QED
    BY <1>1, <2>1, <2>2, <2>5, LettersKept
<1>9. CASE UNCHANGED <<rows, lastMsg, dlq, jobs, faults, history>>
  BY <1>3, <1>9
<1> QED
  BY <1>1, <1>4, <1>5, <1>6, <1>7, <1>8, <1>9, StepKinds

(* A task is dead-lettered once, and once more at most for every fault and *)
(* every vt that passes under a job.                                       *)
THEOREM LettersCorrect == Spec => []LettersBound
<1>1. Init => LettersInv
  <2> SUFFICES ASSUME Init, NEW m \in MsgIds PROVE LettersLeft(m)
    BY ReferenceInit, BlankInit DEF LettersInv
  <2>1. Cardinality(Letters(m)) = 0 /\ Cardinality(Unsettled(m)) = 0
    BY NoneInit, SettleStepsFacts DEF Unsettled
  <2>2. ~InQueue(m) /\ history[m].early = 0 /\ faults = 0
    BY DEF Init, InQueue, NewRow, NoHistory
  <2> QED
    BY <2>1, <2>2 DEF LettersLeft, Letterable, Readable
<1>2. LettersInv => LettersBound
  <2> SUFFICES ASSUME LettersInv, NEW m \in MsgIds
               PROVE  Cardinality(Letters(m)) <= 1 + faults + history[m].early
    BY DEF LettersBound, Letters
  <2> DEFINE L == Cardinality(Letters(m))
             U == Cardinality(Unsettled(m))
             bound == 1 + faults + history[m].early
  <2>1. L \in Nat /\ U \in Nat /\ bound \in Nat
    BY LettersTypes DEF LettersInv, ReferenceInv
  <2>2. L + U + 0 <= bound \/ L + U + 1 <= bound
    BY DEF LettersInv, LettersLeft, Letterable
  <2> HIDE DEF L, U, bound
  <2>3. L <= bound
    BY <2>1, <2>2
  <2> QED
    BY <2>3 DEF L, bound
<1> QED
  BY <1>1, <1>2, LettersLeftStep, PTL DEF Spec
=============================================================================
