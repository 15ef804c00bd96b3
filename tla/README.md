# Verification of postgres-task-queue

TLA+ models of postgres-task-queue (PGTQ), the TLC runs that check them on small
instances, and theorems about them that TLAPS proves for every value of the
constants.  Paths are relative to the repository.

PGTQ is a task queue in Python on the PostgreSQL extension pgmq.  A task is a row
of a pgmq table; workers poll rows, run the user's async function on the payload,
and archive, retry or dead-letter the row.  There is no leader and no lock: what
keeps two workers apart is the visibility timeout (`vt`) a read writes, and apart
from `reschedule` every statement is a transaction of its own.

## 1. Inventory

| component | state | operations | what is hard |
|---|---|---|---|
| Task processing, `_processor.py` | locals of one coroutine per task | `process_task`: limit check, `start`, the user's code under `wait_for`, `complete` or `fail`; `poll` | a coroutine may stop after any statement; its message may be read by another one while it runs; `complete` is inside the `try` |
| Broker, `pgmq/broker.py` | the headers `status`, `errors`, `dlq`, `original`, `retry` of the rows | `enqueue`, `poll`, `poll_grouped`, `start`, `complete`, `fail`, `_remove`, `processing_count`, `reschedule`, `prune` | sequences of transactions that are not atomic, read-modify-write of `errors`, check-then-act of the limit, two reschedules of one dead letter |
| pgmq, `pgmq.sql` | tables `q_<queue>` and `a_<queue>` of the queue and of its DLQ, `msg_id` identity, `vt` | `send`, `read_with_poll`, `read_grouped_rr_with_poll`, `archive`, `delete`, `set_vt` | `SKIP LOCKED`, `vt` against the clock, group heads |
| Worker, `worker.py` | `free_slots`, `_next_prune_at` | one `_loop` per processor, `_process`, `_claim_slot`, `_free_slot`, prune | loops share one slot counter across an `await` of up to a minute; tasks without a slot are dropped |
| Queue, `_queue.py` | archive options | delegates `enqueue` and `reschedule`; `prune` of both archives | which rows a batch deletes |
| Retry delays, `retry.py` | none | `fixed`, `linear`, `exponential` | pure functions |
| HTTP API, `pgmq/fastapi.py` | none | paginated listings | total and page are two reads |
| Container, `pgmq/container.py` | the connection resource | `setup`, `wire` | external library |
| Factories, demo | none | construction | nothing |

Components interact through the tables alone: a worker's loop calls
`Processor.poll`, starts a coroutine for each task (`_process`, `process_task`), and
that coroutine calls the broker, which calls pgmq.  DLQ messages are written by
`fail` and consumed by `reschedule`, which somebody outside the worker calls.

What makes each component correct:

* processing and broker: no task is lost; a task is settled once; two coroutines do
  not work on one task unless its `vt` passed; attempts are bounded by
  `max_retries`; the archive tells the outcome; references between the message, its
  dead letter and the rescheduled message are right; every task leaves the queue in
  the end; the concurrency limit holds;
* worker: no more than `concurrency_limit` tasks run, slots are never lost, every
  task that is dropped comes back, archives are pruned;
* grouped reads: messages of a group are processed in order, one at a time;
* pruning: what is kept is the newest, what is deleted is over ttl or limit;
* listing: a page sequence shows each item once unless the table changes below it.

`PROJECT.json` lists the hazards of the code at their lines, with the properties
that are about them.

## 2. Plan

What the project set out to model, in order, and where it stands.

1. **TaskQueue** - the tables, the coroutines, faults and reschedule; **TaskLedger** -
   the abstract promise - and **TaskQueueLedger**, the refinement; the inductive
   invariants (**TaskQueueInv**) and the proofs (**TaskQueueProofs**,
   **TaskQueueOutcomeProofs**);
   **LeaseTiming** - the clock behind `vt` - and **LeaseTimingProofs**.  Done.
2. **GroupedRead** - `read_grouped_rr`, its locks and the order of the messages of a
   group - and **GroupedReadProofs**.  Done.
3. **Worker** - several loops over one `free_slots`, the dropped surplus, exceptions of
   a poll, the prune schedule - and **WorkerProofs**.  Done.
4. **Archive** - the batches of `Archive.prune`, by several workers, over both archives -
   and **ArchiveProofs**; **Listing** - the pages of the HTTP API - and **ListingProofs**.
   Done.
5. What these proofs share: **LimitProofs**, the first n of an order.  Done.
6. Left: two queues that share one DLQ, once it is documented whether they may; the delays of
   the retry strategies over a rational clock.

The modules meet at these points: Worker says that prunes recur (the fairness of Archive),
that polls recur (the fairness of TaskQueue and GroupedRead) and which tasks get no slot;
LeaseTiming says when a `vt` passes under a job (`Expire` of TaskQueue); TaskQueue says how a
task leaves its message (`End` of Worker, `Settle` of GroupedRead).  They are not composed
in one module: the product of their states is out of reach, and each uses the others only
through these steps.

Parameters are CONSTANTS with named assumptions, there is one action per statement, the
invariants are conjunctions of named parts and no module uses a RECURSIVE operator.

## 3. Modules

### TaskQueue

One queue with its DLQ.

| variable | code |
|---|---|
| `rows` | `q_<queue>` and `a_<queue>` together, by `msg_id`: `loc` says in which table the row is; `status`, `errs` (the length of the errors header), `dlq`, `orig` are headers, `hidden` is `vt > now` |
| `lastMsg` | the identity column |
| `dlq` | the DLQ table and its archive; a row carries the `msg_id` and the number of errors of its `DlqBody`, and its retry header |
| `jobs` | one coroutine `process_task` per slot: the next statement (`pc`), the task, the locals that survive an await; the constant `Workers` says which slots are of one process |
| `calls` | callers of `reschedule` that have read a DLQ message |
| `faults`, `history` | not in the code: the count of faults, and per message whether the processor returned, how often `fail` and `start` were called and how often `vt` passed under a job |

The actions follow the code statement by statement:

* `Enqueue`; `Poll` (`read_with_poll`: a batch in the order of `lifo`, without rows
  another statement has locked, handed to idle jobs of one worker), `PollEmpty`, `Expire`;
* `CheckLimit`, `Start`, `Succeed`, `Raise` - `process_task`; `Raise` is any exception of
  the processor, the timeout included, with either answer of `_should_retry_exception`;
* `ReadErrors`, `WriteErrors`, `RetryStatus`, `RetryVt`, `Payload`, `SendDlq`, `SetDlq` -
  `fail`; `RemoveStatus`, `Remove` - `_remove`; an UPDATE by `msg_id` has no effect on a
  row that has left, and `get_payload` then raises, as in the code;
* `Die` - a worker process dies, and every coroutine of it at once; `Crash` - one coroutine
  is cancelled, or a statement that nothing catches raises; `CompleteRaises` - a statement of `complete` raises, with its effect or
  without, and `except Exception` calls `fail`;
* `RescheduleRead`, `RescheduleCommit`, `RescheduleAbort` - the transaction of
  `reschedule`: its first SELECT takes no lock, so another caller may archive the DLQ row
  in between.

Abstractions: payloads and texts are left out; an id burnt by a rolled-back insert is
not; a message is sent with the delay 0, the only one the code can ask for; a job exists
only with a slot (Worker has the tasks read without one; to the queue such a task is a crash
before its first statement).  Grouped reads are in GroupedRead.  Time is replaced by
`Expire`, which may make a message readable under its running job: LeaseTiming derives from
the clock that this happens, and for how long.

### TaskLedger, TaskQueueLedger

TaskLedger says what a queue promises without tables, jobs or statements: a task is
submitted, work on it may succeed or fail any number of times, a dead letter needs a
failure, and it is settled once and only for a cause.  TaskQueueLedger maps TaskQueue to
it: where a row is gives the state of the task, `history` and the DLQ give the causes.

### TaskQueueInv, TaskQueueProofs, TaskQueueOutcomeProofs

The inductive invariants and the theorems, section 6.

### LeaseTiming, LeaseTimingProofs

One message and the jobs that read it, with the clock in seconds: `now`, `vt`, and per job
the time of its read and of the call of the processor's code.  `Read`, `Retry` write `vt`
as `read_with_poll` and `set_vt` do; `Begin`, `End`, `Remove`, `Leave` are the phases of
`process_task` between the statements that concern `vt`, and `Tick` lets a second pass
unless the event loop has something due (`wait_for` ends the processor's code at its
deadline; the code is assumed to obey the cancellation).  The constant `Lag` bounds the time
from the read to the call of the processor's code, which the program itself does not.

### GroupedRead, GroupedReadProofs

The polls of `read_grouped_rr_with_poll` on one queue (`pgmq.sql:128-245`).  A poll is one
transaction that repeats one statement, and the statement has three moments: `Begin` takes
the snapshot, `Take` finds the heads of the groups in it, tries the advisory locks, ranks
the messages and updates the rows that are still free and visible, `Commit` makes the
update visible and releases the locks.  `TimeOut` ends a poll that found nothing,
`Rollback` one that failed.  A row that a statement of a job has locked at the moment of
`Take` is skipped (`inUse`).

| variable | code |
|---|---|
| `rows` | `q_<queue>`: where the row is, `vt > now`, and the number of its updates, which tells row versions apart |
| `reader` | per poll: where it is, its `qty`, the rows of its snapshot with their versions, the rows it has updated |
| `lock` | the advisory locks, by group |
| `late` | not in the code: which messages came into a group after a later one had been seen |
| `many` | not in the code: the messages handed out by polls that asked for several |

A poll asks for the free slots of its worker: any number of `Qtys`, another for each poll.
Senders take an id (`Assign`) before they commit (`Arrive`), so that heads of groups
appear late.  Jobs are reduced to what they do to rows: `Settle`, `Expire` and `Postpone`,
the late `set_vt` of a job that has outlived its `vt`.  Whether the
planner tries the lock of a group before or after its head is found visible is left
open (`Take` allows both).

### Worker, WorkerProofs

One worker process (`worker.py`): `Wake`, `PollReturns`, `PollEmpty`, `PruneReturns`,
`LoopRaises` are what `_loop` does between two awaits, `Start` and `End` are `_process`,
`BecomeDue` the passing of `prune_interval`, `Restart` the death of the process.

| variable | code |
|---|---|
| `free` | `Worker.free_slots` |
| `loop` | per processor: the await its loop is in, and the `qty` of its poll |
| `due` | `_next_prune_at`: `None` (no `prune_interval`), ahead, or passed |
| `msg` | per message: unsent, readable, hidden, read by a task that has not begun, running, gone |

The event loop runs created tasks in the order of their creation, so the tasks of a poll
begin before the sleep after it ends (`TasksStarted`); SurplusBound needs it (its mutant
drops it).

### Archive, ArchiveProofs

The archives of a queue and of its DLQ, and the workers that prune them.  `ArchiveRow`
archives a row with the time its transaction began, which may be `Lag` in the past.
`Select` and `Delete` are one DELETE of `Archive.prune` (`broker.py:233-265`): the rows
are chosen in the snapshot of the statement and deleted if they are still there.
`PruneRaises` skips the rest of `Queue.prune`.  No two rows have the same `archived_at`.

### Listing, ListingProofs

A client reads all pages of a table (`fastapi.py`): `CountItems` and `ListItems` are the
two statements of an answer.  Messages are sent, settled and pruned in between; a sender
takes its id (`Assign`) before it commits (`Arrive`), so that messages may appear below those
the client has listed.  The history variable `late` has the messages that did so since the
client began.

### LimitProofs

`ORDER BY ... LIMIT n` occurs in the polls, the grouped reads and the prune.  The models write
it as the elements with fewer than n before them; the lemmas of LimitProofs say what that is
in any finite strict total order, for the theorems about polls and reads.

### MCTaskQueue, MCLeaseTiming, MCGroupedRead, MCWorker, MCArchive, MCListing

The modules for TLC.  Jobs and callers are interchangeable: the safety runs of TaskQueue and
LeaseTiming use them as symmetry sets; runs with a liveness property use none.

## 4. Runs

Each bound is the least at which the case of the run occurs.

| run | instance | shows |
|---|---|---|
| `redelivery` | 1 worker of 3 jobs, 1 message, 2 early expiries, 1 fault, `max_retries` 2 | `TypeOK`, `NoLoss`, `Exclusive`, `ArchivedOutcome`, `StartsBound`, `FailuresBound`, `LettersBound`, `NoErrorLost`, `ArchiveFrozen`, `LedgerSpec`: up to three holders of one message at any point of `process_task` and `fail` |
| `rescheduling` | 1 job, 2 callers, 3 messages, 1 fault | `DlqReference`, `RescheduleReference`, `LedgerSpec`: dead letters rescheduled twice at once and dead-lettered again |
| `progress` | 1 worker of 2 jobs, 2 messages, limit 2, 1 fault, LIFO, no archive, no DLQ, fair | `Leaves` with skipped messages and a worker that may die with both messages processing (section 5), `PollsInOrder`, `NoLoss` of a queue that deletes |
| `lease` | 4 jobs, timeout 3, lag 2, 12 seconds | `LeaseKept`, `OverlapBound` |
| `worker` | 2 loops, 2 slots, 2 messages each, 1 task that ends without its message gone, 1 fault, with and without `prune_interval`, fair | `TypeOK`, `SlotsConserved`, `SurplusBound`, `Handled`, `PrunedForEver` |
| `grouped` | 2 readers, 3 messages in 2 groups, `qty` 1, 1 return each, 1 fault (a rollback, a row locked by a job, a late `set_vt`), fair | `TypeOK`, `ReadOnce`, `GroupOnce`, `InOrder`, `Leaves` |
| `archive` | 2 workers, 3 rows with limit 1 and ttl 2, 1 DLQ row with ttl 1, batches of 1, 1 fault, fair | `KeepsNewest`, `Converges` |
| `listing` | 4 messages, pages of 2 | `ListedOnce`, `QueueOnce` |
| `v_limit`, `v_self`, `v_delay`, `v_group` | smallest | section 5 |

Bounds of TaskQueue: `MaxMsgs` (messages sent), `MaxEarly` (expiries of one message under a
job), `MaxFaults`.  Two holders of a message, one of them stale, need one early expiry; the
second lets the stale holder meet a third one in `fail` or `_remove`, and further ones
only add holders of the same kind.  Nothing else is bounded: retries stop by themselves, the
DLQ grows only by failures.  In
`progress` one fault is enough for as many abandoned messages as the limit: it may be the death
of a worker with both slots in use.  In `lease` twelve seconds are four leases, and the clock
starts at 5, so that even a message retried into the far future comes back.  In `worker`
two loops that each ask for two slots are the least with a surplus.  In `grouped` the
third message is the second of the first one's group, and the second message the head of
another.  In `archive` three rows let two workers choose different rows beyond a limit of
one.  In `listing` four messages are two full pages, or a full and a short one when one is
missing.

Some options occur with one value only (a DLQ without archive and FIFO with deletes do not
occur, `grouped` has polls of one message only, and in `progress` no vt passes under a job,
so that a poll never meets a locked row); the theorems of section 6 cover them.

Every run stops only by its bounds, and even then polls that find nothing go on, so TLC's
deadlock check is on in every run: a state in which a message is in the queue and nothing
can happen is an error.

Fairness of TaskQueue (`FairSpec`): the loop of a worker polls for ever and survives
exceptions (`WF Poll`, what `PrunedForEver` and `Handled` show of Worker); the event loop and
the database serve every coroutine, and `wait_for` bounds the processor's code (`WF
ProcessTask`); the clock passes the `vt` of a message nobody holds (`WF Expire`).  Nothing is
assumed of callers, of faults or of early expiries.  Weak fairness is enough because nothing
disables these actions for ever but their own effect, and because a run sends finitely many
messages: with `lifo` and endless arrivals an old message may wait for ever.  A retry hides
its message until a finite `vt`, see section 5 on its length.

Worker: sleeps and polls end, created tasks run and end, time passes; nothing of senders,
exceptions and restarts, which are finitely many: a process restarted more often than
`prune_interval` never prunes.  GroupedRead: every reader polls again and again, stated as
`[]<><<reader'[w] # reader[w]>>_vars` since a reader always can and always changes; each read
ends with its `vt` or with the message settled.  Archive: the clock goes on and every worker
prunes again and again, as Worker shows; when no more rows come, batches catch up.

## 5. Where code and documents disagree

* `v_limit`: `concurrency_limit` is not a limit.  `process_task` counts the active
  messages (`_processor.py:99`) and marks its own (`:109`) in two transactions; the
  coroutines of one batch all count before any of them has marked.
* `v_self`: the count includes the message just read if its former holder crashed after
  `start`, against the comment at `_processor.py:100-101`.  Such a message is abandoned: its
  status stays `processing` until it is started again, and it counts whenever its `vt`
  lies ahead.  When as many messages as the limit are abandoned and one poll reads them
  together, each counts itself and the others and is skipped; their `vt` passes at the same
  time, and the next poll does the same.  One crash is enough with a limit of one, and with
  a limit of two a worker that dies with two slots in use; other messages of the queue are
  skipped with them.  The queue may stand still for ever in this way, so `Leaves` says that every
  message leaves *unless* from some time on as many messages as the limit are abandoned
  (`Jammed`).  Without that exception TLC refutes it in the instance of `progress`: two messages
  are started, the worker dies, and from then on both are read, counted and skipped again and
  again under the fairness of the run.  With it the run shows that this is the only way a
  message may stay;
* `v_delay`: `retry` computes a point in time (`broker.py:79`), `set_vt` passes it as an
  integer (`:62`), and pgmq's `set_vt` for integers takes seconds from now
  (`pgmq.sql:1003`): a retry waits for as long as the epoch is old, not for `retry_delay`.
  That the client library (pgmq 1.1.1, not part of the repository) calls the function for
  integers is read off its use.  A correction needs care: `LeaseKept` fails for a
  retry that writes the documented point in time, since a holder whose lease has ended may
  then cut the lease of the next one (the mutant of `LeaseKept`).
* `v_group`: a poll with two free slots returns two messages of one group
  (`pgmq.sql:187-198`), and the loop starts a task for each: they run at the same time,
  against "strict FIFO ordering within groups" (`_processor.py:145-146`).  The run has
  `StrictOrder`, which holds when every poll has `qty` 1 (`StrictOrderCorrect`), a message
  aside that commits after a later one of its group has been seen.  What holds for every
  `qty` is `InOrder`: what a poll of several hands out comes with or after all before it.

Smaller ones, without a run:

* an archived message may keep `processing` or `queued`, because the status and the archiving
  of `_remove` are two transactions and another holder may write in between.
  `ArchivedOutcome` is what does hold: an archived `completed` is true, and without an early
  expiry the status is an outcome;
* `len(errors) < max_retries` (`broker.py:468`) allows `max_retries - 1` retries;
* `vt` counts from the read, the timeout from the call of the processor's code, so for the
  time between them a running message is readable, against README.md:154.  `OverlapBound`
  says how long two runs can overlap;
* a retried message of a group blocks its group for as long as it is hidden, which the
  length of `v_delay` makes practically for ever.

## 6. Proofs

TLAPS proves, for all values of the constants under the named assumptions of each module
(counts and bounds are naturals, options Booleans, `JobsAssumption` and `LoopsAssumption`:
the jobs and the loops are finitely many, as processes have finitely many slots and
processors, and `Workers` are sets of jobs):

| module | theorem | states |
|---|---|---|
| TaskQueueProofs | `TypeCorrect` | `Spec => []TypeOK` |
| TaskQueueProofs | `NumberedCorrect` | `Spec => []Numbered`: ids are handed out in order, jobs hold sent messages |
| TaskQueueProofs | `FrozenCorrect` | `Spec => ArchiveFrozen`: what has left the queue never changes |
| TaskQueueProofs | `PollsInOrderCorrect` | `Spec => PollsInOrder` |
| TaskQueueProofs | `NoLossCorrect` | `Spec => []NoLoss` |
| TaskQueueProofs | `DlqReferenceCorrect` | `Spec => []DlqReference` |
| TaskQueueProofs | `ExclusiveCorrect` | `Spec => []Exclusive` |
| TaskQueueProofs | `LedgerCorrect` | `Spec => LedgerSpec`: TaskQueue implements TaskLedger |
| TaskQueueOutcomeProofs | `RescheduleReferenceCorrect` | `Spec => []RescheduleReference` |
| TaskQueueOutcomeProofs | `ArchivedOutcomeCorrect` | `Spec => []ArchivedOutcome` |
| TaskQueueOutcomeProofs | `FailuresCorrect` | `Spec => []FailuresBound` |
| TaskQueueOutcomeProofs | `LettersCorrect` | `Spec => []LettersBound` |
| TaskQueueOutcomeProofs | `NoErrorLostCorrect` | `Spec => []NoErrorLost` |
| TaskQueueOutcomeProofs | `StartsCorrect` | `Spec => []StartsBound` |
| LeaseTimingProofs | `LeaseCorrect`, `OverlapCorrect` | `Spec => []LeaseKept`, `Spec => []OverlapBound` |
| GroupedReadProofs | `TypeCorrect`, `ReadOnceCorrect`, `GroupOnceCorrect` | `Spec => []TypeOK`, `Spec => []ReadOnce`, `Spec => []GroupOnce` |
| GroupedReadProofs | `InOrderCorrect` | `Spec => []InOrder`, for every `Qtys` |
| GroupedReadProofs | `StrictOrderCorrect` | `Spec => []StrictOrder`, under `Qtys = {1}` |
| GroupedReadProofs | `ReadBoundCorrect` | `Spec => []ReadBound`: a read returns no more than `qty` messages |
| WorkerProofs | `SlotsCorrect`, `TypeCorrect`, `SurplusCorrect` | `Spec => [](TypeOK /\ SlotsConserved)`, `Spec => []TypeOK`, `Spec => []SurplusBound` |
| ArchiveProofs | `KeepsNewestCorrect` | `Spec => KeepsNewest` |
| ListingProofs | `ListedOnceCorrect`, `QueueOnceCorrect` | `Spec => []ListedOnce`, `Spec => []QueueOnce` |

The step lemmas say what any step can do to one part of the state (`RowsStep`, `JobStep`,
`OtherJobs`, `DlqGrows`, `HistoryGrows`), or where a statement takes its job (`Moves`,
`RowMove`, `HistoryMove`, `HoldersMove`); each invariant's proof has one step per kind of
action on top.  The inductive invariants of TaskQueue are in TaskQueueInv and were checked by
TLC before they were proved.

* `TypeOK` is inductive.  `Numbered` needs it, and lets the rest ignore rows that were not
  sent.
* `NoLoss` is not inductive: whether a message that leaves has a cause depends on what its
  job did several statements before.  `CauseInv` carries it along: a job in `fail` has a
  counted failure, a job about to write the dlq header holds the id of a dead letter about
  its message, and a job in `_remove` was sent there by a success, or by a failure with the
  dead letter and its reference in place (`RemoveCause`).
* `Exclusive` rests on `HolderInv`: a message without early expiry that a job holds is
  hidden as long as it is in the queue, so no poll can hand it out again.
* The refinement maps every step to a step of the ledger or a stutter.  Settling needs a
  cause, which is `CauseInv`; a dead letter needs a DLQ, which is `LetterInv`.
* `RescheduleReference`: a caller that read a dead letter finds it unchanged at its commit but
  for its place and retry header (`DlqStep`); `ReferenceInv` adds that references point
  backwards.
* `ArchivedOutcome`: without an early expiry the job about to archive is the only holder, and
  has written the status (`OutcomeInv`).
* `FailuresBound`, `LettersBound` and `StartsBound` count jobs.  `FailuresInv`: the dead letters of a message
  and the jobs on their way to send one are no more than its failures; so are the header and
  the jobs that have yet to read it.  `LettersBound` is the other bound of the dead letters, by
  faults and early expiries: `LettersInv` counts the dead letters, the holders that may still
  send one and, if the message is readable, the next one; a holder is past that when it has
  sent its dead letter, and a message that is left in the queue by one that has not settled
  it has room for one more.  `StartsInv`: the starts of a message, the jobs about to
  start it and, if it is readable, the next one (`Expected`) stay within the attempts; the
  excess is what faults and early expiries add (`Excess`).  A holder that may retry has room
  for one more start, and so has a message nobody holds.
* `NoErrorLost`: without faults and early expiries the only holder of a message has all but
  its own failure in the header (`Told`).
* LeaseTiming (`TimesAssumption`; `EpochAssumption`: the clock, counted from 1970, is past the
  timeout): `JobTimes` says that `vt` is no earlier than the end of the lease of any job that
  holds the message, so a new read comes at least a timeout after every other, and that a
  running job is at most `Lag + Timeout` past its read.  `EpochAssumption` is what keeps a
  stale retry harmless.
* `GroupOnce`: a poll that hands out messages of a group holds the advisory lock of the group
  until it ends (`LockInv`), and no two polls hold one lock.
* `InOrder`: a snapshot has every message of the group that comes before one of its own,
  unless that one came late, or the snapshot's own has left (`SnapOrder`); so a head found in
  a stale snapshot is one (`TakenOrder`).  A message that comes before one that is handed out,
  and was never read, is visible (`HiddenRead`) and free, since the group is locked
  (`LockInv`); so it is available, the rounds of the statement take it first
  (`SelectedBefore`), and both are handed out together (`Together`).
* `ReadBound`: the order of the rounds is a strict total one (`FirstOrder`), of which the
  lemma `LimitCorrect` of LimitProofs says that the first `qty` are no more than that, as it
  does of `Batch` (`BatchLimit`) for `PollsInOrder`.
* `SurplusBound`: a loop asks for slots only when the tasks of its last poll have begun
  (`LoopInv`), so that all but one loop's may be in excess.
* `KeepsNewest`: rows that another worker deletes are older than what remains of the newest,
  so a row chosen in a stale snapshot is still over the limit (`StillOver`).
* `ListedOnce` and `QueueOnce` compare ranks.  While the client has listed n pages, an item of
  the table that it has seen has a rank below the offset of the next page, and one it has not
  seen and that was there all the time a rank not below it, unless something came or left
  below the item (`RepeatInv`, `MissInv`); the total tells when the pages are all read.

Only model-checked: liveness (`Leaves` of TaskQueue and GroupedRead, `Handled`,
`PrunedForEver`, `Converges`), which is out of the prover's reach, as ENABLED is.  Every
invariant and action property of the passing runs is a theorem.

## 7. Not modelled

* `retry.py`: the arithmetic of `linear` and `exponential` is on floats; LeaseTiming has the
  delay as a constant.
* The container and its connections: which calls share a connection is decided by an external
  library; a statement that raises is a fault of the models.
* The factories, the protocols of `_broker.py`, the models of the HTTP answers, validation and
  serialisation of payloads, logging, the demo, the command line: construction and data only.
* pgmq functions the code does not call, `pending_count`, which it does not call either.
* Rows with equal `archived_at`: among them the order of a prune is the database's choice, and
  two prunes at a time may each delete another one.
* Two queues with one DLQ name, and the group of a rescheduled message (it gets none): no
  document says what should hold.
