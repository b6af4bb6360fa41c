# Verification of the student service

TLA+ models of this repository (`src/`), the TLC configurations that check them
on small instances, and TLAPS proofs of the properties that matter most. The
reference is always the code; a comment or a log line is quoted only where it
disagrees with the code.

    tlasany StudentScore.tla                        parse a module
    tlc -config StudentScore.cfg MCStudentScore     model-check a run
    tlapm StudentScoreProofs.tla                    check the proofs of a module

Contents: 1 the system, 2 which module models what, 3 the runs, 4 findings,
5 fairness, 6 proofs, 7 assumptions, 8 what is not modelled, 9 plan.

## 1. The system

A Go HTTP service (gin) over MySQL (gorm), Redis and Kafka (sarama). One process
holds everything: request handlers, the pool that publishes student events, the
sender of the local message table, and three consumer groups. `docker-compose.yml`
starts one instance with `restart: always`, so the process can die at any step
and comes back with nothing but MySQL, Redis and Kafka.

| Part | Code | State | Operations |
|---|---|---|---|
| Student changes | `service/student_service.go`, `dao/student_dao.go` | `students` row: score, version, deleted_at | AddStudent, UpdateStudent, DeleteStudent, AddStudentScoreWith{Optimistic,Pessimistic}Lock |
| Local message table | `service/local_message_service.go`, `dao/local_message.go` | `local_message` rows: status, retry count, next retry | SaveAuditMessage inside the change's transaction; every 5 s a scan, send, mark |
| Audit consumer | `kafka/audit_consumer.go`, `dao/audit_dao.go` | Redis key per trace id (24 h), `audit_log` with a unique index, offsets of topic `audit.log` | ConsumeClaim, ConsumeAuditLog |
| Student cache | `service/student_service.go`, `redis/redis.go` | Redis entry `student:info:<id>`, lock `student:lock:<id>` with a 5 s lease | GetStudentByID, the deletions of UpdateStudent and DeleteStudent |
| Student import | `service/import_service.go`, `kafka/import_consumer.go` | one buffer `pending` for all claims of the handler, offsets of `student_import` | ImportStudents, ConsumeClaim, flushBatch, Setup, Cleanup |
| Event pool | `utils/pool.go` | task channel, `stopped`, wait group | Submit, worker, Shutdown |
| Breaker and event producer | `kafka/kafka.go` | gobreaker's state, generation and counts | SendMessageWithTimeout |
| Event consumer | `kafka/student_consumer.go` | Redis key per message, offsets of `student_event` | ConsumeClaim, processEventWithRetry |
| Cursor pages | `service/student_service.go`, `dao/student_dao.go` | none of its own | GetStudentList, GetDeletedStudentList |
| Class cache | `service/class_service.go` | Redis entry, negative entry | GetClassByID |
| Rate limiter | `middleware/ratelimit.go` | a token bucket per address | the middleware |
| HTTP surface | `router`, `controller`, `middleware/auth.go`, `utils/response.go` | none | middlewares, binding, status of the reply |
| Configuration, logging, metrics | `config`, `logger`, `middleware` | counters, files | |

How they meet: a handler commits the student row and the local_message row in one
transaction; the sender publishes the row to `audit.log`; the audit consumer writes
`audit_log`. Independently the handler deletes the cache entry and submits a task
to the pool, whose worker publishes to `student_event` through the breaker; the
event consumer reads it. An upload publishes each row of a spreadsheet to
`student_import`; the import consumer inserts batches. Every request passes the rate
limiter first, and a change also the token.

What makes it hard, and the properties that answer it:

* **Every pair of systems is updated without a common transaction.** MySQL then
  Kafka (sent twice or not at all), Redis then MySQL (claimed and never written),
  a buffer then an offset (committed and never inserted).
* **A lock with a lease** in Redis, released without looking whose it is.
* **Two locking schemes on one row** that do not know each other.
* **State shared by goroutines that Kafka starts and stops**: the import buffer.
* **Shutdown against running handlers**: the pool's channel.
* **Replies decided on what was read earlier**: an id found free, a student found alive, a
  class found missing, by one of many requests at once.
* **Late results**: a send that timed out and is delivered all the same; a breaker
  that changed while the call was out.

## 2. Modules

| Module | Models | Composes |
|---|---|---|
| `AuditTopic` | the topic `audit.log` and the fault counter shared by its two sides | |
| `LocalMessage` | the transaction of a change with its message, and the sender | `AuditTopic` |
| `AuditConsumer` | the audit group | `AuditTopic` |
| `AuditTrail` | sender and consumer in one process, that dies as one | `LocalMessage`, `AuditConsumer` |
| `AuditLedger` | abstract: rows only for committed transactions, one each; a transaction without a change only behind a deletion of its student | |
| `StudentScore` | one row and every kind of request that writes it | |
| `ScoreAccount` | abstract: an account, additions one at a time, never negative | |
| `StudentCache` | one cache entry, its lock, readers and writers, time in seconds | |
| `StudentImport` | upload, topic, sessions, claims, buffer, table | |
| `EventPool` | handlers, queue, workers, Shutdown, whatever the tasks do | |
| `KafkaBreaker` | the breaker, as functions of its state | |
| `StudentPublish` | a request's event through pool, breaker and timeout | `EventPool`, `KafkaBreaker` |
| `EventTopic` | the topic `student_event` | |
| `StudentEventConsumer` | the event group | `EventTopic` |
| `StudentEvents` | senders with late and doubled records, and the consumer, in one process | `StudentEventConsumer` |
| `CursorPage` | a client that follows the cursor while rows change | |
| `RateLimit` | the map of token buckets | |
| `StudentSheet` | ParseStudentExcel, as an operator | |
| `ClassCache` | GetClassByID for one class | |
| `StudentApi` | requests from the first middleware to the reply | `RateLimit`, `StudentSheet`, `ClassCache` |
| `*Proofs` | theorems about the module they are named for; those of `LocalMessage` are in `AuditTrailProofs`, those of `EventPool` in `StudentPublishProofs`, those of `StudentSheet`, `RateLimit` and `ClassCache` in `StudentApiProofs` | |
| `MC*` | values of constants for TLC | |

How state and actions correspond to the code:

**LocalMessage.** `op[i]` is the program counter of the request that makes change
`i` to the student `Target[i]` (an addition, a deletion or an update); `txn[i]` what its
open transaction has written; `table` is the students table (`none`, `live`, `deleted`),
`applied` the changes whose student row is committed and `outbox` the local_message rows.
`BeginChange` is the look before the transaction (`Welcome`: an update or a deletion needs a
student, an addition none, though a deleted one may still have the id); `WriteStudent`, `SaveAuditMessage` and `CommitChange` are the
statements of the three handlers, each of which can fail; a failing commit may have taken
effect. A transaction that has written holds its row (`RowLocked`). Other requests may
commit between the look and the statement: an INSERT of an id in use is then an error, but an
UPDATE or a soft DELETE that finds no row (`AffectsRow`) is none, and its transaction saves
the message and commits without a change, as `student_dao.go:103-108` does. `ReviveStudent` is
the one other request that matters here, the pessimistic addition whose `Save` brings a deleted
student back. A request that is over, with whatever result, is `ended`.
`Scan` is GetPendingMessages with its order and LIMIT and takes
*copies* of rows (`batch`); `Send`, `MarkMessageSent` and `HandleSendFailure` handle
one copy, as `processOneMessage` does. `Send` may return an error after the record
was written. Times become numbers of 5 s scan periods (`wait`). `Elapse` lets one
period pass for all rows.

**AuditConsumer.** `position`, `marked` and `committed` are the consumer's offset,
what MarkMessage recorded and what sarama committed; a rebalance or a restart
continues at `committed`. `ClaimTraceID` is SetNX, `CreateAuditLog` the INSERT with
its unique index, `Finish` the mark, `Abandon` a record whose handling failed and
which is passed over unmarked. `interrupted` (history) collects the trace ids whose
handling met an error or died between the claim and the row.

**StudentScore.** `read[r]` is the row as request `r` read it, `draft` what the
transaction that holds the row lock has written. `UpdateScoreByVersion` and
`VersionConflict` are the two outcomes of the compare-and-set, `Write` is `Save`,
`Updates` or `Delete` with what gorm makes of them: `Save` writes every column as
read (also `version` and `deleted_at`), `Updates` with a struct writes the non-zero
ones to a row that is not deleted. `AfterConflict` is the end of a lost round, `AffectsRow`
whether the statement finds a row: nobody looks at that after an update or a deletion, so
`OkMeansCredited` has to except the one whose student was deleted meanwhile. `ReadRow` takes no lock in the pessimistic
case either, see section 4.

**StudentCache.** A reader goes through Get, SetNX, the second Get, the query, the
goroutine that fills the cache (`setter`), the class lookup and the deferred Del,
with `left[r]` seconds of its context. SetNX, Set and Del are two steps each: `Send` puts the
command on `wire` if the context is alive at that moment, and `Execute` is Redis running it,
up to `Flight` seconds later or never, when the context may be over and the reader gone
(`redis.go:20-25` leaves go-redis' `ContextTimeoutEnabled` off, so the client asks the context
before it writes and not afterwards). SetNX is answered (`AnswerSetNX`) or not; a reader
that gets no answer (`GiveUp`) queries MySQL without the lock it may have taken. go-redis sends
a command again when its connection breaks: `ResendDel` is the one case in which that
matters, and `resent` remembers it. `UpdateStudent` deletes, sleeps and deletes
again; `DeleteStudent` deletes once; the score endpoints do not delete. `Tick` is a
second; it may pass between any two steps, so a goroutine can be as slow as it
likes, except that nothing is sent to Redis and no query of MySQL answers once the context is done.

**StudentImport.** `log[p]` is partition `p`; `claim[p]` the goroutine that runs
ConsumeClaim for it; `pending` the shared buffer. `StartClaim` empties the buffer
as line 59 does, `Receive` appends, `FlushFull` inserts a full batch outside the
mutex, `LeaveLoop` is the end of the session or ten quiet seconds, after which
sarama ends the session of every claim. `SendRow` writes a row's record once, not at all,
or (a fault: the broker's answer is lost) twice; what the upload counts and replies is in
`StudentApi`. `Flush` is one INSERT for a batch: a student in `Refused` (MySQL refuses its
row: the name is longer than the column, or the foreign key does not find class 0, which the
parser puts in by default) takes the batch with it. History: `lost` (students in a batch that
could not be inserted or in the buffer of a process that died) and `wiped`
(students in the buffer a starting claim replaced).

**EventPool, KafkaBreaker, StudentPublish.** `CheckStopped` and `Enqueue` are separate steps, as
in `Submit`; `SendOnClosed` is the panic, from which gin recovers. `LeaveRange` is a worker that
finds the closed channel empty. `SetStopped`, `CloseQueue` and `AllGone` are `Shutdown`. In
`StudentPublish` a task is the closure of `pubilshStudentEvent`: `StartCall` is Execute's
question to the breaker, `EndCall` the result or the two seconds, whichever is first, and
`Return` lets the worker go on. The breaker is the library's, used as `InitBreaker`
configures it: generations, counts, one probe when half-open, tripping at three requests
of which half failed. It starts closed or open: a breaker some earlier calls have opened.

**StudentEvents.** The same calls seen from the topic: `Produce` is the goroutine that SendMessage
runs in, which goes on after its caller's two seconds and may write no record, one or two.
Whether the breaker admits a call is left open here; `StudentPublish` says when.

**StudentEventConsumer.** As AuditConsumer, with the order reversed: the key is
looked up, the event processed, the key set, the record marked.

**CursorPage.** `row[i]` is a student with auto-increment id `i` and may be in an
open transaction; `Answer` is the query with its look-ahead row and the cut, `AfterCursor`
its WHERE and `LastID` the id the next page is asked with.

**StudentApi.** `stage[r]` is where request `r` is, `reply[r]` the status it was answered with.
Requests are numbered in the order they arrive in, which says nothing of the order of anything else.
`Arrive` and `Admit` are the middlewares, `Bind` the refusals with 400, `Look` the service's
query before it acts, `Commit` and `RollBack` the transaction seen as a whole (its steps
are `LocalMessage` and `StudentScore`), `Publish` what comes after it. `table` is the student table
as far as a primary key and a soft deletion go. `maker`, `changed` and `audited` are history.
`ImportStudents` parses the sheet and sends its students; their consumption is
`StudentImport`.

**RateLimit.** `limiterMap` names each limiter by the request that made it, `held` is the one
getLimiter returned, `tokens` its bucket. Lookup and insertion are one step, as under the
mutex; `Allow` is another.

**ClassCache.** One class, that does not exist until an addition brings it along (the nested
object in the body of a POST, which gorm creates). `FillClassCache` is the goroutine's Set, however late.

## 3. The runs

Every bound is a constant of a `.cfg`. Requests, events and messages do not repeat
within a behaviour, so a run is finite without state constraints; `MaxFaults` bounds
how often something outside goes wrong. The systems end when their requests
are used up, so deadlock is not checked.

| Run | Configuration | Checks |
|---|---|---|
| `outbox` | 2 messages (an update and a deletion of one student), 1 sender, 3 retries, scan of 1 row, 2 faults | `ChangeHasMessage` `SentWasPublished` `GivenUpAfterMaxRetry` `NeverReopened` `EveryMessageSettles` |
| `trail` | the same 2 messages, 1 sender, 1 retry, scan of 2 rows, 1 fault | `OnlyInterruptedLost` `LedgerSpec` `EveryChangeAudited` |
| `score` | 3 optimistic, 1 pessimistic, 1 update, 1 deletion, 2 rounds, 1 fault | `AccountSpec` `ConflictMeansProgress` `OkMeansCredited` `ScoreNeverNegative` `NoLeakedLock` `StaysDeleted` |
| `import` | 2 partitions, 3 rows, one of them refused, batches of 2, 1 fault | `TypeOK` `NothingVanishes` `NoRepeatedRows` `LossIsBounded` `CleanupFindsNothing` `EveryRowImported` |
| `cache` | 2 readers, 1 update, 1 deletion; context 1 s, flight 1 s, lease 2 s, second deletion after 1 s | `HolderKeepsLock` `NoLateStaleWrite` `EveryReadReturns` |
| `publish` | 4 handlers, 2 workers, queue of 1, breaker closed or open | `ShutdownDrains` `OneProbe` `ClosedIsHealthy` `ShutdownReturns` `EveryTaskSettles` |
| `events` | 2 events, 1 fault | `TypeOK` `CommittedIsProcessed` `RepeatNeedsExcuse` `SentIsProcessed` |
| `cursor` | 4 students, 2 classes, pages of 1 or 2, 1 client | `TypeOK` `ListedAscending` `NobodySkipped` |
| `api` | 3 requests of 10 forms, 2 addresses, burst 2, 1 tick, 4 ids, 1 fault | `AdmittedWithinRate` `RefusedChangedNothing` `AddedOnce` `UploadReplyTrue` `MissingClassHeals` |
| `trail_duplicate` `score_pessimistic` `import_shared` | as above, smaller | a claim of the code that does not hold (section 4) |

The type invariants of the other modules are not in a run: they are proved (section 6).

What they show, and why the bounds are enough:

* **outbox.** A scan limit of one makes two messages compete for the LIMIT, which is
  the case in which a failing row could starve another: it cannot, because its
  back-off grows. Three retries let the back-off take two values. Two faults
  suffice for a send that succeeded, followed by a mark that failed, followed by
  a crash. An update and a deletion of one student are the smallest pair of which one can
  overtake the other: whichever is second finds no row or a row. `ChangeHasMessage` has
  therefore two halves: a durable change has its message, always; a message whose change
  was not made is that of an update or a deletion behind somebody else's durable deletion.
  `NeverReopened` holds with one sender only; section 6 has what holds with several.
* **trail.** The same two messages through topic and consumer, which can now also be marked
  out of turn: the mark of the second moves the offset past the first, whose handling
  failed. `LedgerSpec` says that rows appear only for committed transactions, at most once each,
  and that one without a change was overtaken by a deletion; `OnlyInterruptedLost` that
  nothing but an interruption between the key and the row loses one; `EveryChangeAudited` that
  without faults, Kafka's failures to send excepted, every committed message is audited
  unless it is given up. One fault and one failed send keep the run short; with 2 retries
  (5.5 million states) and with 2 faults (4.3 million) the safety properties hold as well, and the
  theorems of section 6 have no bound.
* **score.** With three optimistic requests and two rounds, one can lose both
  rounds; a negative amount (-2 from a score of 1, which other additions may or may
  not have made large enough) makes the refusal depend on the order. `AccountSpec`
  and `ConflictMeansProgress` promise nothing once a request of another kind has
  written: that is the code's behaviour, not a choice of the model. `Save` and
  `Updates` write back the version they read, so a version can be used twice.
  `StaysDeleted` excepts exactly the pessimistic addition that read the row alive.
* **import.** Two partitions are the smallest number of claims that share the buffer; three
  rows with batches of two give a full batch and a batch that waits for the quiet-time exit,
  from one partition or both, and a refused row that has, or has not, a neighbour to take
  with it. `LossIsBounded` is about the runs in which nothing else fails. The other
  properties leave out the students that `wiped` and `lost` record; section 4 is about
  `wiped`.
* **cache.** The lease is exactly as long as a context and a command on its way, the shortest
  with which `HolderKeepsLock` holds (the theorem's hypothesis; in the code 5 s against 2 s, so
  a command may take 3 s). With a context of 2 s, a lease of 3 s and a flight of 1 s the
  safety properties hold as well. The window in which an out-of-date value can enter the cache
  after a change is a context and a flight, whatever the lease is (`NoLateStaleWrite`): 2 s and
  the time the network takes.
  `UpdateStudent`'s second deletion comes after 1 s, so an entry written in the rest of the
  window stays until it expires (10 to 15 minutes). With `DeleteStudent` and with the
  score endpoints the same holds without a second deletion. `Scorer` is empty in the run
  because a writer whose deletions fail does what the score endpoints do; the
  theorems hold with it.
* **publish.** More handlers than workers and queue places together, so that Submit blocks while
  Shutdown begins; three failing calls trip the breaker and the fourth meets it open or
  half-open, and from an open start two workers meet it half-open. Nothing is assumed
  of Kafka: `ShutdownReturns` rests on the two seconds alone.
* **events.** Senders and consumer together. An event reported as failed
  may be processed all the same (a late send); one reported as sent always is.
* **cursor.** Page sizes 0 (the default) and 9 (above the cap of 2); four students
  make three pages or two with one arriving. `due` (history) are the students that matched from the
  first query on.
* **api.** A burst of two and three requests: the third of an address is refused unless a tick
  passes. The forms are those that differ in what a handler does with them; three requests
  make the races that matter: two additions of one id, a deletion between the look and
  the write of an update or an addition to the score, a class made while another
  request has just been told that there is none. 500 is the reply that leaves
  open what was done (a lost reply to COMMIT, a panic of Submit), so `RefusedChangedNothing`
  does not speak of it.

Each property has a mutant: a definition changed the way a plausible bug would, under
which TLC finds the property violated. They are the operators named `Mut...` next to
the definitions they change.

## 4. Where the code disagrees with itself

Three runs end in a counterexample on purpose:

* `trail_duplicate`: the audit consumer logs "重复消息，跳过" (repeated message, skipped;
  `kafka/audit_consumer.go:66`) for a record it never wrote a row for: the key is set
  before the INSERT and is not removed when that fails or the process dies. `src/log/app`
  (first at line 10) shows it for one trace id that is never reported as written.
  `OnlyInterruptedLost` bounds the damage.
* `score_pessimistic`: GetStudentByIDForUpdate asks for `FOR UPDATE`
  (`dao/student_dao.go:90`) with a setting that gorm v1.31 ignores, so two additions
  read the same score and the second overwrites the first.
* `import_shared`: the mutex is there to protect `pending` (`kafka/import_consumer.go:21`),
  but line 59 replaces the buffer whenever a claim starts. With one partition, Kafka's
  default and so this deployment's, no other claim exists and nothing is wiped.

Four more were met while reading and have no run, since what they need is a few lines of
sequential code:

* `utils/response.go:13` says "操作成功" (done) to an update or a deletion that affected no row,
  and an audit message says so too, if the student was deleted between the look and the
  statement (`dao/student_dao.go:103-108`). `OkMeansCredited`, `ChangeHasMessage` and
  `AuditLedger` (`CommitVoid`) say that this is the only case.

* `controller/student_controller.go:54` answers 404 to the error "学生不存在", which
  GetStudentByID never returns: it says "查询失败" under the lock, and passes gorm's own
  error on without it.
* `model/student.go:39` says the front end uses `last_id` to pull the next page, but the
  query is bound by `form` tags or Go's field names, and the field has a `json` tag only: a
  query with `last_id` gets the first page again. `CursorPage` models a client that
  sends the name gin reads.
* `Submit` has an error for a pool that has stopped (`utils/pool.go:43`); a handler that
  meets Shutdown between that check and the send panics instead. `StudentPublish` contains
  the step (`SendOnClosed`). In this program Shutdown runs only after `r.Run`
  has failed to listen or stopped, so handlers are seldom there.

## 5. Fairness

Stated for goroutines that run without waiting for anybody's request, never for requests to
begin, for faults or for crashes.

* *Sender* (`LocalMessage`, `AuditTrail`): weak fairness of Scan, of the handling of some row
  in the batch and of `Elapse`: a ticker and a sequential loop. A send may fail each time;
  the retry count bounds it.
* *Audit and event consumer*: weak fairness of the loop. Rebalances and crashes are bounded by the
  faults. Nothing assumes that offsets are committed.
* *Import*: weak fairness of the handlers and of the session's end and start (`StartConsumer`
  calls Consume in an endless loop), strong fairness of a claim's start and of a receive: the session
  can end again and again between the two, but a claim ends it only after ten quiet
  seconds and sarama fetches within them.
* *Cache*: weak fairness of a request that has begun and of time. `SetCache` has none, nor has
  Redis (`Execute`). Each reader of the model is one request: that it returns says nothing of
  an endless stream of requests for one student taking turns with the lock.
* *Publishing*: weak fairness of each worker, of a call that has its two seconds, of a blocked
  Submit that can go on, and of Shutdown once it has begun. A handler need not submit,
  Shutdown need not be called, Kafka need not answer and the breaker's time need not pass.
* *Events*: weak fairness of the consumer only; senders may stop.
* *Requests*: weak fairness of an entry's expiry in Redis, and of nothing else.

## 6. Proofs

TLC checks the constants of a `.cfg`; the theorems hold for all values that satisfy the
modules' named assumptions (retries, limits and deadlines are natural numbers, kinds
of requests do not overlap, a sheet is a sequence of rows). `HolderKeepsLockHolds` has a hypothesis
of its own: the lease is no shorter than the context's deadline and a command's flight together.

| Module | Theorems | Argument |
|---|---|---|
| `AuditTrailProofs` | `OutboxTypes` `ChangeAndMessageAtomic` `SentImpliesPublished` `RetriesBeforeGivingUp`, for any number of senders; `OneSenderNeverReopens` for one | `LMInv` |
| | `TrailTypes` `AuditRowsAreTrue` `OneAuditRow` `LossNeedsInterruption` `DuplicateWasHandled` and `TrailImplementsLedger` (refinement) | `ATInv` |
| `StudentScoreProofs` | `ScoreTypes` `SuccessIsDurable` `NeverNegative` `LockReturned` `DeletedStays`, for every mix of requests | `MixedInv` |
| | `OptimisticImplementsAccount` (refinement) `ConflictNeedsProgress`, for every mix of requests | `AccountInv` |
| `StudentCacheProofs` | `CacheTypesHold` `HolderKeepsLockHolds` `NoLateStaleWriteHolds`, with any number of readers and writers of all kinds | `CacheInv`, and `LeaseInv` for the lock |
| `StudentPublishProofs` | `PoolTypes` `ShutdownDrainsAll`, for the pool whatever its tasks do | `PoolInv` |
| | `PublishImplementsPool` (refinement of `EPSpec`) and from it `PublishDrains`; `PublishTypes` `OneProbeAtATime` `BreakerOpensInTime`, for any number of handlers and workers | `PublishInv` |
| `StudentEventsProofs` | `EventsTyped` `CommittedProcessed` `RepeatExcused`, for any number of events and faults | `EventInv` |
| `StudentApiProofs` | `ApiTyped` `RateHolds` `RefusalLeavesNoTrace` `ConfirmedAdditionsAreMade` `UploadRepliesTrue`, for any forms and any number of requests | `ApiInv` |
| `StudentImportProofs` | `ImportTyped` `MarkedIsCovered` `CleanupIdle` `LossesBounded` `RowsOnce`, for any number of partitions, rows and faults and any batch size; `OneClaimWipesNothing` `SessionsLeaveNothing` for one partition | `ImportInv` |
| `CursorPageProofs` | `CursorTyped` `ListsAscend` `PagingMissesNobody`, for any page sizes and any number of clients | `CursorInv` |

Why the properties are not inductive by themselves, and what is added:

* `LMInv`. "Sent was published" needs to know what a pending *reply* means: after an `ok`
  the record of some row of the batch is in the topic. "Given up after MaxRetry" needs that a *copy* of
  a row in a batch is no newer than the failures counted so far, which is what makes stale
  copies of several senders harmless. "Change has message" needs the
  program counter and the contents of the open transaction to agree, and that an update or a
  deletion which has passed its look and now finds no student is behind another's durable
  deletion (`GoneByOther`), also after a revival.
* `OneSenderInv` adds that a row in the batch of the only sender is still pending,
  which is false with two.
* `ATInv`. The lost-row property needs the three offsets in order
  (`Offsets`), that every record before the position was *handled* (`ReadHandled`), and that
  a Redis key exists only for a trace id that was audited, was interrupted, or is being
  handled now (`KeyHandled`). That rows tell the truth follows from a chain: a record in the
  topic is a committed message's (`RecordsOfMessages`), and so is a row (`RowsOfMessages`). In
  `TrailImplementsLedger` a commit maps to the ledger's `Commit` or, by `ChangeHasMessage` in the next state, to
  `CommitVoid` (`CommitIsLedgerCommit`).
* `MixedInv`. The lock is held by exactly the request that has written (`LockIsWriters`), so
  giving it back on each path is enough; what may become the row is as non-negative as the row
  (`NothingNegative`); a row that is not live has a durable deletion
  (`GoneByDeletion`), which is what the exception of `OkMeansCredited` needs.
* `AccountInv` adds to it, as long as no transaction has changed the row (`Unspoilt`), that an
  unchanged version means an unchanged score (`VersionFixesScore`), which is why the
  compare-and-set is right, and that the version grows in each lost round
  (`RoundsSeeProgress`), which is why giving up means progress. Both are false afterwards: `Save`
  and `Updates` write back a version they read earlier.
* `CacheInv`. A value read under a context that is alive can only be out of date by a change
  younger than the context (`StaleSinceBegin`), and one that was sent under it by a change
  younger than the context and the time the command has been on its way (`StaleSinceSent`).
* `LeaseInv`. What is left of the holder's context and a flight together are never more than what is
  left of its lease: so it is when the lock is set, and they count down together
  (`LeaseOutlivesContext`). Its Del therefore arrives before the lease is over and another
  reader has the lock (`DelInTime`). Both
  fail once a Del has been sent twice: the second may arrive when the next reader holds the lock.
* `PoolInv`. Accepted tasks are queued, running or finished (`AcceptedIsSomewhere`), and
  a worker leaves only an empty closed queue.
* `PublishInv`. The breaker's `requests` is the number of calls admitted in its generation, and
  its failures and the calls still out are together no more than that; results of
  earlier generations are ignored because their number is smaller. `PublishImplementsPool`
  has no invariant of its own: each step of the composition is one of the pool or a stutter.
* `EventInv`. As in the audit trail, offsets are in order and what is marked was processed;
  a key means processed (the audit consumer's does not), and what was processed has a key, an
  excuse, or is about to get one (`KeyOrExcuse`).
* `ApiInv`. A limiter belongs to one address and was made once (`LimiterInv`), and what the
  address got through plus what is in its bucket is no more than burst and ticks; a
  request that has not committed has changed nothing (`Clean`); an id without a row has no
  maker (`MakerInv`), so an insertion displaces nobody; what is recorded of an upload agrees with its
  sheet before the reply is sent (`Uploaded`), which rests on what ParseStudentExcel
  returns for every sheet (`ParseFacts`).
* `ImportInv`. `NothingVanishes` speaks of what is marked, but a record is covered from the moment
  it is *received* (`ReceivedCovered`). A batch is out only while its claim inserts it
  (`BatchStage`), and whoever filled the buffer is a claim that still has flushAndExit before
  it (`BufferStage`): that is why Cleanup finds nothing and why, with one partition, a claim that
  starts finds nothing to wipe. As long as nothing fails (`Quiet`) each row is in the topic once
  (`LogOnce`), nobody is in two buffers (`BuffersDisjoint`), a student is in one
  place and nowhere before its record is received (`OnePlace`), and what a session received it has
  marked and committed when it ends (`AllMarked`), so that the next repeats no record. `LossIsBounded`
  is inductive given these: each batch that is lost contains a refused student that was
  not lost before.
* `CursorInv`. A client has been shown every student with an id up to its cursor that matched all
  along (`UpToCursor`), and nothing behind the cursor; the rest is `ORDER BY` and `LIMIT`, where
  the row fetched only to look ahead must not move the cursor (`PageIs`).

The library's induction theorems cannot be used with the installed provers. Where a proof needs
induction over data it takes the least counterexample from a set instead: the
least number of rows for which the recursive function of `ParseRows` fails, the smallest
set of ids that cannot be listed in order.

The invariants that strengthen were checked by TLC before they were proved. Only model-checked:
everything about liveness (`EveryMessageSettles`, `EveryChangeAudited`, `EveryRowImported`,
`EveryReadReturns`, `ShutdownReturns`, `EveryTaskSettles`, `SentIsProcessed`, `MissingClassHeals`),
which is beyond the proof system's reach with fairness, and the three counterexamples of section 4.
For two of those the proofs say what is true instead: `DuplicateWasHandled` of the record that is skipped,
`OneClaimWipesNothing` of the buffer when a single claim uses it. Every invariant and every action
property of a run is the statement of a theorem.

## 7. Assumptions about what is not in `src/`

* **MySQL** (InnoDB, REPEATABLE READ): a transaction is atomic and is rolled back when its
  connection dies; a write waits for the row lock, keeps it until its transaction ends and sees
  the committed row; a statement that matches no row is no error; a plain SELECT
  does not wait. A commit that returns an error may have taken effect.
* **gorm 1.31.1**: `Save` writes every column and inserts or overwrites when no row was updated; `Updates`
  with a struct skips zero values; queries and updates add `deleted_at IS NULL`; the
  option `gorm:query_option` is ignored.
* **Redis**: commands are atomic; keys may expire or be evicted at any time, except that the
  lock lives for its lease; a call that fails may have taken effect. go-redis 9 asks a call's
  context before it writes the command and, without `ContextTimeoutEnabled`, not afterwards; a command
  written reaches Redis within `Flight` seconds or never, which is an assumption about the network
  that nothing in the code enforces. Of go-redis' resending only that of the Del is modelled: a
  SetNX sent again lets a reader find its own lock and wait out the lease, and a Set
  sent again within its context writes the same value within the same bound.
* **Kafka and sarama**: records of one partition are delivered in order, from the committed
  offset after a rebalance or a restart; marked offsets are committed in the
  background; a producer's retry can write a record twice and an error does not mean that it was not
  written; the session of all claims ends when one ConsumeClaim returns.
* **gobreaker 1.0.0**: as in `KafkaBreaker`, from how `InitBreaker` configures it.
* **gin**: a panic in a handler is answered with 500 and the process lives.

## 8. Not modelled

* *Metrics, the request log, pprof, configuration, logging, connecting*: counters and
  straight-line code nothing else reads. Of replies only the status is modelled, and the
  counts of an upload's.
* *`audit_service.go`*: SendAuditMessage has no caller, nor have `BatchAddStudents` and
  the functions of `dao/student_dao.go` without a transaction. *`circuit_breaker.go`* has no code.
* *Retries and dead letter topic of the event consumer*: `processEvent` cannot fail, so they are
  never reached.
* *Contents* of students, messages and spreadsheets: identities only, as far as the
  properties tell them apart. The data race of the goroutine that marshals the
  student while the request sets its class (`student_service.go:135`) is outside: an
  entry of the cache is the row that was read.
* *The pool of AuditMessage structs* (`student_service.go:31`): SaveAuditMessage puts the struct back
  once its message is a string, and its callers do not use it afterwards, so a struct has
  one owner at a time.
* *Additions with an id of their own choice or with `deleted_at` in the body*, in `CursorPage` (which hands out the
  next id, and does not bring back a deleted student) and `LocalMessage` (an added student is live).
* *Scores of an addition below zero*, which AddStudent does not check: `StudentScore` starts
  from a score that is not negative.
* *Scores of more than 999.99*, which the column `decimal(5,2)` refuses: a statement that fails,
  as others do.

## 9. Plan

Done, in the order of importance:

1. Audit trail: `LocalMessage`, `AuditConsumer`, `AuditTrail` against `AuditLedger`, with proofs.
2. Scores: `StudentScore` against `ScoreAccount`, with proofs for every mix of requests.
3. Cache: `StudentCache`, with proofs.
4. Import: `StudentImport`, with refused rows and with proofs.
5. Events: `EventPool`, `KafkaBreaker` and `StudentPublish`, which implements the pool, and
   `StudentEvents`, with proofs.
6. Pages: `CursorPage`, with proofs.
7. Requests: `StudentApi` with `RateLimit`, `StudentSheet` and `ClassCache`, with proofs.

Left:

* `StudentApi`'s `Commit` and `RollBack` stand for the transactions of `LocalMessage` and
  `StudentScore`, and its uploads for the topic of `StudentImport`; that these fit is said in the
  comments only. A refinement between them would say it formally.
* The liveness properties could rest on proved step properties (the counters that decrease under
  each fair action), although the proof system cannot combine them with fairness.
