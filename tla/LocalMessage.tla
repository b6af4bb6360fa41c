---------------------------- MODULE LocalMessage ----------------------------
(***************************************************************************)
(* The local message table (transactional outbox).  AddStudent,            *)
(* UpdateStudent and DeleteStudent change a student and insert the         *)
(* local_message row of the change in one MySQL transaction, whether or    *)
(* not the student is still there when the statement runs; every sender    *)
(* (StartLocalMessageSender, one goroutine per running instance of the     *)
(* service) scans the table, publishes what is due and records the outcome.*)
(***************************************************************************)
EXTENDS AuditTopic, Integers, FiniteSets

CONSTANTS
  Student,    \* ids of students
  Target,     \* the student of each change
  Addition,   \* changes made by AddStudent
  Deletion,   \* changes made by DeleteStudent; the others are UpdateStudent's
  Sender,     \* running instances of the service
  MaxRetry,   \* LocalMessage.MaxRetry; SaveAuditMessage sets it to 5
  ScanLimit   \* rows per scan; SendPendingMessages passes 100

ASSUME ChangeAssumption ==
  /\ Target \in [MsgId -> Student]
  /\ Addition \subseteq MsgId /\ Deletion \subseteq MsgId
  /\ Addition \cap Deletion = {}
ASSUME MaxRetryAssumption == MaxRetry \in Nat \ {0}
ASSUME ScanLimitAssumption == ScanLimit \in Nat \ {0}

VARIABLES
  op,          \* progress of the request that makes change i
  txn,         \* what the open transaction of i has written so far
  table,       \* the students rows: none, live or (softly) deleted
  applied,     \* changes whose student row is durable
  outbox,      \* the local_message rows
  batch,       \* rows a sender has read and not dealt with yet
  reply,       \* what SendMessage returned for the row being processed
  failedSends  \* history: failed SendMessage calls per message

\* Variables only this module's actions change.
senderVars == <<batch, reply, failedSends>>
outboxVars == <<op, txn, table, applied, outbox, senderVars>>
lmVars == <<topic, faults, outboxVars>>

\* LocalMessage.Status 0, 1 and 2, and a row that is not there.
Statuses == {"absent", "pending", "sent", "failed"}
Absent == [status |-> "absent", retry |-> 0, wait |-> 0]

\* A new row is due at once; wait counts the scan periods (5 seconds) that
\* are left until NextRetry.
NewRow == [status |-> "pending", retry |-> 0, wait |-> 0]
-----------------------------------------------------------------------------
(* The transaction of a student change                                     *)

InTransaction == {"open", "written", "saved"}

\* GetStudentByID before the transaction: an addition goes on if it finds no
\* student, an update or a deletion if it finds one.
Welcome(i) == (table[Target[i]] = "live") <=> i \notin Addition

\* The request goes on, or is refused: by what it read, or as its query failed.
BeginChange(i) ==
  /\ op[i] = "idle"
  /\ \/ Welcome(i) /\ op' = [op EXCEPT ![i] = "open"]
     \/ op' = [op EXCEPT ![i] = "ended"]
  /\ UNCHANGED <<topic, faults, txn, table, applied, outbox, senderVars>>

\* gorm's Transaction rolls back and returns the error.
Rollback(i) ==
  /\ op' = [op EXCEPT ![i] = "ended"]
  /\ txn' = [txn EXCEPT ![i] = {}]

\* A transaction that has written holds the row, or the gap, until it ends.
RowLocked(s) == \E j \in MsgId : op[j] \in {"written", "saved"} /\ Target[j] = s

\* The statement finds its row: the id is free, or the student still there.
AffectsRow(i) ==
  IF i \in Addition THEN table[Target[i]] = "none" ELSE table[Target[i]] = "live"

\* CreateStudentWithTx, UpdateStudentWithTx or DeleteStudentWithTx.  An
\* insertion of an id in use is an error; an update or a deletion that affects
\* no row is not, and the transaction goes on without a change.
WriteStudent(i) ==
  /\ op[i] = "open"
  /\ \/ /\ ~RowLocked(Target[i])
        /\ i \in Addition => AffectsRow(i)
        /\ op' = [op EXCEPT ![i] = "written"]
        /\ txn' = [txn EXCEPT ![i] = IF AffectsRow(i) THEN {"student"} ELSE {}]
     \/ Rollback(i)
  /\ UNCHANGED <<topic, faults, table, applied, outbox, senderVars>>

\* Mutant: the error of CreateLocalMessage is dropped and the change commits.
MutSaveIgnoresError(i) ==
  /\ op[i] = "written"
  /\ op' = [op EXCEPT ![i] = "saved"]
  /\ \E w \in {{}, {"message"}} : txn' = [txn EXCEPT ![i] = @ \cup w]
  /\ UNCHANGED <<topic, faults, table, applied, outbox, senderVars>>

\* SaveAuditMessage: marshal the message and insert its row through tx.
SaveAuditMessage(i) ==
  /\ op[i] = "written"
  /\ \/ /\ op' = [op EXCEPT ![i] = "saved"]
        /\ txn' = [txn EXCEPT ![i] = @ \cup {"message"}]
     \/ Rollback(i)
  /\ UNCHANGED <<topic, faults, table, applied, outbox, senderVars>>

\* What a commit makes durable is what the transaction wrote.
Publish(i) ==
  /\ IF "student" \in txn[i]
     THEN /\ applied' = applied \cup {i}
          /\ table' = [table EXCEPT ![Target[i]] =
                         IF i \in Deletion THEN "deleted" ELSE "live"]
     ELSE UNCHANGED <<applied, table>>
  /\ outbox' = IF "message" \in txn[i]
               THEN [outbox EXCEPT ![i] = NewRow] ELSE outbox

\* Commit may fail, and a failed commit may still have taken effect.
CommitChange(i) ==
  /\ op[i] = "saved"
  /\ op' = [op EXCEPT ![i] = "ended"]
  /\ Publish(i) \/ UNCHANGED <<table, applied, outbox>>
  /\ txn' = [txn EXCEPT ![i] = {}]
  /\ UNCHANGED <<topic, faults, senderVars>>

\* A pessimistic addition to the score that read the student before it was
\* deleted saves every column as read, deleted_at among them.
ReviveStudent(s) ==
  /\ table[s] = "deleted"
  /\ ~RowLocked(s)
  /\ table' = [table EXCEPT ![s] = "live"]
  /\ UNCHANGED <<topic, faults, op, txn, applied, outbox, senderVars>>
-----------------------------------------------------------------------------
(* The sender                                                              *)

\* Mutants: the query forgets status=0, or has next_retry>=now.
MutDueAnyStatus == {i \in MsgId : outbox[i].status # "absent" /\ outbox[i].wait = 0}
MutDueLate == {i \in MsgId : outbox[i].status = "pending" /\ outbox[i].wait > 0}

Due == {i \in MsgId : outbox[i].status = "pending" /\ outbox[i].wait = 0}

\* WHERE status=0 AND next_retry<=now ORDER BY id LIMIT ScanLimit
PendingMessages ==
  {i \in Due : Cardinality({j \in Due : j < i}) < ScanLimit}

\* The rows keep the retry count that was read.
Scan(s) ==
  /\ batch[s] = {}
  /\ Due # {}
  /\ batch' = [batch EXCEPT ![s] =
                 {[id |-> i, retry |-> outbox[i].retry] : i \in PendingMessages}]
  /\ UNCHANGED <<topic, faults, op, txn, table, applied, outbox, reply, failedSends>>

\* The rows of a batch are processed in id order.
Current(s, m) ==
  /\ m \in batch[s]
  /\ \A n \in batch[s] : m.id <= n.id

\* The sync producer reports success, or an error after which the record may
\* be in the topic all the same.
Send(s, m) ==
  /\ Current(s, m)
  /\ reply[s] = "none"
  /\ \/ /\ reply' = [reply EXCEPT ![s] = "ok"]
        /\ topic' = Append(topic, m.id)
        /\ UNCHANGED failedSends
     \/ /\ reply' = [reply EXCEPT ![s] = "error"]
        /\ topic' \in {topic, Append(topic, m.id)}
        /\ failedSends' = [failedSends EXCEPT ![m.id] = @ + 1]
  /\ UNCHANGED <<faults, op, txn, table, applied, outbox, batch>>

\* processOneMessage returns and the loop takes the next row.
NextRow(s, m) ==
  /\ batch' = [batch EXCEPT ![s] = @ \ {m}]
  /\ reply' = [reply EXCEPT ![s] = "none"]

\* Each UPDATE ... WHERE id=? of the sender may fail; the error is logged.
UpdateRow(i, row) ==
  \/ outbox' = [outbox EXCEPT ![i] = row] /\ UNCHANGED faults
  \/ Fault /\ UNCHANGED outbox

\* Mutant: the row is marked sent whatever SendMessage returned.
MutMarkAnyReply(s, m) ==
  /\ Current(s, m)
  /\ reply[s] # "none"
  /\ UpdateRow(m.id, [outbox[m.id] EXCEPT !.status = "sent"])
  /\ NextRow(s, m)
  /\ UNCHANGED <<topic, op, txn, table, applied, failedSends>>

MarkMessageSent(s, m) ==
  /\ Current(s, m)
  /\ reply[s] = "ok"
  /\ UpdateRow(m.id, [outbox[m.id] EXCEPT !.status = "sent"])
  /\ NextRow(s, m)
  /\ UNCHANGED <<topic, op, txn, table, applied, failedSends>>

\* 5<<(retry-1) seconds, in scan periods of 5 seconds.
Backoff(retry) == 2^(retry - 1)

\* Mutant: the retry limit is off by one.
MutAfterFailure(row, retry) ==
  IF retry + 2 >= MaxRetry
  THEN [row EXCEPT !.status = "failed"]
  ELSE [status |-> "pending", retry |-> retry + 1, wait |-> Backoff(retry + 1)]

\* MarkMessageFailed leaves the retry count alone; UpdateMessageStatus sets
\* status 0 whatever the row's status is now.
AfterFailure(row, retry) ==
  IF retry + 1 >= MaxRetry
  THEN [row EXCEPT !.status = "failed"]
  ELSE [status |-> "pending", retry |-> retry + 1, wait |-> Backoff(retry + 1)]

HandleSendFailure(s, m) ==
  /\ Current(s, m)
  /\ reply[s] = "error"
  /\ UpdateRow(m.id, AfterFailure(outbox[m.id], m.retry))
  /\ NextRow(s, m)
  /\ UNCHANGED <<topic, op, txn, table, applied, failedSends>>

\* One scan period passes.
Elapse ==
  /\ \E i \in MsgId : outbox[i].wait > 0
  /\ outbox' = [i \in MsgId |->
                  IF outbox[i].wait > 0
                  THEN [outbox[i] EXCEPT !.wait = @ - 1] ELSE outbox[i]]
  /\ UNCHANGED <<topic, faults, op, txn, table, applied, senderVars>>

\* The whole deployment stops: MySQL rolls back what is open and the senders
\* forget their batches.
Stop ==
  /\ op' = [i \in MsgId |-> IF op[i] \in InTransaction THEN "ended" ELSE op[i]]
  /\ txn' = [i \in MsgId |-> {}]
  /\ batch' = [s \in Sender |-> {}]
  /\ reply' = [s \in Sender |-> "none"]
  /\ UNCHANGED <<topic, table, applied, outbox, failedSends>>

Crash == Fault /\ Stop
-----------------------------------------------------------------------------
LMInit ==
  /\ topic = <<>>
  /\ faults = 0
  /\ op = [i \in MsgId |-> "idle"]
  /\ txn = [i \in MsgId |-> {}]
  /\ table \in [Student -> {"none", "live"}]
  /\ applied = {}
  /\ outbox = [i \in MsgId |-> Absent]
  /\ batch = [s \in Sender |-> {}]
  /\ reply = [s \in Sender |-> "none"]
  /\ failedSends = [i \in MsgId |-> 0]

Change(i) ==
  BeginChange(i) \/ WriteStudent(i) \/ SaveAuditMessage(i) \/ CommitChange(i)

Process(s, m) ==
  Send(s, m) \/ MarkMessageSent(s, m) \/ HandleSendFailure(s, m)

\* Every step but a crash, which the audit trail takes for both halves.
LMStep ==
  \/ \E i \in MsgId : Change(i)
  \/ \E s \in Student : ReviveStudent(s)
  \/ \E s \in Sender : Scan(s) \/ \E m \in batch[s] : Process(s, m)
  \/ Elapse

LMNext == LMStep \/ Crash

\* The goroutine and its ticker keep running, and time passes.  Requests are
\* not obliged to arrive.
SenderFairness ==
  /\ \A s \in Sender : WF_lmVars(Scan(s)) /\ WF_lmVars(\E m \in batch[s] : Process(s, m))
  /\ WF_lmVars(Elapse)

LMSpec == LMInit /\ [][LMNext]_lmVars /\ SenderFairness
-----------------------------------------------------------------------------
Row == [status : Statuses, retry : Nat, wait : Nat]
Snapshot == [id : MsgId, retry : Nat]

LMTypeOK ==
  /\ topic \in Seq(MsgId \cup {Malformed})
  /\ faults \in Nat
  /\ op \in [MsgId -> InTransaction \cup {"idle", "ended"}]
  /\ txn \in [MsgId -> SUBSET {"student", "message"}]
  /\ table \in [Student -> {"none", "live", "deleted"}]
  /\ applied \subseteq MsgId
  /\ outbox \in [MsgId -> Row]
  /\ batch \in [Sender -> SUBSET Snapshot]
  /\ reply \in [Sender -> {"none", "ok", "error"}]
  /\ failedSends \in [MsgId -> Nat]

\* Changes whose local_message row is committed.
Stored == {i \in MsgId : outbox[i].status # "absent"}

\* Another request's deletion of the same student is durable.
DeletedByOther(i) ==
  /\ i \notin Addition
  /\ \E d \in Deletion \ {i} : d \in applied /\ Target[d] = Target[i]

\* A student change is never durable without its audit message, whichever
\* statement or commit failed and wherever the service stopped: the reason
\* local_message rows are written inside the transaction.  And a message
\* without its change is that of an update or a deletion that another deletion
\* overtook between the look and the statement, which then affected no row.
ChangeHasMessage ==
  /\ applied \subseteq Stored
  /\ \A i \in Stored \ applied : DeletedByOther(i)

\* A row is marked sent only if its record is in the topic, so a crash between
\* SendMessage and MarkMessageSent can duplicate a message but not lose it.
SentWasPublished ==
  \A i \in MsgId : outbox[i].status = "sent" => i \in Records

\* The sender gives a message up only after MaxRetry failed sends, and never
\* stores a retry count larger than the number of sends that failed, even
\* when updates of the row are lost or several senders handle it.
GivenUpAfterMaxRetry ==
  \A i \in MsgId :
    /\ outbox[i].status = "failed" => failedSends[i] >= MaxRetry
    /\ outbox[i].retry <= failedSends[i]

\* With one running instance a row that is sent or failed is never touched
\* again: UpdateMessageStatus writes status 0 without looking at the row.
NeverReopened ==
  [][\A i \in MsgId : outbox[i].status \in {"sent", "failed"}
                         => outbox'[i] = outbox[i]]_lmVars

\* Every committed message is eventually sent or given up, although a row
\* that keeps failing shares the LIMIT of the scan with those behind it.
EveryMessageSettles ==
  \A i \in MsgId : (outbox[i].status = "pending")
                     ~> (outbox[i].status \in {"sent", "failed"})
=============================================================================
