----------------------------- MODULE AuditTrail -----------------------------
(***************************************************************************)
(* The audit trail end to end: the outbox and the audit consumer run in    *)
(* the same process and meet in the topic, MySQL and Redis, which outlive  *)
(* it.                                                                     *)
(***************************************************************************)
EXTENDS LocalMessage, AuditConsumer

vars == <<lmVars, consumerVars>>

\* Somebody else writes a record that is not an audit message.
ForeignRecord ==
  /\ Malformed \notin Records
  /\ Fault
  /\ topic' = Append(topic, Malformed)
  /\ UNCHANGED <<outboxVars, consumerVars>>

\* The process is killed: both halves stop at once.
ProcessCrash == Fault /\ Stop /\ StopConsumer

Init == LMInit /\ ACInit

Next ==
  \/ LMStep /\ UNCHANGED consumerVars
  \/ ACStep /\ UNCHANGED outboxVars
  \/ ForeignRecord
  \/ ProcessCrash

\* The sender's goroutine and the consumer's goroutine keep running.
Fairness ==
  /\ \A s \in Sender :
       /\ WF_vars(Scan(s) /\ UNCHANGED consumerVars)
       /\ WF_vars((\E m \in batch[s] : Process(s, m)) /\ UNCHANGED consumerVars)
  /\ WF_vars(Elapse /\ UNCHANGED consumerVars)
  /\ WF_vars(Consume /\ UNCHANGED outboxVars)

Spec == Init /\ [][Next]_vars /\ Fairness
-----------------------------------------------------------------------------
TypeOK == LMTypeOK /\ ACTypeOK

\* An audit row tells of a durable change, or of an update or a deletion of a
\* student that another durable deletion had removed before it; and there is
\* never more than one, although messages are sent again, delivered again, and
\* the Redis key that detects duplicates can be missing.
AuditSound ==
  \A i \in MsgId :
    auditLog[i] > 0 => i \in Stored /\ (i \in applied \/ DeletedByOther(i))
AuditAtMostOnce == \A i \in MsgId : auditLog[i] <= 1

\* The audit trail implements the abstract ledger: rows only for committed
\* transactions, one each, and none for a change that was not made unless a
\* deletion overtook it.
Ledger == INSTANCE AuditLedger
            WITH changes <- applied, void <- Stored \ applied, rows <- auditLog
LedgerSpec == Ledger!Spec

\* Once the group has committed past a record its audit row exists, unless
\* the handling of that trace id was interrupted: an error of Redis or MySQL,
\* or a crash between the claim and the insert.  Nothing else loses a row.
OnlyInterruptedLost ==
  \A k \in 1..committed :
    topic[k] \in MsgId => auditLog[topic[k]] > 0 \/ topic[k] \in interrupted

\* The handler logs a "duplicate message" and skips it; that message was
\* audited before.
DuplicateWasAudited == stage = "duplicate" => auditLog[Record] > 0

\* When nothing fails but Kafka sends, every committed message becomes an audit
\* row unless it ran out of retries.
EveryChangeAudited ==
  \A i \in MsgId :
    (i \in Stored)
      ~> (auditLog[i] = 1 \/ outbox[i].status = "failed" \/ faults > 0)
=============================================================================
