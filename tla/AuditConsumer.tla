---------------------------- MODULE AuditConsumer ---------------------------
(***************************************************************************)
(* The audit consumer: AuditLogHandler.ConsumeClaim reads the partition of *)
(* "audit.log" record by record, claims the trace id in Redis, inserts the *)
(* audit_log row and marks the record.  The consumer group commits the     *)
(* highest marked offset from time to time and resumes there after a       *)
(* rebalance or a crash.                                                   *)
(***************************************************************************)
EXTENDS AuditTopic

VARIABLES
  committed,    \* offset the group has committed: records 1..committed are done
  marked,       \* offset marked in this session
  position,     \* records the session has gone through
  stage,        \* where the handler is with record position + 1
  consumedKey,  \* trace ids with a key audit:consumed:<traceID> in Redis
  auditLog,     \* number of audit_log rows per trace id
  interrupted   \* history: trace ids whose handling failed or was cut short

consumerVars == <<committed, marked, position, stage, consumedKey, auditLog,
                  interrupted>>

Delivered == position < Len(topic)
Record == topic[position + 1]
-----------------------------------------------------------------------------
\* sess.MarkMessage, and the loop takes the next record.
MarkMessage ==
  /\ marked' = position + 1
  /\ position' = position + 1
  /\ stage' = "idle"

\* ConsumeAuditLog returned an error: the record is left unmarked, but a later
\* MarkMessage moves the marked offset past it.
Abandon ==
  /\ position' = position + 1
  /\ stage' = "idle"
  /\ interrupted' = interrupted \cup {Record}
  /\ UNCHANGED marked

\* Mutant: a record is marked before it is handled.
MutReceiveMarksFirst ==
  /\ stage = "idle"
  /\ Delivered
  /\ marked' = position + 1
  /\ IF Record = Malformed
     THEN position' = position + 1 /\ UNCHANGED stage
     ELSE stage' = "received" /\ UNCHANGED position
  /\ UNCHANGED <<topic, faults, committed, consumedKey, auditLog, interrupted>>

\* A record that does not parse is marked and skipped.
Receive ==
  /\ stage = "idle"
  /\ Delivered
  /\ IF Record = Malformed
     THEN MarkMessage
     ELSE stage' = "received" /\ UNCHANGED <<marked, position>>
  /\ UNCHANGED <<topic, faults, committed, consumedKey, auditLog, interrupted>>

\* Mutant: the reply of SetNX is taken for "the key exists".
MutClaimTraceID ==
  /\ stage = "received"
  /\ stage' = IF Record \in consumedKey THEN "claimed" ELSE "duplicate"
  /\ consumedKey' = consumedKey \cup {Record}
  /\ UNCHANGED <<topic, faults, committed, marked, position, auditLog, interrupted>>

\* SetNX of the idempotency key: taken, found, or failed with or without effect.
ClaimTraceID ==
  /\ stage = "received"
  /\ \/ /\ Record \notin consumedKey
        /\ consumedKey' = consumedKey \cup {Record}
        /\ stage' = "claimed"
        /\ UNCHANGED <<faults, marked, position, interrupted>>
     \/ /\ Record \in consumedKey
        /\ stage' = "duplicate"
        /\ UNCHANGED <<faults, marked, position, interrupted, consumedKey>>
     \/ /\ Fault
        /\ consumedKey' \in {consumedKey, consumedKey \cup {Record}}
        /\ Abandon
  /\ UNCHANGED <<topic, committed, auditLog>>

AddRow(i) == auditLog' = [auditLog EXCEPT ![i] = @ + 1]

\* Mutant: audit_log has no unique index on trace_id.
MutInsertNoIndex(i) == AddRow(i)

\* INSERT under the unique index on trace_id: a second row is refused.
Insert(i) == IF auditLog[i] = 0 THEN AddRow(i) ELSE UNCHANGED auditLog

\* A duplicate-key error counts as success; any other error, after which the
\* row may be there or not, is returned.
CreateAuditLog ==
  /\ stage = "claimed"
  /\ \/ /\ Insert(Record)
        /\ stage' = "handled"
        /\ UNCHANGED <<faults, marked, position, interrupted>>
     \/ /\ Fault
        /\ Insert(Record) \/ UNCHANGED auditLog
        /\ Abandon
  /\ UNCHANGED <<topic, committed, consumedKey>>

\* The handler returns nil; ConsumeClaim marks the record.
Finish ==
  /\ stage \in {"duplicate", "handled"}
  /\ MarkMessage
  /\ UNCHANGED <<topic, faults, committed, consumedKey, auditLog, interrupted>>

\* The session commits marked offsets in the background.
AutoCommit ==
  /\ committed < marked
  /\ committed' = marked
  /\ UNCHANGED <<topic, faults, marked, position, stage, consumedKey, auditLog,
                 interrupted>>

\* A rebalance or a lost broker ends the session between two records.  The
\* last commit may fail; the next session starts at the committed offset.
Rebalance ==
  /\ stage = "idle"
  /\ Fault
  /\ committed' \in {committed, marked}
  /\ marked' = committed'
  /\ position' = committed'
  /\ UNCHANGED <<topic, stage, consumedKey, auditLog, interrupted>>

\* The key expires after 24 hours, or Redis restarts without it.
ExpireKey ==
  /\ \E i \in consumedKey : consumedKey' = consumedKey \ {i}
  /\ UNCHANGED <<topic, faults, committed, marked, position, stage, auditLog,
                 interrupted>>

\* The process dies.  A record claimed but not inserted stays claimed.
StopConsumer ==
  /\ marked' = committed
  /\ position' = committed
  /\ stage' = "idle"
  /\ interrupted' = IF stage = "claimed" THEN interrupted \cup {Record}
                    ELSE interrupted
  /\ UNCHANGED <<committed, consumedKey, auditLog>>
-----------------------------------------------------------------------------
ACInit ==
  /\ committed = 0
  /\ marked = 0
  /\ position = 0
  /\ stage = "idle"
  /\ consumedKey = {}
  /\ auditLog = [i \in MsgId |-> 0]
  /\ interrupted = {}

Consume == Receive \/ ClaimTraceID \/ CreateAuditLog \/ Finish

ACStep == Consume \/ AutoCommit \/ Rebalance \/ ExpireKey

ACTypeOK ==
  /\ committed \in Nat
  /\ marked \in Nat
  /\ position \in Nat
  /\ stage \in {"idle", "received", "claimed", "duplicate", "handled"}
  /\ consumedKey \subseteq MsgId
  /\ auditLog \in [MsgId -> Nat]
  /\ interrupted \subseteq MsgId
=============================================================================
