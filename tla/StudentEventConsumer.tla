------------------------ MODULE StudentEventConsumer ------------------------
(***************************************************************************)
(* The student event consumer: StudentEventHandler.ConsumeClaim looks for  *)
(* an idempotency key, processes the event, sets the key and marks the     *)
(* record: unlike the audit consumer, which sets the key first.            *)
(***************************************************************************)
EXTENDS EventTopic

VARIABLES
  committed,  \* offset the group has committed
  marked,     \* offset marked in this session
  position,   \* records the session has gone through
  stage,      \* where the handler is with record position + 1
  doneKey,    \* events with a key kafka:idempotent:<eventID> in Redis
  processed,  \* how often an event was processed
  excused     \* history: events whose key got lost or came too late

consumerVars == <<committed, marked, position, stage, doneKey, processed, excused>>

Delivered == position < Len(topic)
Record == topic[position + 1]

\* session.MarkMessage, and the loop takes the next record.
MarkMessage ==
  /\ marked' = position + 1
  /\ position' = position + 1
  /\ stage' = "idle"

\* Mutant: a record that does not parse is taken on like any other.
MutParses == TRUE

Parses == Record # Malformed

\* A record that does not parse is marked and skipped.
Receive ==
  /\ stage = "idle"
  /\ Delivered
  /\ IF Parses
     THEN stage' = "received" /\ UNCHANGED <<marked, position>>
     ELSE MarkMessage
  /\ UNCHANGED <<topic, faults, committed, doneKey, processed, excused>>

\* Mutant: a key that is there does not stop the event.
MutSeen == FALSE

Seen == Record \in doneKey

\* Mutant: the key is set here, as the audit consumer does.
MutKeyAfterCheck == doneKey' = doneKey \cup {Record}

KeyAfterCheck == UNCHANGED doneKey

\* Exists: skipped if the key is there; an error of Redis counts as "no".
CheckKey ==
  /\ stage = "received"
  /\ \/ Seen /\ stage' = "skip" /\ UNCHANGED <<faults, excused>>
     \/ ~Seen /\ stage' = "new" /\ UNCHANGED <<faults, excused>>
     \/ Fault /\ stage' = "new" /\ excused' = excused \cup {Record}
  /\ KeyAfterCheck
  /\ UNCHANGED <<topic, committed, marked, position, processed>>

\* processEventWithRetry: processEvent logs the event and returns nil, so the
\* first round succeeds, and the dead letter topic is never used.
ProcessEvent ==
  /\ stage = "new"
  /\ processed' = [processed EXCEPT ![Record] = @ + 1]
  /\ stage' = "processed"
  /\ UNCHANGED <<topic, faults, committed, marked, position, doneKey, excused>>

\* Set of the key; nobody looks at its error.
SetKey ==
  /\ stage = "processed"
  /\ \/ doneKey' = doneKey \cup {Record} /\ UNCHANGED <<faults, excused>>
     \/ Fault /\ excused' = excused \cup {Record} /\ UNCHANGED doneKey
  /\ stage' = "skip"
  /\ UNCHANGED <<topic, committed, marked, position, processed>>

FinishRecord ==
  /\ stage = "skip"
  /\ MarkMessage
  /\ UNCHANGED <<topic, faults, committed, doneKey, processed, excused>>

AutoCommit ==
  /\ committed < marked
  /\ committed' = marked
  /\ UNCHANGED <<topic, faults, marked, position, stage, doneKey, processed, excused>>

\* A rebalance ends the session between two records; the last commit may fail.
Rebalance ==
  /\ stage = "idle"
  /\ Fault
  /\ committed' \in {committed, marked}
  /\ marked' = committed'
  /\ position' = committed'
  /\ UNCHANGED <<topic, stage, doneKey, processed, excused>>

\* The key expires after 24 hours, or Redis restarts without it.
ExpireKey ==
  /\ \E e \in doneKey : doneKey' = doneKey \ {e} /\ excused' = excused \cup {e}
  /\ UNCHANGED <<topic, faults, committed, marked, position, stage, processed>>

\* The process dies; an event that is processed and has no key is on record
\* as excused.
StopConsumer ==
  /\ marked' = committed
  /\ position' = committed
  /\ stage' = "idle"
  /\ excused' = IF stage = "processed" THEN excused \cup {Record} ELSE excused
  /\ UNCHANGED <<committed, doneKey, processed>>
-----------------------------------------------------------------------------
SCInit ==
  /\ committed = 0
  /\ marked = 0
  /\ position = 0
  /\ stage = "idle"
  /\ doneKey = {}
  /\ processed = [e \in Event |-> 0]
  /\ excused = {}

Consume == Receive \/ CheckKey \/ ProcessEvent \/ SetKey \/ FinishRecord

SCStep == Consume \/ AutoCommit \/ Rebalance \/ ExpireKey

SCTypeOK ==
  /\ committed \in Nat
  /\ marked \in Nat
  /\ position \in Nat
  /\ stage \in {"idle", "received", "new", "processed", "skip"}
  /\ doneKey \subseteq Event
  /\ processed \in [Event -> Nat]
  /\ excused \subseteq Event
=============================================================================
