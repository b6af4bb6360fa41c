------------------------ MODULE StudentEventsProofs -------------------------
(***************************************************************************)
(* Proofs about the student events: the consumer loses no event that the   *)
(* group has committed, and repeats none without an excuse, for any number *)
(* of events, crashes, rebalances and lost keys.                           *)
(***************************************************************************)
EXTENDS StudentEvents, TLAPS

\* The session has gone through the records it has marked, no further.
Offsets == committed <= marked /\ marked = position /\ position <= Len(topic)

\* The handler is busy with a record that is there and parses.
AtRecord == stage # "idle" => position < Len(topic) /\ Record \in Event

\* Records that were marked and events that have a key have been processed.
MarkedIsProcessed == \A k \in 1..marked : topic[k] \in Event => processed[topic[k]] > 0
KeyMeansProcessed == \A e \in doneKey : processed[e] > 0
HandledIsProcessed == stage \in {"processed", "skip"} => processed[Record] > 0

\* What was processed has a key, or an excuse, or is about to get a key.
KeyOrExcuse ==
  \A e \in Event : processed[e] > 0 =>
    e \in doneKey \cup excused \/ (stage = "processed" /\ Record = e)

\* What is about to be processed is new or excused.
NewOrExcused == stage = "new" => processed[Record] = 0 \/ Record \in excused

EventInv ==
  /\ TypeOK
  /\ Offsets
  /\ AtRecord
  /\ MarkedIsProcessed
  /\ KeyMeansProcessed
  /\ HandledIsProcessed
  /\ KeyOrExcuse
  /\ NewOrExcused
  /\ RepeatNeedsExcuse
-----------------------------------------------------------------------------
\* The start.
LEMMA EventInit == ASSUME Init PROVE EventInv
  BY DEF Init, SCInit, EventInv, TypeOK, SCTypeOK, Offsets, AtRecord, MarkedIsProcessed,
     KeyMeansProcessed, HandledIsProcessed, KeyOrExcuse, NewOrExcused, RepeatNeedsExcuse

\* A record is a record; a fault is counted.
LEMMA EventTypes ==
  ASSUME EventInv
  PROVE  /\ topic \in Seq(Event \cup {Malformed}) /\ Len(topic) \in Nat
         /\ \A k \in 1..Len(topic) : topic[k] \in Event \cup {Malformed}
         /\ faults \in Nat /\ committed \in Nat /\ marked \in Nat /\ position \in Nat
         /\ stage \in {"idle", "received", "new", "processed", "skip"}
         /\ doneKey \subseteq Event /\ excused \subseteq Event
         /\ processed \in [Event -> Nat]
         /\ Malformed \notin Event
         /\ (Fault \/ UNCHANGED faults) => faults' \in Nat
  BY MalformedEventAssumption DEF EventInv, TypeOK, SCTypeOK, Fault

\* A step that only writes records at the end of the topic.
LEMMA TopicGrows ==
  ASSUME EventInv, UNCHANGED consumerVars, faults' \in Nat,
         NEW new \in Seq(Event \cup {Malformed}), topic' = topic \o new,
         call' \in [Event -> {"idle", "waiting", "sent", "failed", "refused"}],
         producer' \in [Event -> {"none", "sending", "ok", "error"}]
  PROVE  EventInv'
<1> USE EventTypes
<1>1. /\ topic' \in Seq(Event \cup {Malformed}) /\ Len(topic') >= Len(topic)
      /\ \A k \in 1..Len(topic) : topic'[k] = topic[k]
  OBVIOUS
<1>2. UNCHANGED <<committed, marked, position, stage, doneKey, processed, excused>>
  BY DEF consumerVars
<1>3. stage # "idle" => Record' = Record
  BY <1>1, <1>2 DEF EventInv, AtRecord, Record
<1>4. TypeOK' /\ Offsets'
  BY <1>1, <1>2 DEF EventInv, TypeOK, SCTypeOK, Offsets
<1>5. AtRecord' /\ HandledIsProcessed' /\ NewOrExcused'
  BY <1>1, <1>2, <1>3 DEF EventInv, AtRecord, HandledIsProcessed, NewOrExcused
<1>6. MarkedIsProcessed'
  BY <1>1, <1>2 DEF EventInv, Offsets, MarkedIsProcessed
<1>7. KeyMeansProcessed' /\ KeyOrExcuse' /\ RepeatNeedsExcuse'
  BY <1>2, <1>3 DEF EventInv, KeyMeansProcessed, KeyOrExcuse, RepeatNeedsExcuse
<1> QED
  BY <1>4, <1>5, <1>6, <1>7 DEF EventInv

\* A step of the consumer that ends with the record at hand marked.
LEMMA MarkInv ==
  ASSUME EventInv, MarkMessage, stage \in {"idle", "skip"}, Delivered,
         stage = "idle" => Record \notin Event,
         UNCHANGED <<topic, faults, callVars, committed, doneKey, processed, excused>>
  PROVE  EventInv'
<1> USE EventTypes
<1>1. /\ marked' = position + 1 /\ position' = position + 1 /\ stage' = "idle"
      /\ position < Len(topic)
      /\ UNCHANGED <<call, producer>>
  BY DEF MarkMessage, Delivered, callVars
<1>2. TypeOK' /\ Offsets' /\ AtRecord'
  BY <1>1 DEF EventInv, TypeOK, SCTypeOK, Offsets, AtRecord
<1>3. MarkedIsProcessed'
  <2>1. \A k \in 1..marked' : k \in 1..marked \/ k = position + 1
    BY <1>1 DEF EventInv, Offsets
  <2>2. topic[position + 1] \in Event => processed[topic[position + 1]] > 0
    BY DEF EventInv, HandledIsProcessed, Record
  <2> QED
    BY <1>1, <2>1, <2>2 DEF EventInv, MarkedIsProcessed
<1>4. KeyMeansProcessed' /\ HandledIsProcessed' /\ NewOrExcused' /\ RepeatNeedsExcuse'
  BY <1>1 DEF EventInv, KeyMeansProcessed, HandledIsProcessed, NewOrExcused, RepeatNeedsExcuse
<1>5. KeyOrExcuse'
  BY <1>1 DEF EventInv, KeyOrExcuse
<1> QED
  BY <1>2, <1>3, <1>4, <1>5 DEF EventInv

\* The handler goes on with the record at hand.
LEMMA HandleInv ==
  ASSUME EventInv, UNCHANGED callVars,
         Receive \/ CheckKey \/ ProcessEvent \/ SetKey \/ FinishRecord
  PROVE  EventInv'
<1> USE EventTypes
<1>1. CASE Receive /\ Record = Malformed
  BY <1>1, MarkInv DEF Receive, Parses, Delivered
<1>2. CASE FinishRecord
  BY <1>2, MarkInv DEF FinishRecord, EventInv, AtRecord, Delivered
<1>3. CASE Receive /\ Record # Malformed
  <2>1. /\ stage = "idle" /\ stage' = "received" /\ position < Len(topic) /\ Record \in Event
        /\ UNCHANGED <<topic, faults, call, producer, committed, marked, position, doneKey,
                       processed, excused>>
        /\ Record' = Record
    BY <1>3 DEF Receive, Parses, Delivered, Record, callVars
  <2> QED
    BY <2>1 DEF EventInv, TypeOK, SCTypeOK, Offsets, AtRecord, MarkedIsProcessed,
       KeyMeansProcessed, HandledIsProcessed, KeyOrExcuse, NewOrExcused, RepeatNeedsExcuse
<1>4. CASE CheckKey
  <2>1. /\ stage = "received"
        /\ UNCHANGED <<topic, call, producer, committed, marked, position, doneKey, processed>>
        /\ Record' = Record /\ Record \in Event /\ position < Len(topic) /\ faults' \in Nat
        /\ \/ stage' = "skip" /\ Record \in doneKey /\ excused' = excused
           \/ stage' = "new" /\ Record \notin doneKey /\ excused' = excused
           \/ stage' = "new" /\ excused' = excused \cup {Record}
    BY <1>4 DEF CheckKey, Seen, KeyAfterCheck, Record, callVars, EventInv, AtRecord
  <2>2. TypeOK' /\ Offsets' /\ AtRecord' /\ MarkedIsProcessed' /\ KeyMeansProcessed'
    BY <2>1 DEF EventInv, TypeOK, SCTypeOK, Offsets, AtRecord, MarkedIsProcessed,
       KeyMeansProcessed
  <2>3. HandledIsProcessed' /\ NewOrExcused'
    BY <2>1 DEF EventInv, KeyMeansProcessed, HandledIsProcessed, KeyOrExcuse, NewOrExcused
  <2>4. KeyOrExcuse' /\ RepeatNeedsExcuse'
    BY <2>1 DEF EventInv, KeyOrExcuse, RepeatNeedsExcuse
  <2> QED
    BY <2>2, <2>3, <2>4 DEF EventInv
<1>5. CASE ProcessEvent
  <2>1. /\ stage = "new" /\ stage' = "processed"
        /\ processed' = [processed EXCEPT ![Record] = @ + 1]
        /\ UNCHANGED <<topic, faults, call, producer, committed, marked, position, doneKey,
                       excused>>
        /\ Record' = Record /\ Record \in Event /\ position < Len(topic)
    BY <1>5 DEF ProcessEvent, Record, callVars, EventInv, AtRecord
  <2>2. /\ processed' \in [Event -> Nat]
        /\ processed'[Record] = processed[Record] + 1
        /\ \A e \in Event : e # Record => processed'[e] = processed[e]
        /\ \A e \in Event : processed[e] > 0 => processed'[e] > 0
    BY <2>1
  <2>3. TypeOK' /\ Offsets' /\ AtRecord' /\ HandledIsProcessed' /\ NewOrExcused'
    BY <2>1, <2>2 DEF EventInv, TypeOK, SCTypeOK, Offsets, AtRecord, HandledIsProcessed,
       NewOrExcused
  <2>4. MarkedIsProcessed' /\ KeyMeansProcessed'
    BY <2>1, <2>2 DEF EventInv, MarkedIsProcessed, KeyMeansProcessed
  <2>5. KeyOrExcuse' /\ RepeatNeedsExcuse'
    BY <2>1, <2>2 DEF EventInv, KeyOrExcuse, RepeatNeedsExcuse, NewOrExcused
  <2> QED
    BY <2>3, <2>4, <2>5 DEF EventInv
<1>6. CASE SetKey
  <2>1. /\ stage = "processed" /\ stage' = "skip"
        /\ UNCHANGED <<topic, call, producer, committed, marked, position, processed>>
        /\ Record' = Record /\ Record \in Event /\ position < Len(topic) /\ faults' \in Nat
        /\ \/ doneKey' = doneKey \cup {Record} /\ excused' = excused
           \/ excused' = excused \cup {Record} /\ doneKey' = doneKey
    BY <1>6 DEF SetKey, Record, callVars, EventInv, AtRecord
  <2>2. TypeOK' /\ Offsets' /\ AtRecord' /\ MarkedIsProcessed'
    BY <2>1 DEF EventInv, TypeOK, SCTypeOK, Offsets, AtRecord, MarkedIsProcessed
  <2>3. KeyMeansProcessed' /\ HandledIsProcessed' /\ NewOrExcused'
    BY <2>1 DEF EventInv, KeyMeansProcessed, HandledIsProcessed, NewOrExcused
  <2>4. KeyOrExcuse' /\ RepeatNeedsExcuse'
    BY <2>1 DEF EventInv, KeyOrExcuse, RepeatNeedsExcuse
  <2> QED
    BY <2>2, <2>3, <2>4 DEF EventInv
<1> QED
  BY <1>1, <1>2, <1>3, <1>4, <1>5, <1>6

\* The session ends: the group goes on from an offset it had reached.
LEMMA RestartInv ==
  ASSUME EventInv, stage' = "idle", faults' \in Nat,
         committed' \in {committed, marked}, marked' = committed', position' = committed',
         UNCHANGED <<topic, doneKey, processed>>,
         call' \in [Event -> {"idle", "waiting", "sent", "failed", "refused"}],
         producer' \in [Event -> {"none", "sending", "ok", "error"}],
         excused' = IF stage = "processed" THEN excused \cup {Record} ELSE excused
  PROVE  EventInv'
<1> USE EventTypes
<1>1. TypeOK' /\ Offsets' /\ AtRecord'
  BY DEF EventInv, TypeOK, SCTypeOK, Offsets, AtRecord
<1>2. MarkedIsProcessed' /\ KeyMeansProcessed' /\ HandledIsProcessed' /\ NewOrExcused'
  BY DEF EventInv, Offsets, MarkedIsProcessed, KeyMeansProcessed, HandledIsProcessed,
     NewOrExcused
<1>3. KeyOrExcuse' /\ RepeatNeedsExcuse'
  BY DEF EventInv, KeyOrExcuse, RepeatNeedsExcuse
<1> QED
  BY <1>1, <1>2, <1>3 DEF EventInv

\* The sending side: a call starts or ends, a record is written.
LEMMA SendInv ==
  ASSUME EventInv, ForeignRecord \/ \E e \in Event : SendEvent(e)
  PROVE  EventInv'
<1> USE EventTypes
<1>0. /\ call \in [Event -> {"idle", "waiting", "sent", "failed", "refused"}]
      /\ producer \in [Event -> {"none", "sending", "ok", "error"}]
  BY DEF EventInv, TypeOK
<1>1. CASE ForeignRecord
  <2>1. topic' = topic \o <<Malformed>>
    BY <1>1 DEF ForeignRecord
  <2>2. <<Malformed>> \in Seq(Event \cup {Malformed})
    OBVIOUS
  <2>3. UNCHANGED <<call, producer>> /\ UNCHANGED consumerVars /\ faults' \in Nat
    BY <1>1 DEF ForeignRecord, callVars
  <2> QED
    BY <1>0, <2>1, <2>2, <2>3, TopicGrows
<1>2. ASSUME NEW e \in Event, StartCall(e) \/ EndCall(e)
      PROVE  EventInv'
  <2>1. topic' = topic \o <<>> /\ faults' = faults /\ UNCHANGED consumerVars
    BY <1>2 DEF StartCall, EndCall
  <2>2. /\ call' \in [Event -> {"idle", "waiting", "sent", "failed", "refused"}]
        /\ producer' \in [Event -> {"none", "sending", "ok", "error"}]
    BY <1>0, <1>2 DEF StartCall, EndCall
  <2>3. <<>> \in Seq(Event \cup {Malformed})
    OBVIOUS
  <2> QED
    BY <2>1, <2>2, <2>3, TopicGrows
<1>3. ASSUME NEW e \in Event, Produce(e)
      PROVE  EventInv'
  <2>1. PICK copies \in {<<>>, <<e>>, <<e, e>>} : topic' = topic \o copies
    BY <1>3 DEF Produce
  <2>2. copies \in Seq(Event \cup {Malformed})
    <3>1. <<>> \in Seq(Event \cup {Malformed})
      OBVIOUS
    <3>2. <<e>> \in Seq(Event \cup {Malformed})
      OBVIOUS
    <3>3. <<e, e>> \in Seq(Event \cup {Malformed})
      OBVIOUS
    <3> QED
      BY <3>1, <3>2, <3>3, Zenon
  <2>3. /\ UNCHANGED <<faults, call>> /\ UNCHANGED consumerVars
        /\ producer' \in [Event -> {"none", "sending", "ok", "error"}]
    BY <1>0, <1>3 DEF Produce
  <2> QED
    BY <1>0, <2>1, <2>2, <2>3, TopicGrows
<1> QED
  BY <1>1, <1>2, <1>3 DEF SendEvent

\* Every step keeps the invariant.
LEMMA EventStep == ASSUME EventInv, [Next]_vars PROVE EventInv'
<1> USE EventTypes
<1>1. CASE ForeignRecord \/ \E e \in Event : SendEvent(e)
  BY <1>1, SendInv
<1>2. CASE Consume /\ UNCHANGED callVars
  BY <1>2, HandleInv DEF Consume
<1>3. CASE AutoCommit /\ UNCHANGED callVars
  <2>1. committed' = marked /\ Record' = Record
        /\ UNCHANGED <<topic, faults, call, producer, marked, position, stage, doneKey,
                       processed, excused>>
    BY <1>3 DEF AutoCommit, callVars, Record
  <2> QED
    BY <2>1 DEF EventInv, TypeOK, SCTypeOK, Offsets, AtRecord, MarkedIsProcessed,
       KeyMeansProcessed, HandledIsProcessed, KeyOrExcuse, NewOrExcused, RepeatNeedsExcuse
<1>4. CASE Rebalance /\ UNCHANGED callVars
  BY <1>4, RestartInv DEF Rebalance, callVars, EventInv, TypeOK
<1>5. CASE ExpireKey /\ UNCHANGED callVars
  <2>1. PICK e \in doneKey : doneKey' = doneKey \ {e} /\ excused' = excused \cup {e}
    BY <1>5 DEF ExpireKey
  <2>2. UNCHANGED <<topic, faults, call, producer, committed, marked, position, stage,
                    processed>> /\ Record' = Record
    BY <1>5 DEF ExpireKey, callVars, Record
  <2> QED
    BY <2>1, <2>2 DEF EventInv, TypeOK, SCTypeOK, Offsets, AtRecord, MarkedIsProcessed,
       KeyMeansProcessed, HandledIsProcessed, KeyOrExcuse, NewOrExcused, RepeatNeedsExcuse
<1>6. CASE ProcessCrash
  <2>1. /\ call' \in [Event -> {"idle", "waiting", "sent", "failed", "refused"}]
        /\ producer' \in [Event -> {"none", "sending", "ok", "error"}]
    BY <1>6 DEF ProcessCrash, EventInv, TypeOK
  <2> QED
    BY <1>6, <2>1, RestartInv DEF ProcessCrash, StopConsumer
<1>7. CASE UNCHANGED vars
  <2>1. Record' = Record /\ UNCHANGED <<topic, faults, call, producer, committed, marked,
                                        position, stage, doneKey, processed, excused>>
    BY <1>7 DEF vars, callVars, consumerVars, Record
  <2> QED
    BY <2>1 DEF EventInv, TypeOK, SCTypeOK, Offsets, AtRecord, MarkedIsProcessed,
       KeyMeansProcessed, HandledIsProcessed, KeyOrExcuse, NewOrExcused, RepeatNeedsExcuse
<1> QED
  BY <1>1, <1>2, <1>3, <1>4, <1>5, <1>6, <1>7 DEF Next, SCStep

\* The invariant holds for ever.
LEMMA EventInvariant == Spec => []EventInv
<1>1. Init => EventInv
  BY EventInit
<1>2. EventInv /\ [Next]_vars => EventInv'
  BY EventStep
<1> QED
  BY <1>1, <1>2, PTL DEF Spec
-----------------------------------------------------------------------------
\* The topic, the calls, the offsets and the keys keep their types.
THEOREM EventsTyped == Spec => []TypeOK
<1>1. EventInv => TypeOK
  BY DEF EventInv
<1> QED
  BY <1>1, EventInvariant, PTL

\* An event whose record the group has committed has been processed, for any
\* number of events, crashes, rebalances and failed calls of Redis: marking
\* comes after processing and the key after both.
THEOREM CommittedProcessed == Spec => []CommittedIsProcessed
<1>1. EventInv => CommittedIsProcessed
  BY EventTypes DEF EventInv, Offsets, MarkedIsProcessed, CommittedIsProcessed
<1> QED
  BY <1>1, EventInvariant, PTL

\* An event is processed twice only if its key was lost, was not set or
\* could not be read.
THEOREM RepeatExcused == Spec => []RepeatNeedsExcuse
<1>1. EventInv => RepeatNeedsExcuse
  BY DEF EventInv
<1> QED
  BY <1>1, EventInvariant, PTL
=============================================================================
