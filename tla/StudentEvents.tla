--------------------------- MODULE StudentEvents ----------------------------
(***************************************************************************)
(* Student events end to end: sent by the pool's workers with a timeout,   *)
(* consumed by the student event consumer of the same process.  Whether    *)
(* the breaker admits a call is left open here; StudentPublish says when.  *)
(***************************************************************************)
EXTENDS StudentEventConsumer

VARIABLES
  call,      \* progress of SendMessageWithTimeout for an event
  producer   \* the goroutine that calls SendMessage, and its result

callVars == <<call, producer>>
vars == <<topic, faults, callVars, consumerVars>>
-----------------------------------------------------------------------------
\* Execute refuses the call, or a goroutine begins to send the event.
StartCall(e) ==
  /\ call[e] = "idle"
  /\ \/ /\ call' = [call EXCEPT ![e] = "waiting"]
        /\ producer' = [producer EXCEPT ![e] = "sending"]
     \/ call' = [call EXCEPT ![e] = "refused"] /\ UNCHANGED producer
  /\ UNCHANGED <<topic, faults, consumerVars>>

\* SendMessage returns; its result fits the channel, whoever still waits.  The
\* producer tries again when an answer is lost, so the record can be doubled,
\* and an error does not say that there is none.
Produce(e) ==
  /\ producer[e] = "sending"
  /\ \E copies \in {<<>>, <<e>>, <<e, e>>} :
       /\ topic' = topic \o copies
       /\ \/ copies # <<>> /\ producer' = [producer EXCEPT ![e] = "ok"]
          \/ producer' = [producer EXCEPT ![e] = "error"]
  /\ UNCHANGED <<faults, call, consumerVars>>

\* Mutant: a call that runs out of time returns nil.
MutMayReport(e, ok) == ok => producer[e] # "error"

MayReport(e, ok) == ok => producer[e] = "ok"

\* The result arrives, or two seconds pass first.
EndCall(e) ==
  /\ call[e] = "waiting"
  /\ \E ok \in BOOLEAN :
       /\ MayReport(e, ok)
       /\ call' = [call EXCEPT ![e] = IF ok THEN "sent" ELSE "failed"]
  /\ UNCHANGED <<topic, faults, producer, consumerVars>>

SendEvent(e) == StartCall(e) \/ Produce(e) \/ EndCall(e)
-----------------------------------------------------------------------------
\* Somebody else writes a record that is no event.
ForeignRecord ==
  /\ Malformed \notin Published
  /\ Fault
  /\ topic' = Append(topic, Malformed)
  /\ UNCHANGED <<callVars, consumerVars>>

\* The process is killed: calls end without a result, and sends that were
\* under way are lost.
ProcessCrash ==
  /\ Fault
  /\ StopConsumer
  /\ call' = [e \in Event |-> IF call[e] = "waiting" THEN "failed" ELSE call[e]]
  /\ producer' = [e \in Event |-> IF producer[e] = "sending" THEN "error" ELSE producer[e]]
  /\ UNCHANGED topic
-----------------------------------------------------------------------------
Init ==
  /\ topic = <<>>
  /\ faults = 0
  /\ call = [e \in Event |-> "idle"]
  /\ producer = [e \in Event |-> "none"]
  /\ SCInit

Next ==
  \/ \E e \in Event : SendEvent(e)
  \/ SCStep /\ UNCHANGED callVars
  \/ ForeignRecord
  \/ ProcessCrash

\* The consumer's goroutine keeps running.
Fairness == WF_vars(Consume /\ UNCHANGED callVars)

Spec == Init /\ [][Next]_vars /\ Fairness
-----------------------------------------------------------------------------
TypeOK ==
  /\ topic \in Seq(Event \cup {Malformed})
  /\ faults \in Nat
  /\ call \in [Event -> {"idle", "waiting", "sent", "failed", "refused"}]
  /\ producer \in [Event -> {"none", "sending", "ok", "error"}]
  /\ SCTypeOK

\* An event whose record the group has committed has been processed: since
\* the key is set only afterwards, no error or crash loses an event.
CommittedIsProcessed ==
  \A k \in 1..committed : topic[k] \in Event => processed[topic[k]] > 0

\* An event is processed again only if its key was lost, was not set, or
\* could not be read.
RepeatNeedsExcuse == \A e \in Event : processed[e] > 1 => e \in excused

\* An event that was reported as sent is processed, whatever happens to the
\* consumer in between; one that was reported as failed may be, too.
SentIsProcessed == \A e \in Event : (call[e] = "sent") ~> (processed[e] > 0)
=============================================================================
