--------------------------- MODULE StudentPublish ---------------------------
(***************************************************************************)
(* pubilshStudentEvent from the request handler to the broker: handlers    *)
(* hand one task each to the goroutine pool, its workers call              *)
(* SendMessageWithTimeout, which goes through the circuit breaker and      *)
(* gives up after two seconds, and main shuts the pool down meanwhile.     *)
(***************************************************************************)
EXTENDS EventPool, KafkaBreaker

VARIABLES
  breaker,   \* kafkaBreaker
  call,      \* progress of a task's SendMessageWithTimeout
  admitted   \* the generation in which the breaker admitted a call

callVars == <<breaker, call, admitted>>
vars == <<poolVars, callVars>>

Ended == {"sent", "failed", "refused"}
-----------------------------------------------------------------------------
\* The task runs: Execute asks the breaker, which refuses or admits the call.
StartCall(t) ==
  /\ call[t] = "idle"
  /\ \E w \in Worker : t \in running[w]
  /\ LET b == Current(breaker)
     IN \/ /\ Admits(b)
           /\ breaker' = Before(b)
           /\ call' = [call EXCEPT ![t] = "waiting"]
           /\ admitted' = [admitted EXCEPT ![t] = b.generation]
        \/ /\ ~Admits(b)
           /\ breaker' = b
           /\ call' = [call EXCEPT ![t] = "refused"]
           /\ UNCHANGED admitted
  /\ UNCHANGED poolVars

\* SendMessage's result arrives, or two seconds pass first; Execute records it.
EndCall(t) ==
  /\ call[t] = "waiting"
  /\ \E ok \in BOOLEAN :
       /\ breaker' = After(Current(breaker), admitted[t], ok)
       /\ call' = [call EXCEPT ![t] = IF ok THEN "sent" ELSE "failed"]
  /\ UNCHANGED <<admitted, poolVars>>

\* The breaker's Timeout of five seconds passes.
Expire ==
  /\ breaker.state = "open"
  /\ ~breaker.expired
  /\ breaker' = [breaker EXCEPT !.expired = TRUE]
  /\ UNCHANGED <<call, admitted, poolVars>>

\* The task logs an error, if there is one, and returns.
Return(w) ==
  /\ \A t \in running[w] : call[t] \in Ended
  /\ FinishTask(w)
  /\ UNCHANGED callVars

\* A worker's steps on the pool's queue.
UseQueue(w) == (TakeTask(w) \/ LeaveRange(w)) /\ UNCHANGED callVars
-----------------------------------------------------------------------------
\* A quiet moment of the process: the calls that have ended before it left the
\* breaker closed or open.
Init ==
  /\ EPInit
  /\ breaker \in {NewBreaker, Enter(NewBreaker, "open")}
  /\ call = [t \in Task |-> "idle"]
  /\ admitted = [t \in Task |-> 0]

Next ==
  \/ \E t \in Task : Submit(t) /\ UNCHANGED callVars
  \/ \E w \in Worker : UseQueue(w) \/ Return(w)
  \/ \E t \in Task : StartCall(t) \/ EndCall(t)
  \/ Expire
  \/ Shutdown /\ UNCHANGED callVars

\* Goroutines that can run do; a handler that has begun to submit goes on; a
\* send ends, with time.After if nothing else; the server need not stop, but a
\* shutdown that has begun goes on.  Nothing is assumed of the broker.
Fairness ==
  /\ \A t \in Task :
       /\ WF_vars((Enqueue(t) \/ SendOnClosed(t)) /\ UNCHANGED callVars)
       /\ WF_vars(StartCall(t) \/ EndCall(t))
  /\ \A w \in Worker : WF_vars(UseQueue(w) \/ Return(w))
  /\ WF_vars((CloseQueue \/ AllGone) /\ UNCHANGED callVars)

Spec == Init /\ [][Next]_vars /\ Fairness
-----------------------------------------------------------------------------
TypeOK ==
  /\ EPTypeOK
  /\ breaker \in Breaker
  /\ call \in [Task -> {"idle", "waiting"} \cup Ended]
  /\ admitted \in [Task -> Nat]

\* Calls that were admitted in the breaker's present generation.
Present ==
  {t \in Task : call[t] \in {"waiting", "sent", "failed"} /\ admitted[t] = breaker.generation}

\* A breaker that has been half-open since its last change probes with one
\* call at a time, whatever calls of earlier generations are still out.
OneProbe == breaker.state = "halfOpen" => Cardinality(Present) <= 1

\* The breaker does not stay closed once half of the calls, and three of
\* them, have failed, in whichever order concurrent calls return.
ClosedIsHealthy ==
  breaker.state = "closed" /\ breaker.failures >= 3
    => 2 * breaker.failures < breaker.requests

\* A shutdown that has begun returns: no handler that is blocked on the full
\* queue, no worker and no broker that does not answer can keep wg.Wait from
\* returning.
ShutdownReturns == (shutdown # "no") ~> (shutdown = "done")

\* A handler that waits for room in the queue does not wait for ever, and its
\* task ends with an answer, unless Submit panicked.
EveryTaskSettles ==
  \A t \in Task :
    (submit[t] = "sending")
      ~> (submit[t] = "panicked" \/ (t \in finished /\ call[t] \in Ended))
=============================================================================
