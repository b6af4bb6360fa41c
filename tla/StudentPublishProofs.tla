------------------------ MODULE StudentPublishProofs ------------------------
(***************************************************************************)
(* Proofs about the goroutine pool, whatever its tasks do, and about the   *)
(* publishing of student events through it, for any number of handlers and *)
(* workers and any queue: Shutdown drains what was accepted, publishing    *)
(* uses the pool as EPSpec allows, and the breaker's counts are right      *)
(* whatever order concurrent calls end in.                                 *)
(***************************************************************************)
EXTENDS StudentPublish, FiniteSetTheorems, SequenceTheorems, TLAPS

(* The pool                                                                *)

\* An accepted task is in the queue, with a worker, or done.
AcceptedIsSomewhere ==
  \A t \in Task : submit[t] = "accepted" =>
    \/ \E k \in 1..Len(queue) : queue[k] = t
    \/ \E w \in Worker : t \in running[w]
    \/ t \in finished

\* Only a busy worker has a task; a worker leaves a closed, empty queue.
WorkersKeepTasks ==
  \A w \in Worker :
    /\ worker[w] # "busy" => running[w] = {}
    /\ worker[w] = "gone" => closed /\ queue = <<>>

DoneMeansAllGone == shutdown = "done" => \A w \in Worker : worker[w] = "gone"

PoolInv == EPTypeOK /\ AcceptedIsSomewhere /\ WorkersKeepTasks /\ DoneMeansAllGone
-----------------------------------------------------------------------------
\* What TakeTask leaves in the queue, and what was in it.
LEMMA HeadAndTail ==
  ASSUME NEW q \in Seq(Task), q # <<>>, Len(q) <= QueueSize
  PROVE  /\ Tail(q) \in Seq(Task) /\ Len(Tail(q)) <= QueueSize /\ Head(q) \in Task
         /\ \A k \in 1..Len(q) :
              q[k] = Head(q) \/ \E j \in 1..Len(Tail(q)) : Tail(q)[j] = q[k]
<1>1. /\ Len(Tail(q)) = Len(q) - 1 /\ Len(q) \in Nat
      /\ \A j \in 1..Len(Tail(q)) : Tail(q)[j] = q[j + 1]
      /\ Head(q) = q[1] /\ Head(q) \in Task /\ Tail(q) \in Seq(Task)
  BY HeadTailProperties
<1>2. ASSUME NEW k \in 1..Len(q), k # 1
      PROVE  \E j \in 1..Len(Tail(q)) : Tail(q)[j] = q[k]
  <2>1. k - 1 \in 1..Len(Tail(q)) /\ (k - 1) + 1 = k
    BY <1>1, <1>2
  <2> QED
    BY <1>1, <2>1
<1> QED
  BY <1>1, <1>2, QueueSizeAssumption

\* The steps of a handler.
LEMMA SubmitInv ==
  ASSUME PoolInv, NEW t \in Task, Submit(t)
  PROVE  PoolInv'
<1>1. CASE CheckStopped(t) \/ SendOnClosed(t)
  <2>1. /\ UNCHANGED <<queue, closed, stopped, worker, running, finished, shutdown>>
        /\ \E s \in {"refused", "sending", "panicked"} : submit' = [submit EXCEPT ![t] = s]
    BY <1>1 DEF CheckStopped, SendOnClosed
  <2> QED
    BY <2>1 DEF PoolInv, EPTypeOK, AcceptedIsSomewhere, WorkersKeepTasks,
       DoneMeansAllGone
<1>2. CASE Enqueue(t)
  <2>1. /\ UNCHANGED <<closed, stopped, worker, running, finished, shutdown>>
        /\ queue \in Seq(Task) /\ Len(queue) \in Nat
        /\ queue' = Append(queue, t) /\ Len(queue) < QueueSize /\ ~closed
        /\ submit' = [submit EXCEPT ![t] = "accepted"]
    BY <1>2 DEF Enqueue, HasRoom, PoolInv, EPTypeOK
  <2>2. /\ queue' \in Seq(Task) /\ Len(queue') = Len(queue) + 1
        /\ queue'[Len(queue) + 1] = t
        /\ \A k \in 1..Len(queue) : queue'[k] = queue[k]
    BY <2>1
  <2>3. EPTypeOK'
    BY <2>1, <2>2, QueueSizeAssumption DEF PoolInv, EPTypeOK
  <2>4. AcceptedIsSomewhere'
    <3>1. \E k \in 1..Len(queue') : queue'[k] = t
      BY <2>1, <2>2
    <3>2. \A u \in Task \ {t} : submit'[u] = submit[u]
      BY <2>1 DEF PoolInv, EPTypeOK
    <3>3. \A k \in 1..Len(queue) : k \in 1..Len(queue')
      BY <2>1, <2>2
    <3> QED
      BY <2>1, <2>2, <3>1, <3>2, <3>3 DEF PoolInv, AcceptedIsSomewhere
  <2>5. WorkersKeepTasks' /\ DoneMeansAllGone'
    BY <2>1 DEF PoolInv, WorkersKeepTasks, DoneMeansAllGone
  <2> QED
    BY <2>3, <2>4, <2>5 DEF PoolInv
<1> QED
  BY <1>1, <1>2 DEF Submit

\* The steps of a worker.
LEMMA WorkInv ==
  ASSUME PoolInv, NEW w \in Worker, Work(w)
  PROVE  PoolInv'
<1>1. CASE TakeTask(w)
  <2>1. /\ UNCHANGED <<closed, stopped, submit, finished, shutdown>>
        /\ worker[w] = "ready" /\ queue # <<>> /\ queue' = Tail(queue)
        /\ running' = [running EXCEPT ![w] = {Head(queue)}]
        /\ worker' = [worker EXCEPT ![w] = "busy"]
        /\ queue \in Seq(Task) /\ Len(queue) <= QueueSize
    BY <1>1 DEF TakeTask, PoolInv, EPTypeOK
  <2>2. /\ queue' \in Seq(Task) /\ Len(queue') <= QueueSize /\ Head(queue) \in Task
        /\ \A k \in 1..Len(queue) :
             queue[k] = Head(queue) \/ \E j \in 1..Len(queue') : queue'[j] = queue[k]
    BY <2>1, HeadAndTail
  <2>3. /\ running'[w] = {Head(queue)} /\ worker'[w] = "busy" /\ running[w] = {}
        /\ \A v \in Worker \ {w} : running'[v] = running[v] /\ worker'[v] = worker[v]
    BY <2>1 DEF PoolInv, EPTypeOK, WorkersKeepTasks
  <2>4. EPTypeOK'
    BY <2>1, <2>2 DEF PoolInv, EPTypeOK
  <2>5. AcceptedIsSomewhere'
    BY <2>1, <2>2, <2>3 DEF PoolInv, AcceptedIsSomewhere
  <2>6. WorkersKeepTasks' /\ DoneMeansAllGone'
    BY <2>1, <2>3 DEF PoolInv, WorkersKeepTasks, DoneMeansAllGone
  <2> QED
    BY <2>4, <2>5, <2>6 DEF PoolInv
<1>2. CASE FinishTask(w)
  <2>1. /\ UNCHANGED <<queue, closed, stopped, submit, shutdown>>
        /\ finished' = finished \cup running[w]
        /\ running' = [running EXCEPT ![w] = {}]
        /\ worker[w] = "busy" /\ worker' = [worker EXCEPT ![w] = "ready"]
    BY <1>2 DEF FinishTask, AfterTask
  <2>2. /\ running'[w] = {} /\ worker'[w] = "ready"
        /\ \A v \in Worker \ {w} : running'[v] = running[v] /\ worker'[v] = worker[v]
    BY <2>1 DEF PoolInv, EPTypeOK
  <2>3. EPTypeOK'
    BY <2>1 DEF PoolInv, EPTypeOK
  <2>4. AcceptedIsSomewhere'
    BY <2>1, <2>2 DEF PoolInv, AcceptedIsSomewhere
  <2>5. WorkersKeepTasks' /\ DoneMeansAllGone'
    BY <2>1, <2>2 DEF PoolInv, WorkersKeepTasks, DoneMeansAllGone
  <2> QED
    BY <2>3, <2>4, <2>5 DEF PoolInv
<1>3. CASE LeaveRange(w)
  BY <1>3 DEF LeaveRange, RangeEnds, PoolInv, EPTypeOK, AcceptedIsSomewhere, WorkersKeepTasks,
     DoneMeansAllGone
<1> QED
  BY <1>1, <1>2, <1>3 DEF Work

\* The steps of Shutdown.
LEMMA ShutdownInv ==
  ASSUME PoolInv, Shutdown
  PROVE  PoolInv'
<1>1. CASE SetStopped \/ CloseQueue
  BY <1>1 DEF SetStopped, CloseQueue, Close, PoolInv, EPTypeOK, AcceptedIsSomewhere,
     WorkersKeepTasks, DoneMeansAllGone
<1>2. CASE AllGone
  <2>1. \A w \in Worker : worker[w] \in Range(worker)
    BY DEF Range, PoolInv, EPTypeOK
  <2>2. \A w \in Worker : worker[w] = "gone"
    BY <1>2, <2>1 DEF AllGone
  <2> QED
    BY <1>2, <2>2 DEF AllGone, PoolInv, EPTypeOK, AcceptedIsSomewhere,
       WorkersKeepTasks, DoneMeansAllGone
<1> QED
  BY <1>1, <1>2 DEF Shutdown

\* PoolInv holds at first and is kept by every step of the pool.
LEMMA PoolInvInit == EPInit => PoolInv
<1> SUFFICES ASSUME EPInit PROVE PoolInv
  OBVIOUS
<1>1. queue \in Seq(Task) /\ Len(queue) <= QueueSize
  BY EmptySeq, QueueSizeAssumption DEF EPInit
<1>2. EPTypeOK
  BY <1>1 DEF EPInit, EPTypeOK
<1> QED
  BY <1>2 DEF EPInit, PoolInv, AcceptedIsSomewhere, WorkersKeepTasks,
     DoneMeansAllGone

\* Every step of the pool keeps its invariant ...
LEMMA PoolInvStep == PoolInv /\ [EPNext]_poolVars => PoolInv'
<1>1. CASE UNCHANGED poolVars
  BY <1>1 DEF poolVars, PoolInv, EPTypeOK, AcceptedIsSomewhere, WorkersKeepTasks,
     DoneMeansAllGone
<1> QED
  BY <1>1, SubmitInv, WorkInv, ShutdownInv DEF EPNext

\* ... which holds for ever.
LEMMA PoolInvariant == EPSpec => []PoolInv
  BY PoolInvInit, PoolInvStep, PTL DEF EPSpec

\* The state of the pool is well formed, and the queue within its capacity.
THEOREM PoolTypes == EPSpec => []EPTypeOK
  BY PoolInvariant, PTL DEF PoolInv

\* Shutdown returns only when every accepted task has been run: some worker
\* exists, all have left, so the queue is empty and nothing is running.
THEOREM ShutdownDrainsAll == EPSpec => []ShutdownDrains
<1>1. PoolInv => ShutdownDrains
  <2> SUFFICES ASSUME PoolInv, shutdown = "done",
                      NEW t \in Task, submit[t] = "accepted"
               PROVE  t \in finished
    BY DEF ShutdownDrains
  <2>1. \A w \in Worker : worker[w] = "gone" /\ running[w] = {}
    BY DEF PoolInv, DoneMeansAllGone, WorkersKeepTasks
  <2>2. queue = <<>>
    BY <2>1, WorkerAssumption DEF PoolInv, WorkersKeepTasks
  <2> QED
    BY <2>1, <2>2 DEF PoolInv, AcceptedIsSomewhere
<1> QED
  BY <1>1, PoolInvariant, PTL
-----------------------------------------------------------------------------
(* The breaker and the tasks                                               *)

\* The calls c that breaker b admitted in its present generation, and those
\* of them that have not ended.
Counted(b, c, a) ==
  {t \in Task : c[t] \in {"waiting", "sent", "failed"} /\ a[t] = b.generation}
Pending(b, c, a) == {t \in Task : c[t] = "waiting" /\ a[t] = b.generation}

\* The breaker has counted the calls of its generation, and a call that has
\* not ended is not yet a failure.
CallInv(b, c, a) ==
  /\ b \in Breaker
  /\ c \in [Task -> {"idle", "waiting"} \cup Ended]
  /\ a \in [Task -> Nat]
  /\ \A t \in Task : a[t] <= b.generation
  /\ Cardinality(Counted(b, c, a)) = b.requests
  /\ b.failures + Cardinality(Pending(b, c, a)) <= b.requests
  /\ b.state = "halfOpen" => b.requests <= 1
  /\ b.state = "closed" /\ b.failures >= 3 => 2 * b.failures < b.requests

PublishInv == CallInv(breaker, call, admitted)
-----------------------------------------------------------------------------
\* The sets the invariant counts are finite, and one is part of the other.
LEMMA CountsAreNatural ==
  ASSUME NEW b, NEW c, NEW a
  PROVE  /\ IsFiniteSet(Counted(b, c, a)) /\ Cardinality(Counted(b, c, a)) \in Nat
         /\ IsFiniteSet(Pending(b, c, a)) /\ Cardinality(Pending(b, c, a)) \in Nat
<1>1. Counted(b, c, a) \in SUBSET Task /\ Pending(b, c, a) \in SUBSET Task
  BY DEF Counted, Pending
<1>2. IsFiniteSet(Counted(b, c, a)) /\ IsFiniteSet(Pending(b, c, a))
  BY <1>1, TaskAssumption, FS_Subset
<1> QED
  BY <1>2, FS_CardinalityType

\* What taking one element out of a finite set does to its size.
LEMMA RemoveOne ==
  ASSUME NEW S, NEW x \in S, IsFiniteSet(S)
  PROVE  Cardinality(S \ {x}) + 1 = Cardinality(S)
<1>1. Cardinality(S) \in Nat /\ Cardinality(S \ {x}) = Cardinality(S) - 1
  BY FS_CardinalityType, FS_RemoveElement
<1> QED
  BY <1>1

\* A new generation begins with nothing to count.
LEMMA EnterKeeps ==
  ASSUME NEW b, NEW c, NEW a, CallInv(b, c, a), NEW s \in States
  PROVE  CallInv(Enter(b, s), c, a)
<1> DEFINE n == Enter(b, s)
<1>1. /\ n \in Breaker /\ n.requests = 0 /\ n.failures = 0
      /\ n.generation = b.generation + 1 /\ b.generation \in Nat
  BY DEF CallInv, Breaker, Enter
<1>2. \A t \in Task : a[t] \in Nat /\ a[t] <= b.generation
  BY DEF CallInv
<1>3. \A t \in Task : a[t] # n.generation /\ a[t] <= n.generation
  BY <1>1, <1>2
<1>4. Counted(n, c, a) = {} /\ Pending(n, c, a) = {}
  BY <1>3 DEF Counted, Pending
<1>5. Cardinality({}) = 0
  BY FS_EmptySet
<1> QED
  BY <1>1, <1>3, <1>4, <1>5 DEF CallInv

\* Looking at the clock changes nothing that was counted.
LEMMA CurrentKeeps ==
  ASSUME NEW b, NEW c, NEW a, CallInv(b, c, a)
  PROVE  CallInv(Current(b), c, a)
  BY EnterKeeps DEF Current, States

\* A call that is admitted is counted.
LEMMA AdmitKeeps ==
  ASSUME NEW b, NEW c, NEW a, CallInv(b, c, a), Admits(b),
         NEW t \in Task, c[t] = "idle"
  PROVE  CallInv(Before(b), [c EXCEPT ![t] = "waiting"], [a EXCEPT ![t] = b.generation])
<1> DEFINE n == Before(b)
           d == [c EXCEPT ![t] = "waiting"]
           g == [a EXCEPT ![t] = b.generation]
<1>1. /\ n \in Breaker /\ n.requests = b.requests + 1 /\ n.failures = b.failures
      /\ n.state = b.state /\ n.generation = b.generation
      /\ b.requests \in Nat /\ b.failures \in Nat /\ b.generation \in Nat
  BY DEF CallInv, Breaker, Before
<1>2. /\ d \in [Task -> {"idle", "waiting"} \cup Ended] /\ g \in [Task -> Nat]
      /\ d[t] = "waiting" /\ g[t] = b.generation
      /\ \A u \in Task \ {t} : d[u] = c[u] /\ g[u] = a[u]
      /\ \A u \in Task : g[u] <= b.generation
  BY <1>1 DEF CallInv
<1>3. /\ Counted(n, d, g) = Counted(b, c, a) \cup {t} /\ t \notin Counted(b, c, a)
      /\ Pending(n, d, g) = Pending(b, c, a) \cup {t} /\ t \notin Pending(b, c, a)
  BY <1>1, <1>2 DEF Counted, Pending
<1>4. /\ Cardinality(Counted(n, d, g)) = Cardinality(Counted(b, c, a)) + 1
      /\ Cardinality(Pending(n, d, g)) = Cardinality(Pending(b, c, a)) + 1
  BY <1>3, CountsAreNatural, FS_AddElement
<1>5. b.state = "halfOpen" => b.requests < 1
  BY DEF Admits, MaxRequests
<1>6. /\ Cardinality(Counted(b, c, a)) = b.requests
      /\ b.failures + Cardinality(Pending(b, c, a)) <= b.requests
      /\ b.state = "closed" /\ b.failures >= 3 => 2 * b.failures < b.requests
  BY DEF CallInv
<1>7. /\ Cardinality(Counted(n, d, g)) = n.requests
      /\ n.failures + Cardinality(Pending(n, d, g)) <= n.requests
      /\ n.state = "halfOpen" => n.requests <= 1
      /\ n.state = "closed" /\ n.failures >= 3 => 2 * n.failures < n.requests
  BY <1>1, <1>4, <1>5, <1>6, CountsAreNatural
<1> QED
  BY <1>1, <1>2, <1>7 DEF CallInv

\* A call that is refused is not.
LEMMA RefuseKeeps ==
  ASSUME NEW b, NEW c, NEW a, CallInv(b, c, a), NEW t \in Task, c[t] = "idle"
  PROVE  CallInv(b, [c EXCEPT ![t] = "refused"], a)
<1> DEFINE d == [c EXCEPT ![t] = "refused"]
<1>1. /\ d \in [Task -> {"idle", "waiting"} \cup Ended]
      /\ d[t] = "refused" /\ \A u \in Task \ {t} : d[u] = c[u]
  BY DEF CallInv, Ended
<1>2. Counted(b, d, a) = Counted(b, c, a) /\ Pending(b, d, a) = Pending(b, c, a)
  BY <1>1 DEF Counted, Pending
<1> QED
  BY <1>1, <1>2 DEF CallInv

\* A call that ends is pending no more; if it failed it is a failure instead.
LEMMA EndKeeps ==
  ASSUME NEW b, NEW c, NEW a, CallInv(b, c, a), NEW t \in Task, c[t] = "waiting",
         NEW ok \in BOOLEAN
  PROVE  CallInv(After(b, a[t], ok), [c EXCEPT ![t] = IF ok THEN "sent" ELSE "failed"], a)
<1> DEFINE d == [c EXCEPT ![t] = IF ok THEN "sent" ELSE "failed"]
           f == [b EXCEPT !.failures = @ + 1]
<1>1. /\ d \in [Task -> {"idle", "waiting"} \cup Ended]
      /\ d[t] \in {"sent", "failed"} /\ \A u \in Task \ {t} : d[u] = c[u]
      /\ a \in [Task -> Nat] /\ \A u \in Task : a[u] <= b.generation
  BY DEF CallInv, Ended
<1>2. Counted(b, d, a) = Counted(b, c, a)
  BY <1>1 DEF Counted
<1>3. CASE b.generation # a[t]
  <2>1. Pending(b, d, a) = Pending(b, c, a)
    BY <1>1, <1>3 DEF Pending
  <2> QED
    BY <1>1, <1>2, <1>3, <2>1 DEF CallInv, After
<1>4. CASE b.generation = a[t]
  <2>1. Pending(b, d, a) = Pending(b, c, a) \ {t} /\ t \in Pending(b, c, a)
    BY <1>1, <1>4 DEF Pending
  <2>2. Cardinality(Pending(b, d, a)) + 1 = Cardinality(Pending(b, c, a))
    BY <2>1, CountsAreNatural, RemoveOne
  <2>3. /\ b \in Breaker /\ b.requests \in Nat /\ b.failures \in Nat
        /\ Cardinality(Counted(b, c, a)) = b.requests
        /\ b.failures + Cardinality(Pending(b, c, a)) <= b.requests
        /\ b.state = "halfOpen" => b.requests <= 1
        /\ b.state = "closed" /\ b.failures >= 3 => 2 * b.failures < b.requests
    BY DEF CallInv, Breaker
  <2>4. CallInv(b, d, a)
    <3>1. b.failures + Cardinality(Pending(b, d, a)) <= b.requests
      BY <2>2, <2>3, CountsAreNatural
    <3> QED
      BY <1>1, <1>2, <2>3, <3>1 DEF CallInv
  <2>5. CASE ok
    BY <1>4, <2>4, <2>5, EnterKeeps DEF After, Succeeded, States
  <2>6. CASE ~ok
    <3>1. CASE b.state = "halfOpen" \/ ReadyToTrip(f)
      <4>1. Enter(f, "open") = Enter(b, "open")
        BY <2>3 DEF Breaker, Enter
      <4>2. After(b, a[t], ok) = Enter(f, "open") \/ After(b, a[t], ok) = Enter(b, "open")
        BY <1>4, <2>6, <3>1 DEF After, Failed
      <4> QED
        BY <2>4, <4>1, <4>2, EnterKeeps DEF States
    <3>2. CASE b.state # "halfOpen" /\ ~ReadyToTrip(f)
      <4>1. After(b, a[t], ok) = f
        BY <1>4, <2>6, <3>2 DEF After, Failed
      <4>2. /\ f \in Breaker /\ f.failures = b.failures + 1 /\ f.requests = b.requests
            /\ f.state = b.state /\ f.generation = b.generation
        BY <2>3 DEF Breaker
      <4>3. f.failures + Cardinality(Pending(b, d, a)) <= f.requests
        BY <2>2, <2>3, <4>2, CountsAreNatural
      <4>4. f.failures <= f.requests
        BY <2>3, <4>2, <4>3, CountsAreNatural
      <4>5. f.failures >= 3 => 2 * f.failures < f.requests
        BY <2>3, <3>2, <4>2, <4>4 DEF ReadyToTrip
      <4>6. Counted(f, d, a) = Counted(b, c, a) /\ Pending(f, d, a) = Pending(b, d, a)
        BY <1>2, <4>2 DEF Counted, Pending
      <4> QED
        BY <1>1, <2>3, <3>2, <4>1, <4>2, <4>3, <4>5, <4>6 DEF CallInv
    <3> QED
      BY <3>1, <3>2
  <2> QED
    BY <2>5, <2>6
<1> QED
  BY <1>3, <1>4
-----------------------------------------------------------------------------
\* Every step keeps the counts and is a step of the pool or leaves it alone.
LEMMA PublishStep ==
  ASSUME PublishInv, [Next]_vars
  PROVE  PublishInv' /\ [EPNext]_poolVars
<1>1. CASE UNCHANGED callVars /\ [EPNext]_poolVars
  BY <1>1 DEF callVars, PublishInv, CallInv, Counted, Pending
<1>2. ASSUME NEW t \in Task, StartCall(t)
      PROVE  PublishInv' /\ [EPNext]_poolVars
  <2>1. CallInv(Current(breaker), call, admitted)
    BY CurrentKeeps DEF PublishInv
  <2>2. CallInv(breaker', call', admitted')
    BY <1>2, <2>1, AdmitKeeps, RefuseKeeps DEF StartCall
  <2> QED
    BY <1>2, <2>2 DEF StartCall, PublishInv, poolVars
<1>3. ASSUME NEW t \in Task, EndCall(t)
      PROVE  PublishInv' /\ [EPNext]_poolVars
  <2>1. CallInv(Current(breaker), call, admitted)
    BY CurrentKeeps DEF PublishInv
  <2>2. CallInv(breaker', call', admitted')
    <3>1. PICK ok \in BOOLEAN :
            /\ breaker' = After(Current(breaker), admitted[t], ok)
            /\ call' = [call EXCEPT ![t] = IF ok THEN "sent" ELSE "failed"]
            /\ UNCHANGED admitted
      BY <1>3 DEF EndCall
    <3>2. call[t] = "waiting"
      BY <1>3 DEF EndCall
    <3> QED
      BY <2>1, <3>1, <3>2, EndKeeps
  <2> QED
    BY <1>3, <2>2 DEF EndCall, PublishInv, poolVars
<1>4. CASE Expire
  <2>1. /\ breaker' = [breaker EXCEPT !.expired = TRUE] /\ breaker \in Breaker
        /\ UNCHANGED <<call, admitted, poolVars>>
    BY <1>4 DEF Expire, PublishInv, CallInv
  <2>2. /\ breaker' \in Breaker /\ breaker'.requests = breaker.requests
        /\ breaker'.failures = breaker.failures /\ breaker'.state = breaker.state
        /\ breaker'.generation = breaker.generation
    BY <2>1 DEF Breaker
  <2> QED
    BY <2>1, <2>2 DEF PublishInv, CallInv, Counted, Pending, poolVars
<1>5. ASSUME NEW w \in Worker, UseQueue(w) \/ Return(w)
      PROVE  PublishInv' /\ [EPNext]_poolVars
  BY <1>1, <1>5 DEF UseQueue, Return, Work, EPNext
<1>6. CASE \E t \in Task : Submit(t) /\ UNCHANGED callVars
  BY <1>1, <1>6 DEF EPNext
<1>7. CASE Shutdown /\ UNCHANGED callVars
  BY <1>1, <1>7 DEF EPNext
<1>8. CASE UNCHANGED vars
  BY <1>1, <1>8 DEF vars, callVars, poolVars
<1> QED
  BY <1>2, <1>3, <1>4, <1>5, <1>6, <1>7, <1>8 DEF Next

\* The start.
LEMMA PublishInit == Init => PublishInv
<1> SUFFICES ASSUME Init PROVE PublishInv
  OBVIOUS
<1>1. /\ breaker \in Breaker /\ breaker.requests = 0 /\ breaker.failures = 0
      /\ breaker.generation \in Nat
  <2>1. CASE breaker = NewBreaker
    BY <2>1 DEF NewBreaker, Breaker, States
  <2>2. CASE breaker = Enter(NewBreaker, "open")
    <3>1. breaker = [state |-> "open", generation |-> 1, requests |-> 0,
                     failures |-> 0, expired |-> FALSE]
      BY <2>2 DEF NewBreaker, Enter
    <3> QED
      BY <3>1 DEF Breaker, States
  <2> QED
    BY <2>1, <2>2 DEF Init
<1>2. Counted(breaker, call, admitted) = {} /\ Pending(breaker, call, admitted) = {}
  BY DEF Init, Counted, Pending
<1>3. Cardinality({}) = 0
  BY FS_EmptySet
<1>4. /\ call \in [Task -> {"idle", "waiting"} \cup Ended]
      /\ admitted \in [Task -> Nat] /\ \A t \in Task : admitted[t] = 0
  BY DEF Init
<1> QED
  BY <1>1, <1>2, <1>3, <1>4 DEF PublishInv, CallInv

\* The invariant holds for ever.
LEMMA PublishInvariant == Spec => []PublishInv
<1>1. PublishInv /\ [Next]_vars => PublishInv'
  BY PublishStep
<1> QED
  BY <1>1, PublishInit, PTL DEF Spec

\* The publishing of events uses the pool as the pool's own specification
\* allows: all that is proved of the pool holds for the composition.
THEOREM PublishImplementsPool == Spec => EPSpec
<1>1. Init => EPInit
  BY DEF Init
<1>2. PublishInv /\ [Next]_vars => [EPNext]_poolVars
  BY PublishStep
<1> QED
  BY <1>1, <1>2, PublishInvariant, PTL DEF Spec, EPSpec

\* The composed state is well formed.
THEOREM PublishTypes == Spec => []TypeOK
<1>1. EPTypeOK /\ PublishInv => TypeOK
  BY DEF TypeOK, PublishInv, CallInv
<1> QED
  BY <1>1, PublishImplementsPool, PoolTypes, PublishInvariant, PTL

\* ShutdownEventPool returns only when every accepted event has been handled.
THEOREM PublishDrains == Spec => []ShutdownDrains
  BY PublishImplementsPool, ShutdownDrainsAll, PTL

\* The half-open breaker probes with one call at a time.
THEOREM OneProbeAtATime == Spec => []OneProbe
<1>1. PublishInv => OneProbe
  <2>1. Present = Counted(breaker, call, admitted)
    BY DEF Present, Counted
  <2> QED
    BY <2>1 DEF PublishInv, CallInv, OneProbe
<1> QED
  BY <1>1, PublishInvariant, PTL

\* The breaker does not stay closed once half of its calls have failed.
THEOREM BreakerOpensInTime == Spec => []ClosedIsHealthy
<1>1. PublishInv => ClosedIsHealthy
  BY DEF PublishInv, CallInv, ClosedIsHealthy
<1> QED
  BY <1>1, PublishInvariant, PTL
=============================================================================
