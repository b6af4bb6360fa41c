------------------------------ MODULE EventPool -----------------------------
(***************************************************************************)
(* The goroutine pool behind pubilshStudentEvent: request handlers submit  *)
(* one task each through a bounded channel, workers take tasks off it and  *)
(* run them, and main shuts the pool down when the HTTP server returns     *)
(* while handlers may still be running.                                    *)
(***************************************************************************)
EXTENDS Naturals, Sequences, FiniteSets, Functions

CONSTANTS
  Task,       \* the tasks, each submitted by a handler of its own
  Worker,     \* workerNum goroutines, 100
  QueueSize   \* capacity of taskQueue, 1000

ASSUME WorkerAssumption == Worker # {}
ASSUME TaskAssumption == IsFiniteSet(Task)
ASSUME QueueSizeAssumption == QueueSize \in Nat \ {0}

VARIABLES
  queue,      \* taskQueue
  closed,     \* is taskQueue closed?
  stopped,    \* p.stopped, read and written without synchronisation
  submit,     \* progress of the handler that submits a task
  worker,     \* progress of a worker
  running,    \* the tasks a worker is running
  finished,   \* tasks that have been run
  shutdown    \* progress of Shutdown

poolVars == <<queue, closed, stopped, submit, worker, running, finished, shutdown>>
-----------------------------------------------------------------------------
\* Submit reads stopped.  The read races with Shutdown's write and may miss it.
CheckStopped(t) ==
  /\ submit[t] = "idle"
  /\ \E seen \in {FALSE, stopped} :
       submit' = [submit EXCEPT ![t] = IF seen THEN "refused" ELSE "sending"]
  /\ UNCHANGED <<queue, closed, stopped, worker, running, finished, shutdown>>

HasRoom == Len(queue) < QueueSize

\* The send blocks while the channel is full ...
Enqueue(t) ==
  /\ submit[t] = "sending"
  /\ ~closed
  /\ HasRoom
  /\ queue' = Append(queue, t)
  /\ submit' = [submit EXCEPT ![t] = "accepted"]
  /\ UNCHANGED <<closed, stopped, worker, running, finished, shutdown>>

\* ... and panics once it is closed, also if it was blocked by then; the
\* panic ends in gin.Recovery.
SendOnClosed(t) ==
  /\ submit[t] = "sending"
  /\ closed
  /\ submit' = [submit EXCEPT ![t] = "panicked"]
  /\ UNCHANGED <<queue, closed, stopped, worker, running, finished, shutdown>>
-----------------------------------------------------------------------------
\* for task := range p.taskQueue
TakeTask(w) ==
  /\ worker[w] = "ready"
  /\ queue # <<>>
  /\ queue' = Tail(queue)
  /\ running' = [running EXCEPT ![w] = {Head(queue)}]
  /\ worker' = [worker EXCEPT ![w] = "busy"]
  /\ UNCHANGED <<closed, stopped, submit, finished, shutdown>>

\* Mutant: a worker runs one task and returns.
MutAfterTask == "gone"

AfterTask == "ready"

\* task() returns: SendMessageWithTimeout gives up after two seconds.
FinishTask(w) ==
  /\ worker[w] = "busy"
  /\ finished' = finished \cup running[w]
  /\ running' = [running EXCEPT ![w] = {}]
  /\ worker' = [worker EXCEPT ![w] = AfterTask]
  /\ UNCHANGED <<queue, closed, stopped, submit, shutdown>>

\* Mutant: a worker asks for the end before it asks for work.
MutRangeEnds == closed

RangeEnds == closed /\ queue = <<>>

\* The range loop ends when the channel is closed and empty: wg.Done.
LeaveRange(w) ==
  /\ worker[w] = "ready"
  /\ RangeEnds
  /\ worker' = [worker EXCEPT ![w] = "gone"]
  /\ UNCHANGED <<queue, closed, stopped, submit, running, finished, shutdown>>
-----------------------------------------------------------------------------
\* r.Run returns and main's deferred calls run: Shutdown, once.
SetStopped ==
  /\ shutdown = "no"
  /\ shutdown' = "stopped"
  /\ stopped' = TRUE
  /\ UNCHANGED <<queue, closed, submit, worker, running, finished>>

\* Mutant: the channel is never closed.
MutClose == UNCHANGED closed

Close == closed' = TRUE

CloseQueue ==
  /\ shutdown = "stopped"
  /\ shutdown' = "waiting"
  /\ Close
  /\ UNCHANGED <<queue, stopped, submit, worker, running, finished>>

\* wg.Wait returns.
AllGone ==
  /\ shutdown = "waiting"
  /\ Range(worker) = {"gone"}
  /\ shutdown' = "done"
  /\ UNCHANGED <<queue, closed, stopped, submit, worker, running, finished>>
-----------------------------------------------------------------------------
EPInit ==
  /\ queue = <<>>
  /\ closed = FALSE
  /\ stopped = FALSE
  /\ submit = [t \in Task |-> "idle"]
  /\ worker = [w \in Worker |-> "ready"]
  /\ running = [w \in Worker |-> {}]
  /\ finished = {}
  /\ shutdown = "no"

Submit(t) == CheckStopped(t) \/ Enqueue(t) \/ SendOnClosed(t)
Work(w) == TakeTask(w) \/ FinishTask(w) \/ LeaveRange(w)
Shutdown == SetStopped \/ CloseQueue \/ AllGone

EPNext ==
  \/ \E t \in Task : Submit(t)
  \/ \E w \in Worker : Work(w)
  \/ Shutdown

\* The pool by itself, whatever its tasks do.
EPSpec == EPInit /\ [][EPNext]_poolVars
-----------------------------------------------------------------------------
EPTypeOK ==
  /\ queue \in Seq(Task) /\ Len(queue) <= QueueSize
  /\ closed \in BOOLEAN
  /\ stopped \in BOOLEAN
  /\ submit \in [Task -> {"idle", "sending", "accepted", "refused", "panicked"}]
  /\ worker \in [Worker -> {"ready", "busy", "gone"}]
  /\ running \in [Worker -> SUBSET Task]
  /\ finished \subseteq Task
  /\ shutdown \in {"no", "stopped", "waiting", "done"}

\* When Shutdown returns, and main ends the process, every task whose Submit
\* returned nil has been run to its end: the queue is drained, not dropped.
ShutdownDrains ==
  shutdown = "done" => \A t \in Task : submit[t] = "accepted" => t \in finished
=============================================================================
