---------------------------- MODULE StudentImport ---------------------------
(***************************************************************************)
(* The import of students: ImportStudents sends the rows of an uploaded    *)
(* file to the topic "student_import"; the consumer group's ImportHandler  *)
(* collects them in one buffer, shared by the claims of all partitions,    *)
(* and inserts them in batches.                                            *)
(***************************************************************************)
EXTENDS Integers, Sequences, FiniteSets, Functions

CONSTANTS
  Partition,  \* partitions of the topic, all claimed by this process
  FileSize,   \* rows of the uploaded file; row s becomes student s
  Hash,       \* the partition of each student's name
  Garbage,    \* a record that does not parse as a student
  Refused,    \* students MySQL refuses: the name is too long, the class not there
  BatchSize,  \* ImportHandler.BatchSize, 100
  MaxFaults   \* bound: crashes, rebalances and failed inserts or commits

Student == 1..FileSize

ASSUME FileSizeAssumption == FileSize \in Nat
ASSUME BatchSizeAssumption == BatchSize \in Nat \ {0}
ASSUME MaxFaultsAssumption == MaxFaults \in Nat
ASSUME GarbageAssumption == Garbage \notin Student
ASSUME HashAssumption == Hash \in [Student -> Partition]
ASSUME RefusedAssumption == Refused \subseteq Student

VARIABLES
  next,      \* the next row ImportStudents sends
  log,       \* the records of each partition
  session,   \* the consumer group session of this process
  claim,     \* progress of each partition's ConsumeClaim
  pos,       \* records each claim has received
  marked,    \* offsets marked in the session
  committed, \* offsets committed by the group
  pending,   \* h.pending: students received and not inserted yet
  batch,     \* what each claim has taken out of pending to insert it
  inserted,  \* rows of each student in the student table
  lost,      \* history: students in a batch that failed or died in a crash
  wiped,     \* history: students in the buffer when a claim replaced it
  faults     \* faults so far

sessionVars == <<session, claim, pos, marked, committed>>
bufferVars == <<pending, batch, inserted, lost, wiped>>
vars == <<next, log, sessionVars, bufferVars, faults>>

Fault == faults < MaxFaults /\ faults' = faults + 1

Goto(p, s) == claim' = [claim EXCEPT ![p] = s]
-----------------------------------------------------------------------------
(* ImportStudents                                                          *)

\* The producer hashes the key, which is the student's name.  After an error
\* the record may be in the topic all the same, and when an answer of the
\* broker is lost the producer writes it twice; the loop goes on.  What it
\* counts and replies is in StudentApi.
Written(records) == log' = [log EXCEPT ![Hash[next]] = @ \o records]

SendRow ==
  /\ next <= FileSize
  /\ next' = next + 1
  /\ \/ (Written(<<next>>) \/ Written(<<>>)) /\ UNCHANGED faults
     \/ Written(<<next, next>>) /\ Fault
  /\ UNCHANGED <<sessionVars, bufferVars>>

\* Somebody else writes a record that is no student.
ForeignRecord ==
  /\ Fault
  /\ \E p \in Partition : log' = [log EXCEPT ![p] = Append(@, Garbage)]
  /\ UNCHANGED <<next, sessionVars, bufferVars>>
-----------------------------------------------------------------------------
(* The life of a session, as sarama runs it (external)                     *)

\* StartConsumer's loop joins the group; Setup empties the buffer, and every
\* claim is about to get a goroutine.
OpenSession ==
  /\ session = "none"
  /\ session' = "running"
  /\ pending' = <<>>
  /\ claim' = [p \in Partition |-> "waiting"]
  /\ pos' = committed
  /\ marked' = committed
  /\ UNCHANGED <<next, log, committed, batch, inserted, lost, wiped, faults>>

\* Marked offsets are committed in the background.
AutoCommit(p) ==
  /\ committed[p] < marked[p]
  /\ committed' = [committed EXCEPT ![p] = marked[p]]
  /\ UNCHANGED <<next, log, session, claim, pos, marked, bufferVars, faults>>

\* A rebalance ends the session: the claims' channels are closed.
Rebalance ==
  /\ session = "running"
  /\ Fault
  /\ session' = "closing"
  /\ UNCHANGED <<next, log, claim, pos, marked, committed, bufferVars>>

\* A claim that has not started when the session ends never does.
SkipClaim(p) ==
  /\ session = "closing"
  /\ claim[p] = "waiting"
  /\ Goto(p, "done")
  /\ UNCHANGED <<next, log, session, pos, marked, committed, bufferVars, faults>>
-----------------------------------------------------------------------------
(* ImportHandler                                                           *)

Count(s, students) == Cardinality({k \in DOMAIN students : students[k] = s})

\* The rows of an INSERT are in the table.
Insert(students) ==
  /\ \A k \in DOMAIN students : students[k] \notin Refused
  /\ inserted' = [s \in Student |-> inserted[s] + Count(s, students)]
  /\ UNCHANGED lost

Lose(students) == lost' = lost \cup Range(students) /\ UNCHANGED inserted

\* flushBatch: one INSERT for all, so an error leaves all of them or none, and
\* one row that is refused takes the others with it.
Flush(students) ==
  \/ Insert(students) /\ UNCHANGED faults
  \/ Range(students) \cap Refused # {} /\ Lose(students) /\ UNCHANGED faults
  \/ students # <<>> /\ Fault /\ (Insert(students) \/ Lose(students))

\* ConsumeClaim begins by replacing the buffer.
StartClaim(p) ==
  /\ claim[p] = "waiting"
  /\ Goto(p, "loop")
  /\ pending' = <<>>
  /\ wiped' = wiped \cup Range(pending)
  /\ UNCHANGED <<next, log, session, pos, marked, committed, batch,
                 inserted, lost, faults>>

\* Mutants: the json error is ignored; a batch is full one record late.
MutParses(record) == TRUE
MutFull(buffer) == Len(buffer) > BatchSize

Parses(record) == record # Garbage
Full(buffer) == Len(buffer) >= BatchSize

\* A record comes: garbage is marked and skipped, a student is buffered, and
\* a full buffer is taken out to be inserted.
Receive(p) ==
  /\ claim[p] = "loop"
  /\ pos[p] < Len(log[p])
  /\ pos' = [pos EXCEPT ![p] = @ + 1]
  /\ LET record == log[p][pos[p] + 1]
         buffer == Append(pending, record)
     IN IF ~Parses(record)
        THEN /\ marked' = [marked EXCEPT ![p] = pos[p] + 1]
             /\ UNCHANGED <<claim, pending, batch>>
        ELSE /\ UNCHANGED marked
             /\ IF Full(buffer)
                THEN /\ batch' = [batch EXCEPT ![p] = buffer]
                     /\ pending' = <<>>
                     /\ Goto(p, "flush")
                ELSE /\ pending' = buffer
                     /\ UNCHANGED batch
                     /\ Goto(p, "mark")
  /\ UNCHANGED <<next, log, session, committed, inserted, lost, wiped, faults>>

\* A batch that cannot be inserted is logged and dropped.
FlushFull(p) ==
  /\ claim[p] = "flush"
  /\ Flush(batch[p])
  /\ batch' = [batch EXCEPT ![p] = <<>>]
  /\ Goto(p, "mark")
  /\ UNCHANGED <<next, log, session, pos, marked, committed, pending, wiped>>

MarkMessage(p) ==
  /\ claim[p] = "mark"
  /\ marked' = [marked EXCEPT ![p] = pos[p]]
  /\ Goto(p, "loop")
  /\ UNCHANGED <<next, log, session, pos, committed, bufferVars, faults>>

\* Mutants: the loop has no timeout; it returns without flushAndExit.
MutEnds(p) == session = "closing"
MutAfterLoop == "done"

\* The channel is closed, or nothing came for 10 seconds.
Ends(p) == session = "closing" \/ pos[p] = Len(log[p])
AfterLoop == "exit"

LeaveLoop(p) ==
  /\ claim[p] = "loop"
  /\ Ends(p)
  /\ Goto(p, AfterLoop)
  /\ UNCHANGED <<next, log, session, pos, marked, committed, bufferVars, faults>>

\* Mutants: the buffer is reset before it is taken; it is not reset.
MutTaken == <<>>
MutLeft == pending

\* What flushAndExit takes of the buffer, and what it leaves.
Taken == pending
Left == <<>>

\* It takes what is buffered, whichever claim received it.
TakeRest(p) ==
  /\ claim[p] = "exit"
  /\ batch' = [batch EXCEPT ![p] = Taken]
  /\ pending' = Left
  /\ Goto(p, "leaving")
  /\ UNCHANGED <<next, log, session, pos, marked, committed, inserted, lost, wiped, faults>>

\* ConsumeClaim returns, and the first to return ends the session.
FlushRest(p) ==
  /\ claim[p] = "leaving"
  /\ Flush(batch[p])
  /\ batch' = [batch EXCEPT ![p] = <<>>]
  /\ Goto(p, "done")
  /\ session' = "closing"
  /\ UNCHANGED <<next, log, pos, marked, committed, pending, wiped>>

Claims == {claim[p] : p \in Partition}

\* Cleanup inserts what is left in the buffer; then the marked offsets are
\* committed, if the broker answers.
CloseSession ==
  /\ session = "closing"
  /\ Claims \subseteq {"done"}
  /\ session' = "none"
  /\ pending' = <<>>
  /\ \/ Flush(pending) /\ committed' = marked
     \/ Fault /\ Insert(pending) /\ UNCHANGED committed
  /\ UNCHANGED <<next, log, claim, pos, marked, batch, wiped>>

\* The process dies with what it has buffered, and the upload ends.
Buffered == Range(pending) \cup UNION {Range(batch[p]) : p \in Partition}

Crash ==
  /\ Fault
  /\ next' = FileSize + 1
  /\ session' = "none"
  /\ claim' = [p \in Partition |-> "done"]
  /\ pos' = committed
  /\ marked' = committed
  /\ pending' = <<>>
  /\ batch' = [p \in Partition |-> <<>>]
  /\ lost' = lost \cup Buffered
  /\ UNCHANGED <<log, committed, inserted, wiped>>
-----------------------------------------------------------------------------
Zero == [p \in Partition |-> 0]

Init ==
  /\ next = 1
  /\ log = [p \in Partition |-> <<>>]
  /\ session = "none"
  /\ claim = [p \in Partition |-> "done"]
  /\ pos = Zero
  /\ marked = Zero
  /\ committed = Zero
  /\ pending = <<>>
  /\ batch = [p \in Partition |-> <<>>]
  /\ inserted = [s \in Student |-> 0]
  /\ lost = {}
  /\ wiped = {}
  /\ faults = 0

\* What the goroutine of a claim does.
Handle(p) ==
  \/ StartClaim(p) \/ SkipClaim(p) \/ Receive(p) \/ FlushFull(p)
  \/ MarkMessage(p) \/ LeaveLoop(p) \/ TakeRest(p) \/ FlushRest(p)

Next ==
  \/ SendRow
  \/ ForeignRecord
  \/ OpenSession \/ Rebalance \/ CloseSession
  \/ \E p \in Partition : Handle(p) \/ AutoCommit(p)
  \/ Crash

\* The goroutines keep running, and StartConsumer's loop opens sessions.  A
\* claim with nothing to read waits ten seconds before it ends the session of
\* all, so some session starts each claim and lets it receive what is there.
Fairness ==
  /\ WF_vars(OpenSession)
  /\ WF_vars(CloseSession)
  /\ \A p \in Partition :
       WF_vars(Handle(p)) /\ SF_vars(StartClaim(p)) /\ SF_vars(Receive(p))

Spec == Init /\ [][Next]_vars /\ Fairness
-----------------------------------------------------------------------------
TypeOK ==
  /\ next \in 1..(FileSize + 1)
  /\ log \in [Partition -> Seq(Student \cup {Garbage})]
  /\ session \in {"none", "running", "closing"}
  /\ claim \in [Partition -> {"waiting", "loop", "flush", "mark", "exit",
                              "leaving", "done"}]
  /\ pos \in [Partition -> Nat]
  /\ marked \in [Partition -> Nat]
  /\ committed \in [Partition -> Nat]
  /\ pending \in Seq(Student)
  /\ batch \in [Partition -> Seq(Student)]
  /\ inserted \in [Student -> Nat]
  /\ lost \subseteq Student
  /\ wiped \subseteq Student
  /\ faults \in Nat

\* A student whose record is marked is in the table or on the way there,
\* unless its batch failed, the process died with it in the buffer, or a claim
\* that started late replaced the buffer it was in.
NothingVanishes ==
  \A p \in Partition : \A k \in 1..marked[p] :
    log[p][k] \in Student =>
      inserted[log[p][k]] > 0 \/ log[p][k] \in Buffered \cup lost \cup wiped

\* The mutex protects the buffer the claims share: a claim that starts does
\* not throw away what another has received.
NothingWiped == wiped = {}

\* A student is inserted no more often than its record was written, as long
\* as nothing fails: sessions that end after ten quiet seconds, however often
\* they do, repeat no record.
NoRepeatedRows ==
  faults = 0 =>
    \A s \in Student :
      inserted[s] <= Cardinality({pk \in Partition \X (1..FileSize) :
                                    /\ pk[2] <= Len(log[pk[1]])
                                    /\ log[pk[1]][pk[2]] = s})

\* A student the database refuses takes no more than one batch with it, and
\* without one nothing is lost, however the claims fill the buffer they share.
LossIsBounded ==
  faults = 0 => Cardinality(lost) <= BatchSize * Cardinality(lost \cap Refused)

\* When the session is cleaned up the buffer is empty: the claims have
\* already inserted what Cleanup is there to save.
CleanupFindsNothing ==
  session = "closing" /\ Claims \subseteq {"done"} => pending = <<>>

\* Every row of the upload whose record is written, the rows counted as sent
\* among them, becomes a student when nothing fails, no claim replaces the
\* buffer it is in and no row of its batch is refused.
EveryRowImported ==
  <>[](faults = 0 => \A s \in Student :
         s \in Range(log[Hash[s]]) => inserted[s] > 0 \/ s \in wiped \cup lost)
=============================================================================
