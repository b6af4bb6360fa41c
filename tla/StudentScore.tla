---------------------------- MODULE StudentScore ----------------------------
(***************************************************************************)
(* One row of the student table and the requests that read it and write it *)
(* back: AddStudentScoreWithOptimisticLock, ...WithPessimisticLock,        *)
(* UpdateStudent and DeleteStudent.  Every handler runs in a goroutine of  *)
(* its own; MySQL (InnoDB, REPEATABLE READ) serialises writers of the row  *)
(* by its row lock, and a plain SELECT reads the committed row without it. *)
(***************************************************************************)
EXTENDS Integers

CONSTANTS
  Optimist,     \* requests to AddStudentScoreWithOptimisticLock
  Pessimist,    \* requests to AddStudentScoreWithPessimisticLock
  Updater,      \* requests to UpdateStudent
  Deleter,      \* requests to DeleteStudent
  AddScore,     \* the points a request adds (an updater: the score it sets)
  InitScore,    \* the score of the row at the start
  MaxTry,       \* maxRetry of the optimistic loop, 3
  MaxFaults,    \* bound: statements that fail, commits and lost replies
  NoOne         \* the row is not locked

Adder == Optimist \cup Pessimist
Writer == Pessimist \cup Updater \cup Deleter
Req == Adder \cup Updater \cup Deleter

ASSUME InitScoreAssumption == InitScore \in Nat
ASSUME AddScoreAssumption == AddScore \in [Req -> Int]
ASSUME UpdaterAssumption == \A r \in Updater : AddScore[r] >= 0
ASSUME MaxTryAssumption == MaxTry \in Nat \ {0}
ASSUME MaxFaultsAssumption == MaxFaults \in Nat
ASSUME NoOneAssumption == NoOne \notin Req
ASSUME KindsAssumption ==
  /\ Optimist \cap Writer = {}
  /\ Pessimist \cap (Updater \cup Deleter) = {}
  /\ Updater \cap Deleter = {}

VARIABLES
  row,       \* the committed row
  lock,      \* the transaction that holds the row lock
  draft,     \* what that transaction has written
  stage,     \* progress of a request
  read,      \* the row as the request read it
  tries,     \* failed rounds of an optimistic request
  credited,  \* history: requests whose change of the row is durable
  first,     \* history: the version an optimistic request read first
  faults     \* faults so far

rowVars == <<row, lock, draft>>
vars == <<row, lock, draft, stage, read, tries, credited, first, faults>>

Rows == [score : Int, version : Nat, live : BOOLEAN]
Stages == {"idle", "read", "retry", "written", "ok", "conflict", "err"}

Goto(r, s) == stage' = [stage EXCEPT ![r] = s]

InitRow == [score |-> InitScore, version |-> 0, live |-> TRUE]

\* What a request has read is gone when it returns or starts another round,
\* and what a transaction has written when it ends.
Forget(r) == read' = [read EXCEPT ![r] = InitRow]
NoDraft == InitRow

Fault == faults < MaxFaults /\ faults' = faults + 1

\* Mutant: a failing handler returns without Rollback.
MutGiveBack(r) == UNCHANGED <<lock, draft>>

\* Rollback, if the request has a transaction.
GiveBack(r) ==
  IF lock = r THEN lock' = NoOne /\ draft' = NoDraft ELSE UNCHANGED <<lock, draft>>

\* The request fails; gorm rolls its transaction back.
Fail(r) ==
  /\ Goto(r, "err")
  /\ Forget(r)
  /\ GiveBack(r)
  /\ UNCHANGED <<row, tries, credited, first>>
-----------------------------------------------------------------------------
(* Reading                                                                 *)

\* First(&student, id): a soft-deleted row is not found, a query may fail.
\* GetStudentByIDForUpdate sets "gorm:query_option" to "FOR UPDATE", a setting
\* that gorm 1.31 does not know: this read takes no lock either.
ReadRow(r) ==
  /\ stage[r] \in {"idle", "retry"}
  /\ \/ /\ row.live
        /\ read' = [read EXCEPT ![r] = row]
        /\ Goto(r, "read")
        /\ first' = IF stage[r] = "idle" THEN [first EXCEPT ![r] = row.version]
                    ELSE first
        /\ UNCHANGED <<rowVars, tries, credited>>
        /\ UNCHANGED faults
     \/ ~row.live /\ Fail(r) /\ UNCHANGED faults
     \/ Fault /\ Fail(r)
-----------------------------------------------------------------------------
(* AddStudentScoreWithOptimisticLock                                       *)

\* Mutant: WHERE id=? only.
MutVersionMatches(r) == row.live

\* WHERE id=? AND version=?, and gorm adds deleted_at IS NULL.
VersionMatches(r) == row.live /\ row.version = read[r].version

NewScore(r) == read[r].score + AddScore[r]

\* The handler answers; the reply to its last statement can be lost.
Answer(r) ==
  /\ \/ Goto(r, "ok") /\ UNCHANGED faults
     \/ Goto(r, "err") /\ Fault
  /\ Forget(r)

\* One UPDATE sets score and version; it waits for the row lock.
UpdateScoreByVersion(r) ==
  /\ stage[r] = "read"
  /\ r \in Optimist
  /\ NewScore(r) >= 0
  /\ lock = NoOne
  /\ VersionMatches(r)
  /\ row' = [row EXCEPT !.score = NewScore(r), !.version = read[r].version + 1]
  /\ credited' = credited \cup {r}
  /\ Answer(r)
  /\ UNCHANGED <<lock, draft, tries, first>>

\* Mutants: the loop makes a round less; RowsAffected is ignored.
MutOneRoundLess(r) == IF tries[r] + 2 < MaxTry THEN "retry" ELSE "conflict"
MutRowsIgnored(r) == "ok"

\* The loop makes MaxTry rounds in all.
AfterConflict(r) == IF tries[r] + 1 < MaxTry THEN "retry" ELSE "conflict"

\* RowsAffected = 0: sleep and read again.
VersionConflict(r) ==
  /\ stage[r] = "read"
  /\ r \in Optimist
  /\ NewScore(r) >= 0
  /\ lock = NoOne
  /\ ~VersionMatches(r)
  /\ tries' = [tries EXCEPT ![r] = @ + 1]
  /\ Goto(r, AfterConflict(r))
  /\ Forget(r)
  /\ UNCHANGED <<rowVars, credited, first, faults>>

\* newScore < 0, or the UPDATE fails without effect.
RefuseAddition(r) ==
  /\ stage[r] = "read"
  /\ r \in Optimist
  /\ Fail(r)
  /\ \/ NewScore(r) < 0 /\ UNCHANGED faults
     \/ Fault
-----------------------------------------------------------------------------
(* The transactions: Save, Updates with a struct, Delete, then Commit      *)

\* Mutant: the check for a negative score is gone.
MutMayWrite(r) == TRUE

\* The checks between the read and the write.
MayWrite(r) == r \in Pessimist => NewScore(r) >= 0

\* Save writes every column as it was read, and inserts or overwrites the row
\* if its UPDATE affects none; a soft-deleted row is live again.
Saved(r) == [read[r] EXCEPT !.score = NewScore(r)]

\* Mutant: UpdateStudent saves the struct it read, as an earlier version did.
MutUpdated(r) == [read[r] EXCEPT !.score = AddScore[r]]

\* Updates with a struct writes its non-zero fields, the version that was
\* read among them, to the row if it is not soft-deleted.
Updated(r) ==
  IF ~row.live THEN row
  ELSE [row EXCEPT
         !.score = IF AddScore[r] # 0 THEN AddScore[r] ELSE @,
         !.version = IF read[r].version # 0 THEN read[r].version ELSE @]

Deleted(r) == [row EXCEPT !.live = FALSE]

\* The write waits for the row lock and keeps it until the end of the
\* transaction; it sees the committed row, which may not be the one read.
Write(r) ==
  /\ stage[r] = "read"
  /\ r \in Writer
  /\ \/ /\ MayWrite(r)
        /\ lock = NoOne
        /\ lock' = r
        /\ draft' = CASE r \in Pessimist -> Saved(r)
                      [] r \in Updater -> Updated(r)
                      [] r \in Deleter -> Deleted(r)
        /\ Goto(r, "written")
        /\ UNCHANGED <<row, read, tries, credited, first, faults>>
     \/ ~MayWrite(r) /\ Fail(r) /\ UNCHANGED faults
     \/ Fault /\ Fail(r)

\* Save always has its row; the others affect none that is soft-deleted, and
\* the handler does not look whether they did.
AffectsRow(r) == r \in Pessimist \/ row.live

\* Commit: done, failed, or done with the reply lost.
Commit(r) ==
  /\ stage[r] = "written"
  /\ \/ /\ row' = draft
        /\ credited' = IF AffectsRow(r) THEN credited \cup {r} ELSE credited
        /\ lock' = NoOne
        /\ draft' = NoDraft
        /\ Answer(r)
        /\ UNCHANGED <<tries, first>>
     \/ Fault /\ Fail(r)
-----------------------------------------------------------------------------
Init ==
  /\ row = InitRow
  /\ lock = NoOne
  /\ draft = NoDraft
  /\ stage = [r \in Req |-> "idle"]
  /\ read = [r \in Req |-> InitRow]
  /\ tries = [r \in Req |-> 0]
  /\ credited = {}
  /\ first = [r \in Req |-> 0]
  /\ faults = 0

Step(r) ==
  \/ ReadRow(r)
  \/ UpdateScoreByVersion(r) \/ VersionConflict(r) \/ RefuseAddition(r)
  \/ Write(r) \/ Commit(r)

Next == \E r \in Req : Step(r)

Spec == Init /\ [][Next]_vars
-----------------------------------------------------------------------------
TypeOK ==
  /\ row \in Rows
  /\ draft \in Rows
  /\ lock \in Req \cup {NoOne}
  /\ stage \in [Req -> Stages]
  /\ read \in [Req -> Rows]
  /\ tries \in [Req -> 0..MaxTry]
  /\ credited \subseteq Req
  /\ first \in [Req -> Nat]
  /\ faults \in Nat

\* The optimistic additions implement the account: none is lost, doubled or
\* takes the score below zero, however the reads and writes interleave and
\* whichever replies are lost, until another kind of request writes the row.
Account == INSTANCE ScoreAccount WITH Req <- Optimist, Other <- Writer,
                                      score <- row.score, done <- credited
AccountSpec == Account!Spec

\* "Too many conflicts" is said only after MaxTry other additions went
\* through since the request began, unless another kind of request took the
\* version back: somebody else always made progress.
ConflictMeansProgress ==
  credited \cap Writer = {} =>
    \A r \in Optimist :
      stage[r] = "conflict" => row.version >= first[r] + MaxTry

\* A success is reported only for a change that is durable, with one
\* exception: an update or a deletion whose student somebody else deleted
\* after it was read changes nothing and is reported all the same.
DeletedByOther(r) == \E d \in Deleter \ {r} : d \in credited

OkMeansCredited ==
  \A r \in Req :
    stage[r] = "ok" /\ r \notin credited
      => r \in Updater \cup Deleter /\ DeletedByOther(r)

\* A score read FOR UPDATE is current until the transaction writes it back.
ReadForUpdateIsCurrent ==
  \A r \in Pessimist : stage[r] = "read" => read[r] = row

\* Subtractions never take the score below zero: what is checked is what is
\* written, whatever happens to the row in between.
ScoreNeverNegative == row.score >= 0

\* A deleted student stays deleted: UpdateStudent and the optimistic update
\* skip a soft-deleted row, also when they read it before it was deleted.  Only
\* Save in a pessimistic addition that read the row alive brings it back.
StaysDeleted ==
  [][~row.live /\ row'.live
       => \E r \in Pessimist : stage[r] = "written" /\ read[r].live /\ r \in credited']_vars

\* Whichever way a handler returns, it gives the row lock back.
NoLeakedLock == lock # NoOne => stage[lock] = "written"
=============================================================================
