------------------------- MODULE StudentScoreProofs -------------------------
(***************************************************************************)
(* Proofs about the requests to one row, any number of them and of every   *)
(* kind.  The score is never negative, no lock is kept, a success is       *)
(* durable or explained by a deletion, and only Save brings a deleted      *)
(* student back.  Until a transaction overwrites the row, the optimistic   *)
(* additions implement ScoreAccount, and one of them gives up only after   *)
(* MaxTry others got through.                                              *)
(***************************************************************************)
EXTENDS StudentScore, TLAPS

\* A fresh row is a row.
LEMMA InitRowType == InitRow \in Rows
  BY InitScoreAssumption DEF InitRow, Rows
-----------------------------------------------------------------------------
(* The invariant of all mixtures of requests.                              *)

\* The row lock is held by the one request that has written.
LockIsWriters ==
  /\ lock # NoOne => lock \in Writer /\ stage[lock] = "written"
  /\ \A r \in Req : stage[r] = "written" => lock = r

\* A round is left, while a request is at work.
RoundsLeft == \A r \in Req : stage[r] \in {"idle", "read", "retry"} => tries[r] < MaxTry

\* What is at work is not durable yet.
UnfinishedNotCredited ==
  \A r \in Req : stage[r] \in {"idle", "read", "retry", "written"} => r \notin credited

\* Neither the row nor what may become the row is negative.
NothingNegative == row.score >= 0 /\ (lock # NoOne => draft.score >= 0)

\* A deleted row was deleted by a deletion that is durable, and only deletions
\* and those who saw it deleted are about to leave it so.
GoneByDeletion ==
  /\ ~row.live => \E d \in Deleter : d \in credited
  /\ lock # NoOne /\ ~draft.live => lock \in Deleter \/ ~row.live
  /\ lock # NoOne /\ draft.live => lock \in Pessimist \/ row.live

\* Rows are read alive.
ReadAlive == \A r \in Req : stage[r] \in {"read", "written"} => read[r].live

MixedInv ==
  /\ TypeOK
  /\ LockIsWriters
  /\ RoundsLeft
  /\ UnfinishedNotCredited
  /\ NothingNegative
  /\ GoneByDeletion
  /\ ReadAlive
  /\ OkMeansCredited

\* The start.
LEMMA MixedInit == ASSUME Init PROVE MixedInv
  BY InitScoreAssumption, MaxTryAssumption
     DEF Init, InitRow, NoDraft, Rows, Stages, MixedInv, TypeOK, LockIsWriters, RoundsLeft,
         UnfinishedNotCredited, NothingNegative, GoneByDeletion, ReadAlive, OkMeansCredited

\* What the type invariant says of the variables that are functions of Req.
LEMMA MixedTypes ==
  ASSUME MixedInv
  PROVE  /\ row \in Rows /\ draft \in Rows /\ InitRow \in Rows /\ row.version \in Nat
         /\ stage \in [Req -> Stages] /\ read \in [Req -> Rows]
         /\ tries \in [Req -> 0..MaxTry] /\ first \in [Req -> Nat]
         /\ credited \subseteq Req /\ lock \in Req \cup {NoOne} /\ faults \in Nat
  BY InitRowType DEF MixedInv, TypeOK, Rows

\* A failing request changes nothing and frees the row.
LEMMA MixedFail ==
  ASSUME MixedInv, NEW r \in Req, Fail(r), Fault \/ UNCHANGED faults
  PROVE  MixedInv' /\ row' = row
<1> USE MixedTypes
<1>1. /\ UNCHANGED <<row, tries, credited, first>>
      /\ stage' \in [Req -> Stages] /\ read' \in [Req -> Rows]
      /\ stage'[r] = "err"
      /\ \A q \in Req \ {r} : stage'[q] = stage[q] /\ read'[q] = read[q]
      /\ faults' \in Nat
  BY DEF Fail, Forget, Goto, Fault, Stages
<1>2. \/ lock = r /\ lock' = NoOne /\ draft' = InitRow
      \/ lock # r /\ lock' = lock /\ draft' = draft
  BY DEF Fail, GiveBack, NoDraft
<1>3. TypeOK'
  BY <1>1, <1>2 DEF TypeOK
<1>4. LockIsWriters'
  BY <1>1, <1>2 DEF MixedInv, LockIsWriters, Writer, Req, Adder
<1>5. RoundsLeft' /\ UnfinishedNotCredited' /\ ReadAlive' /\ OkMeansCredited'
  BY <1>1 DEF MixedInv, RoundsLeft, UnfinishedNotCredited, ReadAlive, OkMeansCredited,
     DeletedByOther
<1>6. NothingNegative' /\ GoneByDeletion'
  BY <1>1, <1>2 DEF MixedInv, NothingNegative, GoneByDeletion
<1> QED
  BY <1>1, <1>3, <1>4, <1>5, <1>6 DEF MixedInv

\* A read takes what is committed.
LEMMA MixedRead ==
  ASSUME MixedInv, NEW r \in Req, ReadRow(r)
  PROVE  MixedInv' /\ row' = row
<1> USE MixedTypes
<1>1. CASE Fail(r) /\ (Fault \/ UNCHANGED faults)
  BY <1>1, MixedFail
<1>2. CASE ~(Fail(r) /\ (Fault \/ UNCHANGED faults))
  <2>1. /\ stage[r] \in {"idle", "retry"} /\ row.live
        /\ UNCHANGED <<row, lock, draft, tries, credited, faults>>
        /\ first' \in [Req -> Nat]
        /\ stage' \in [Req -> Stages] /\ read' \in [Req -> Rows]
        /\ stage'[r] = "read" /\ read'[r] = row
        /\ \A q \in Req \ {r} : stage'[q] = stage[q] /\ read'[q] = read[q]
    BY <1>2 DEF ReadRow, Goto, rowVars, Stages
  <2>2. TypeOK'
    BY <2>1 DEF TypeOK
  <2>3. LockIsWriters'
    BY <2>1 DEF MixedInv, LockIsWriters, Writer, Req, Adder
  <2>4. RoundsLeft' /\ UnfinishedNotCredited' /\ ReadAlive' /\ OkMeansCredited'
    BY <2>1 DEF MixedInv, RoundsLeft, UnfinishedNotCredited, ReadAlive, OkMeansCredited,
       DeletedByOther
  <2>5. NothingNegative' /\ GoneByDeletion'
    BY <2>1 DEF MixedInv, NothingNegative, GoneByDeletion
  <2> QED
    BY <2>1, <2>2, <2>3, <2>4, <2>5 DEF MixedInv
<1> QED
  BY <1>1, <1>2

\* The optimistic update writes a live, free row.
LEMMA MixedUpdate ==
  ASSUME MixedInv, NEW r \in Req, UpdateScoreByVersion(r)
  PROVE  MixedInv' /\ row'.live = row.live
<1> USE MixedTypes
<1>1. /\ r \in Optimist /\ lock = NoOne /\ row.live /\ NewScore(r) >= 0
      /\ read[r].version = row.version
      /\ credited' = credited \cup {r}
      /\ UNCHANGED <<lock, draft, tries, first>>
      /\ stage' \in [Req -> Stages] /\ read' \in [Req -> Rows]
      /\ stage'[r] \in {"ok", "err"}
      /\ \A q \in Req \ {r} : stage'[q] = stage[q] /\ read'[q] = read[q]
      /\ faults' \in Nat
  BY DEF UpdateScoreByVersion, VersionMatches, Answer, Goto, Forget, Fault, Stages
<1>2. row' \in Rows /\ row'.score >= 0 /\ row'.live = row.live
  <2>1. NewScore(r) \in Int
    BY AddScoreAssumption DEF NewScore, Rows
  <2>2. row = [score |-> row.score, version |-> row.version, live |-> row.live]
    BY DEF Rows
  <2>3. row' = [score |-> NewScore(r), version |-> row.version + 1, live |-> row.live]
    BY <1>1, <2>2 DEF UpdateScoreByVersion
  <2> HIDE DEF NewScore
  <2> QED
    BY <1>1, <2>1, <2>3 DEF Rows
<1>3. TypeOK'
  BY <1>1, <1>2 DEF TypeOK
<1>4. LockIsWriters' /\ RoundsLeft' /\ UnfinishedNotCredited' /\ ReadAlive'
  BY <1>1 DEF MixedInv, LockIsWriters, RoundsLeft, UnfinishedNotCredited, ReadAlive
<1>5. OkMeansCredited'
  BY <1>1 DEF MixedInv, OkMeansCredited, DeletedByOther
<1>6. NothingNegative' /\ GoneByDeletion'
  BY <1>1, <1>2 DEF MixedInv, NothingNegative, GoneByDeletion
<1> QED
  BY <1>2, <1>3, <1>4, <1>5, <1>6 DEF MixedInv

\* A lost round costs one of MaxTry.
LEMMA MixedConflict ==
  ASSUME MixedInv, NEW r \in Req, VersionConflict(r)
  PROVE  MixedInv' /\ row' = row
<1> USE MixedTypes
<1>1. stage[r] = "read" /\ tries[r] < MaxTry /\ MaxTry \in Nat
  BY MaxTryAssumption DEF VersionConflict, MixedInv, RoundsLeft
<1>2. /\ UNCHANGED <<row, lock, draft, credited, first, faults>>
      /\ lock = NoOne
      /\ tries' \in [Req -> 0..MaxTry] /\ tries'[r] = tries[r] + 1
      /\ stage' \in [Req -> Stages] /\ read' \in [Req -> Rows]
      /\ stage'[r] = IF tries[r] + 1 < MaxTry THEN "retry" ELSE "conflict"
      /\ \A q \in Req \ {r} :
           stage'[q] = stage[q] /\ read'[q] = read[q] /\ tries'[q] = tries[q]
  BY <1>1 DEF VersionConflict, AfterConflict, Goto, Forget, rowVars, Stages
<1>3. TypeOK'
  BY <1>2 DEF TypeOK
<1>4. RoundsLeft'
  BY <1>2 DEF MixedInv, RoundsLeft
<1>5. LockIsWriters' /\ UnfinishedNotCredited' /\ ReadAlive' /\ OkMeansCredited'
  BY <1>1, <1>2 DEF MixedInv, LockIsWriters, UnfinishedNotCredited, ReadAlive,
     OkMeansCredited, DeletedByOther
<1>6. NothingNegative' /\ GoneByDeletion'
  BY <1>2 DEF MixedInv, NothingNegative, GoneByDeletion
<1> QED
  BY <1>2, <1>3, <1>4, <1>5, <1>6 DEF MixedInv

\* What each kind of writer is about to commit: a row of its type that is not
\* negative, and dead only after a deletion.
LEMMA DraftIsGood ==
  ASSUME MixedInv, NEW r \in Writer, stage[r] = "read", MayWrite(r),
         NEW d, \/ r \in Pessimist /\ d = Saved(r)
                \/ r \in Updater /\ d = Updated(r)
                \/ r \in Deleter /\ d = Deleted(r)
  PROVE  /\ d \in Rows /\ d.score >= 0
         /\ ~d.live => r \in Deleter \/ ~row.live
         /\ d.live => r \in Pessimist \/ row.live
<1> USE MixedTypes
<1>1. r \in Req /\ read[r] \in Rows /\ read[r].live /\ row.score >= 0 /\ AddScore[r] \in Int
  BY AddScoreAssumption DEF Writer, Req, Adder, MixedInv, ReadAlive, NothingNegative
<1>2. /\ row = [score |-> row.score, version |-> row.version, live |-> row.live]
      /\ read[r] = [score |-> read[r].score, version |-> read[r].version, live |-> read[r].live]
  BY <1>1 DEF Rows
<1>3. CASE r \in Pessimist /\ d = Saved(r)
  <2>1. d = [score |-> NewScore(r), version |-> read[r].version, live |-> read[r].live]
    BY <1>2, <1>3 DEF Saved
  <2>2. NewScore(r) \in Int /\ NewScore(r) >= 0
    BY <1>1, <1>3 DEF NewScore, MayWrite, Rows
  <2> HIDE DEF NewScore
  <2> QED
    BY <1>1, <1>3, <2>1, <2>2 DEF Rows
<1>4. CASE r \in Updater /\ d = Updated(r)
  <2>1. d = Updated(r) /\ AddScore[r] >= 0
    BY <1>4, UpdaterAssumption
  <2>2. CASE ~row.live
    BY <1>1, <2>1, <2>2 DEF Updated
  <2>3. CASE row.live
    <3> DEFINE s == IF AddScore[r] # 0 THEN AddScore[r] ELSE row.score
               v == IF read[r].version # 0 THEN read[r].version ELSE row.version
    <3>1. d = [row EXCEPT !.score = s, !.version = v]
      BY <2>1, <2>3 DEF Updated
    <3>2. s \in Int /\ s >= 0 /\ v \in Nat
      BY <1>1, <2>1 DEF Rows
    <3> HIDE DEF s, v
    <3>3. d = [score |-> s, version |-> v, live |-> row.live]
      BY <1>2, <3>1
    <3> QED
      BY <2>3, <3>2, <3>3 DEF Rows
  <2> QED
    BY <2>2, <2>3
<1>5. CASE r \in Deleter /\ d = Deleted(r)
  <2>1. d = [score |-> row.score, version |-> row.version, live |-> FALSE]
    BY <1>2, <1>5 DEF Deleted
  <2> QED
    BY <1>1, <1>5, <2>1 DEF Rows
<1> QED
  BY <1>3, <1>4, <1>5 DEF Writer

\* A write takes the free row.
LEMMA MixedWrite ==
  ASSUME MixedInv, NEW r \in Req, Write(r)
  PROVE  MixedInv' /\ row' = row
<1> USE MixedTypes
<1>1. CASE Fail(r) /\ (Fault \/ UNCHANGED faults)
  BY <1>1, MixedFail
<1>2. CASE ~(Fail(r) /\ (Fault \/ UNCHANGED faults))
  <2>1. /\ r \in Writer /\ stage[r] = "read" /\ MayWrite(r)
        /\ lock = NoOne /\ lock' = r
        /\ \/ r \in Pessimist /\ draft' = Saved(r)
           \/ r \in Updater /\ draft' = Updated(r)
           \/ r \in Deleter /\ draft' = Deleted(r)
        /\ UNCHANGED <<row, read, tries, credited, first, faults>>
        /\ stage' \in [Req -> Stages] /\ stage'[r] = "written"
        /\ \A q \in Req \ {r} : stage'[q] = stage[q]
    BY <1>2, KindsAssumption DEF Write, Writer, Goto, Stages
  <2>2. /\ draft' \in Rows /\ draft'.score >= 0
        /\ ~draft'.live => r \in Deleter \/ ~row.live
        /\ draft'.live => r \in Pessimist \/ row.live
    BY <2>1, DraftIsGood
  <2>3. TypeOK'
    BY <2>1, <2>2 DEF TypeOK
  <2>4. LockIsWriters'
    BY <2>1, NoOneAssumption DEF MixedInv, LockIsWriters
  <2>5. RoundsLeft' /\ UnfinishedNotCredited' /\ ReadAlive' /\ OkMeansCredited'
    BY <2>1 DEF MixedInv, RoundsLeft, UnfinishedNotCredited, ReadAlive, OkMeansCredited,
       DeletedByOther
  <2>6. NothingNegative' /\ GoneByDeletion'
    BY <2>1, <2>2 DEF MixedInv, NothingNegative, GoneByDeletion
  <2> QED
    BY <2>1, <2>3, <2>4, <2>5, <2>6 DEF MixedInv
<1> QED
  BY <1>1, <1>2

\* A commit makes the draft the row.  Nobody wrote since the draft was made,
\* so an update or a deletion without effect met a row that another deletion
\* had marked; and only Save makes a deleted row live.
LEMMA MixedCommit ==
  ASSUME MixedInv, NEW r \in Req, Commit(r)
  PROVE  /\ MixedInv'
         /\ ~row.live /\ row'.live
              => stage[r] = "written" /\ r \in Pessimist /\ read[r].live /\ r \in credited'
<1> USE MixedTypes
<1>1. CASE Fail(r) /\ (Fault \/ UNCHANGED faults)
  BY <1>1, MixedFail
<1>2. CASE ~(Fail(r) /\ (Fault \/ UNCHANGED faults))
  <2>1. /\ stage[r] = "written" /\ row' = draft
        /\ credited' = IF AffectsRow(r) THEN credited \cup {r} ELSE credited
        /\ lock' = NoOne /\ draft' = InitRow
        /\ UNCHANGED <<tries, first>>
        /\ stage' \in [Req -> Stages] /\ read' \in [Req -> Rows]
        /\ stage'[r] \in {"ok", "err"}
        /\ \A q \in Req \ {r} : stage'[q] = stage[q] /\ read'[q] = read[q]
        /\ faults' \in Nat
    BY <1>2 DEF Commit, Answer, Goto, Forget, NoDraft, Fault, Stages
  <2>2. /\ lock = r /\ r \in Writer /\ r # NoOne /\ r \notin credited /\ read[r].live
        /\ \A q \in Req \ {r} : stage[q] # "written"
    BY <2>1, NoOneAssumption DEF MixedInv, LockIsWriters, UnfinishedNotCredited, ReadAlive
  <2>3. TypeOK'
    BY <2>1 DEF TypeOK
  <2>4. LockIsWriters' /\ RoundsLeft' /\ UnfinishedNotCredited' /\ ReadAlive'
    BY <2>1, <2>2 DEF MixedInv, LockIsWriters, RoundsLeft, UnfinishedNotCredited, ReadAlive
  <2>5. OkMeansCredited'
    <3>1. r \notin credited' => r \in Updater \cup Deleter /\ DeletedByOther(r)'
      BY <2>1, <2>2 DEF AffectsRow, Writer, MixedInv, GoneByDeletion, DeletedByOther
    <3>2. ASSUME NEW q \in Req \ {r}, stage'[q] = "ok", q \notin credited'
          PROVE  q \in Updater \cup Deleter /\ DeletedByOther(q)'
      BY <2>1, <3>2 DEF MixedInv, OkMeansCredited, DeletedByOther
    <3> QED
      BY <3>1, <3>2 DEF OkMeansCredited
  <2>6. NothingNegative' /\ GoneByDeletion'
    <3>1. row'.score >= 0
      BY <2>1, <2>2 DEF MixedInv, NothingNegative
    <3>2. ~row'.live => \E d \in Deleter : d \in credited'
      BY <2>1, <2>2 DEF AffectsRow, MixedInv, GoneByDeletion
    <3> QED
      BY <2>1, <3>1, <3>2 DEF NothingNegative, GoneByDeletion
  <2>7. ~row.live /\ row'.live => r \in Pessimist /\ r \in credited'
    BY <2>1, <2>2 DEF AffectsRow, MixedInv, GoneByDeletion
  <2> QED
    BY <2>1, <2>2, <2>3, <2>4, <2>5, <2>6, <2>7 DEF MixedInv
<1> QED
  BY <1>1, <1>2

\* The body of StaysDeleted.
RevivedBySave ==
  ~row.live /\ row'.live
    => \E r \in Pessimist : stage[r] = "written" /\ read[r].live /\ r \in credited'

\* Every step preserves the invariant and revives no row but by Save.
LEMMA MixedStep == ASSUME MixedInv, [Next]_vars PROVE MixedInv' /\ RevivedBySave
<1>1. ASSUME NEW r \in Req, Step(r) PROVE MixedInv' /\ RevivedBySave
  <2>1. RefuseAddition(r) => MixedInv' /\ row' = row
    BY MixedFail DEF RefuseAddition
  <2>2. Commit(r) => MixedInv' /\ RevivedBySave
    BY MixedCommit DEF RevivedBySave
  <2> QED
    BY <1>1, <2>1, <2>2, MixedRead, MixedUpdate, MixedConflict, MixedWrite
       DEF Step, RevivedBySave
<1>2. CASE UNCHANGED vars
  BY <1>2 DEF vars, RevivedBySave, MixedInv, TypeOK, LockIsWriters, RoundsLeft,
     UnfinishedNotCredited, NothingNegative, GoneByDeletion, ReadAlive, OkMeansCredited,
     DeletedByOther
<1> QED
  BY <1>1, <1>2 DEF Next

\* The invariant holds for ever, and so does the action property.
LEMMA MixedInvariant == Spec => []MixedInv /\ [][RevivedBySave]_vars
<1>1. MixedInv /\ [Next]_vars => MixedInv' /\ [RevivedBySave]_vars
  BY MixedStep
<1> QED
  BY <1>1, MixedInit, PTL DEF Spec

\* The types, of requests of every kind: a request never makes more than
\* MaxTry rounds.
THEOREM ScoreTypes == Spec => []TypeOK
  BY MixedInvariant, PTL DEF MixedInv

\* A success is reported for a durable change only, or for an update or a
\* deletion of a student whom somebody else has deleted.
THEOREM SuccessIsDurable == Spec => []OkMeansCredited
  BY MixedInvariant, PTL DEF MixedInv

\* No mixture of requests takes the score below zero.
THEOREM NeverNegative == Spec => []ScoreNeverNegative
<1>1. MixedInv => ScoreNeverNegative
  BY DEF MixedInv, NothingNegative, ScoreNeverNegative
<1> QED
  BY <1>1, MixedInvariant, PTL

\* No handler keeps the row lock when it has returned.
THEOREM LockReturned == Spec => []NoLeakedLock
<1>1. MixedInv => NoLeakedLock
  BY DEF MixedInv, LockIsWriters, NoLeakedLock
<1> QED
  BY <1>1, MixedInvariant, PTL

\* Only Save of a pessimistic addition brings a deleted student back.
THEOREM DeletedStays == Spec => StaysDeleted
  BY MixedInvariant, PTL DEF StaysDeleted, RevivedBySave
-----------------------------------------------------------------------------
(* The optimistic additions, until a transaction overwrites the row: a     *)
(* compare-and-set on the version.                                         *)

\* No transaction has changed the row so far.
Unspoilt == credited \cap Writer = {}

\* A version stands for one score: what was read at the current version is
\* current.
VersionFixesScore ==
  \A r \in Req : stage[r] = "read" =>
    /\ read[r].version <= row.version
    /\ read[r].version = row.version => read[r].score = row.score

\* Each failed round saw a version newer than the one before.
RoundsSeeProgress ==
  \A r \in Req :
    /\ stage[r] = "read" => read[r].version >= first[r] + tries[r]
    /\ stage[r] = "retry" => row.version >= first[r] + tries[r]
    /\ stage[r] = "conflict" => row.version >= first[r] + MaxTry
    /\ stage[r] = "idle" => tries[r] = 0

AccountInv == MixedInv /\ (Unspoilt => VersionFixesScore /\ RoundsSeeProgress)

\* A step that leaves the row alone and moves one request to a stage of which
\* nothing is asked.
LEMMA Harmless ==
  ASSUME AccountInv, MixedInv', UNCHANGED <<row, tries, credited, first>>,
         NEW r \in Req, stage'[r] \in {"written", "ok", "err"},
         \A q \in Req \ {r} : stage'[q] = stage[q] /\ read'[q] = read[q]
  PROVE  AccountInv'
  BY DEF AccountInv, Unspoilt, VersionFixesScore, RoundsSeeProgress

\* A request that fails.
LEMMA AccountFail ==
  ASSUME AccountInv, NEW r \in Req, Fail(r), Fault \/ UNCHANGED faults
  PROVE  AccountInv' /\ row' = row /\ credited' = credited
<1>1. MixedInv /\ MixedInv'
  BY MixedFail DEF AccountInv
<1>2. /\ UNCHANGED <<row, tries, credited, first>>
      /\ stage'[r] = "err"
      /\ \A q \in Req \ {r} : stage'[q] = stage[q] /\ read'[q] = read[q]
  BY <1>1, MixedTypes DEF Fail, Forget, Goto
<1> QED
  BY <1>1, <1>2, Harmless

\* A read takes the version and the score together.
LEMMA AccountRead ==
  ASSUME AccountInv, NEW r \in Req, ReadRow(r)
  PROVE  AccountInv' /\ row' = row /\ credited' = credited
<1>1. CASE Fail(r) /\ (Fault \/ UNCHANGED faults)
  BY <1>1, AccountFail
<1>2. CASE ~(Fail(r) /\ (Fault \/ UNCHANGED faults))
  <2>1. MixedInv /\ MixedInv'
    BY MixedRead DEF AccountInv
  <2>2. /\ stage[r] \in {"idle", "retry"}
        /\ UNCHANGED <<row, tries, credited>>
        /\ stage'[r] = "read" /\ read'[r] = row
        /\ stage[r] = "idle" => first'[r] = row.version
        /\ stage[r] = "retry" => first'[r] = first[r]
        /\ \A q \in Req \ {r} :
             stage'[q] = stage[q] /\ read'[q] = read[q] /\ first'[q] = first[q]
    BY <1>2, <2>1, MixedTypes DEF ReadRow, Goto, rowVars
  <2>3. row.version \in Nat /\ tries[r] \in Nat
    BY <2>1, MixedTypes
  <2>4. ASSUME Unspoilt' PROVE VersionFixesScore' /\ RoundsSeeProgress'
    <3>1. VersionFixesScore /\ RoundsSeeProgress
      BY <2>2, <2>4 DEF AccountInv, Unspoilt
    <3>2. VersionFixesScore'
      BY <2>2, <2>3, <3>1 DEF VersionFixesScore
    <3>3. row.version >= first'[r] + tries[r]
      BY <2>2, <2>3, <3>1 DEF RoundsSeeProgress
    <3>4. RoundsSeeProgress'
      BY <2>2, <3>1, <3>3 DEF RoundsSeeProgress
    <3> QED
      BY <3>2, <3>4
  <2> QED
    BY <2>1, <2>2, <2>4 DEF AccountInv
<1> QED
  BY <1>1, <1>2

\* A successful round: before any transaction, the score it writes is the
\* current one plus its points; afterwards anything may be written.
LEMMA AccountUpdate ==
  ASSUME AccountInv, NEW r \in Req, UpdateScoreByVersion(r)
  PROVE  AccountInv' /\ Account!Next
<1> USE MixedTypes
<1>1. MixedInv /\ MixedInv'
  BY MixedUpdate DEF AccountInv
<1>2. /\ r \in Optimist /\ stage[r] = "read" /\ NewScore(r) >= 0
      /\ row.version = read[r].version
      /\ credited' = credited \cup {r}
      /\ UNCHANGED <<tries, first>>
      /\ stage'[r] \in {"ok", "err"}
      /\ \A q \in Req \ {r} : stage'[q] = stage[q] /\ read'[q] = read[q]
      /\ row'.score = NewScore(r) /\ row'.version = row.version + 1
  <2>1. row' = [row EXCEPT !.score = NewScore(r), !.version = read[r].version + 1]
    BY DEF UpdateScoreByVersion
  <2>2. row = [score |-> row.score, version |-> row.version, live |-> row.live]
    BY <1>1 DEF Rows
  <2>3. row' = [score |-> NewScore(r), version |-> read[r].version + 1, live |-> row.live]
    BY <2>1, <2>2
  <2>4. row'.score = NewScore(r) /\ row'.version = read[r].version + 1
    BY <2>3
  <2> QED
    BY <1>1, <2>4 DEF UpdateScoreByVersion, VersionMatches, Answer, Goto, Forget
<1>3. r \notin credited /\ r \notin Writer
  BY <1>1, <1>2, KindsAssumption DEF MixedInv, UnfinishedNotCredited
<1>4. /\ row'.score \in Int /\ credited' \subseteq Optimist \cup Writer
      /\ row.score \in Int /\ AddScore[r] \in Int
  <2>1. row'.score \in Int /\ credited' \subseteq Req
    BY <1>1 DEF MixedInv, TypeOK, Rows
  <2>2. row.score \in Int /\ AddScore[r] \in Int
    BY <1>1, AddScoreAssumption DEF Rows
  <2> QED
    BY <2>1, <2>2 DEF Req, Adder, Writer
<1>5. CASE Unspoilt
  <2>1. VersionFixesScore /\ RoundsSeeProgress
    BY <1>5 DEF AccountInv
  <2>2. NewScore(r) = row.score + AddScore[r]
    BY <1>2, <2>1 DEF VersionFixesScore, NewScore
  <2>3. Account!Add(r)
    <3> HIDE DEF NewScore
    <3> QED
      BY <1>2, <1>3, <2>2 DEF Account!Add
  <2>4. row.version \in Nat /\ \A q \in Req : read[q].version \in Nat
    BY <1>1 DEF Rows
  <2>5. \A q \in Req : first[q] \in Nat /\ tries[q] \in Nat
    BY <1>1
  <2>6. VersionFixesScore'
    BY <1>2, <2>1, <2>4 DEF VersionFixesScore
  <2>7. RoundsSeeProgress'
    BY <1>2, <2>1, <2>4, <2>5, MaxTryAssumption DEF RoundsSeeProgress
  <2> QED
    BY <1>1, <1>2, <2>3, <2>6, <2>7 DEF AccountInv, Account!Next
<1>6. CASE ~Unspoilt
  <2>1. ~Unspoilt'
    BY <1>2, <1>6 DEF Unspoilt
  <2> QED
    BY <1>1, <1>4, <1>6, <2>1 DEF AccountInv, Unspoilt, Account!Next, Account!Overwritten
<1> QED
  BY <1>5, <1>6

\* A failed round: before any transaction the version is newer than the one
\* it read, for a row without a durable deletion is live.
LEMMA AccountConflict ==
  ASSUME AccountInv, NEW r \in Req, VersionConflict(r)
  PROVE  AccountInv' /\ row' = row /\ credited' = credited
<1> USE MixedTypes
<1>1. MixedInv /\ MixedInv'
  BY MixedConflict DEF AccountInv
<1>2. /\ stage[r] = "read"
      /\ ~(row.live /\ row.version = read[r].version)
      /\ UNCHANGED <<row, credited, first>>
      /\ tries'[r] = tries[r] + 1
      /\ stage'[r] = IF tries[r] + 1 < MaxTry THEN "retry" ELSE "conflict"
      /\ \A q \in Req \ {r} :
           stage'[q] = stage[q] /\ read'[q] = read[q] /\ tries'[q] = tries[q]
  BY <1>1 DEF VersionConflict, VersionMatches, AfterConflict, Goto, Forget, rowVars
<1>3. /\ row.version \in Nat /\ read[r].version \in Nat
      /\ first[r] \in Nat /\ tries[r] \in Nat /\ MaxTry \in Nat
  BY <1>1, MaxTryAssumption DEF Rows
<1>4. ASSUME Unspoilt' PROVE VersionFixesScore' /\ RoundsSeeProgress'
  <2>1. Unspoilt /\ VersionFixesScore /\ RoundsSeeProgress
    BY <1>2, <1>4 DEF AccountInv, Unspoilt
  <2>2. row.live
    BY <1>1, <2>1 DEF Unspoilt, MixedInv, GoneByDeletion, Writer
  <2>3. row.version >= first[r] + (tries[r] + 1)
    BY <1>2, <1>3, <2>1, <2>2 DEF VersionFixesScore, RoundsSeeProgress
  <2>4. VersionFixesScore'
    BY <1>2, <2>1 DEF VersionFixesScore
  <2>5. stage'[r] = "conflict" => row.version >= first[r] + MaxTry
    BY <1>2, <1>3, <2>3
  <2>6. stage'[r] \in {"retry", "conflict"}
    BY <1>2
  <2>7. RoundsSeeProgress'
    BY <1>2, <2>1, <2>3, <2>5, <2>6 DEF RoundsSeeProgress
  <2> QED
    BY <2>4, <2>7
<1> QED
  BY <1>1, <1>2, <1>4 DEF AccountInv

\* A write reaches the row at the commit only.
LEMMA AccountWrite ==
  ASSUME AccountInv, NEW r \in Req, Write(r)
  PROVE  AccountInv' /\ row' = row /\ credited' = credited
<1>1. CASE Fail(r) /\ (Fault \/ UNCHANGED faults)
  BY <1>1, AccountFail
<1>2. CASE ~(Fail(r) /\ (Fault \/ UNCHANGED faults))
  <2>1. MixedInv /\ MixedInv'
    BY MixedWrite DEF AccountInv
  <2>2. /\ UNCHANGED <<row, read, tries, credited, first>>
        /\ stage'[r] = "written"
        /\ \A q \in Req \ {r} : stage'[q] = stage[q]
    BY <1>2, <2>1, MixedTypes DEF Write, Goto
  <2> QED
    BY <2>1, <2>2, Harmless
<1> QED
  BY <1>1, <1>2

\* A commit overwrites the row, or meets one that a deletion has overwritten.
LEMMA AccountCommit ==
  ASSUME AccountInv, NEW r \in Req, Commit(r)
  PROVE  AccountInv' /\ [Account!Next]_<<row.score, credited>>
<1>1. CASE Fail(r) /\ (Fault \/ UNCHANGED faults)
  BY <1>1, AccountFail
<1>2. CASE ~(Fail(r) /\ (Fault \/ UNCHANGED faults))
  <2>1. MixedInv /\ MixedInv'
    BY MixedCommit DEF AccountInv
  <2>2. stage[r] = "written"
        /\ credited' = IF AffectsRow(r) THEN credited \cup {r} ELSE credited
    BY <1>2 DEF Commit
  <2>3. r \in Writer
    BY <2>1, <2>2, NoOneAssumption DEF MixedInv, LockIsWriters
  <2>4. row'.score \in Int /\ credited' \subseteq Optimist \cup Writer
    BY <2>1, MixedTypes DEF MixedInv, TypeOK, Rows, Req, Adder, Writer
  <2>5. CASE AffectsRow(r)
    BY <2>1, <2>2, <2>3, <2>4, <2>5
       DEF AccountInv, Unspoilt, Account!Next, Account!Overwrite
  <2>6. CASE ~AffectsRow(r)
    <3>1. ~Unspoilt
      BY <2>1, <2>6 DEF AffectsRow, MixedInv, GoneByDeletion, Unspoilt, Writer
    <3> QED
      BY <2>1, <2>2, <2>4, <2>6, <3>1
         DEF AccountInv, Unspoilt, Account!Next, Account!Overwritten
  <2> QED
    BY <2>5, <2>6
<1> QED
  BY <1>1, <1>2

\* Every step is one of the account or leaves it alone.
LEMMA AccountStep ==
  ASSUME AccountInv, [Next]_vars
  PROVE  AccountInv' /\ [Account!Next]_<<row.score, credited>>
<1>1. ASSUME NEW r \in Req, Step(r)
      PROVE  AccountInv' /\ [Account!Next]_<<row.score, credited>>
  <2>1. RefuseAddition(r) => AccountInv' /\ row' = row /\ credited' = credited
    BY AccountFail DEF RefuseAddition
  <2> QED
    BY <1>1, <2>1, AccountRead, AccountUpdate, AccountConflict, AccountWrite, AccountCommit
       DEF Step
<1>2. CASE UNCHANGED vars
  <2>1. MixedInv'
    BY <1>2, MixedStep DEF AccountInv
  <2> QED
    BY <1>2, <2>1 DEF vars, AccountInv, Unspoilt, VersionFixesScore, RoundsSeeProgress
<1> QED
  BY <1>1, <1>2 DEF Next

\* The start.
LEMMA AccountStart == ASSUME Init PROVE AccountInv /\ Account!Init
<1>1. VersionFixesScore /\ RoundsSeeProgress
  BY DEF Init, VersionFixesScore, RoundsSeeProgress
<1> QED
  BY <1>1, MixedInit DEF Init, InitRow, AccountInv, Account!Init

\* The invariant holds for ever.
LEMMA AccountInvariant == Spec => []AccountInv
<1>1. Init => AccountInv
  BY AccountStart
<1>2. AccountInv /\ [Next]_vars => AccountInv'
  BY AccountStep
<1> QED
  BY <1>1, <1>2, PTL DEF Spec

\* Optimistic additions implement the account: any number of concurrent
\* requests loses no addition, makes none twice, and keeps the score from
\* falling below zero, until a transaction of another kind overwrites the row.
THEOREM OptimisticImplementsAccount == Spec => AccountSpec
<1>1. Init => Account!Init
  BY AccountStart
<1>2. AccountInv /\ [Next]_vars => [Account!Next]_<<row.score, credited>>
  BY AccountStep
<1> QED
  BY <1>1, <1>2, AccountInvariant, PTL DEF Spec, AccountSpec, Account!Spec

\* A request reports a conflict only after MaxTry others got through, unless
\* another kind of request has written the row.
THEOREM ConflictNeedsProgress == Spec => []ConflictMeansProgress
<1>1. AccountInv => ConflictMeansProgress
  BY DEF AccountInv, Unspoilt, RoundsSeeProgress, ConflictMeansProgress, Req, Adder
<1> QED
  BY <1>1, AccountInvariant, PTL
=============================================================================
