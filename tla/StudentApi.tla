----------------------------- MODULE StudentApi -----------------------------
(***************************************************************************)
(* The requests of InitRouter from the first middleware to the reply: the  *)
(* rate limiter, the token, the binding of parameters, the controllers,    *)
(* and of the services what decides the status of the reply: the look at   *)
(* the student table, the transaction, the event.  What a transaction, a   *)
(* cached read, a score or the pool does step by step is in LocalMessage,  *)
(* StudentCache, StudentScore and StudentPublish.                          *)
(***************************************************************************)
EXTENDS RateLimit, StudentSheet, ClassCache, FiniteSets, Functions

CONSTANTS
  Form,       \* what a client may send
  MaxId,      \* bound: ids of students
  MaxFaults   \* bound: failed queries, lost replies, panics of Submit

Id == 1..MaxId
Kinds == {"get", "list", "add", "update", "delete", "score", "upload"}

\* token: does the header carry Auth.Token?  valid: do the parameters bind?
\* id: the student's, 0 in an addition that leaves it to the database.
\* class: does an addition bring its class along?  sheet: the uploaded rows.
ASSUME FormAssumption ==
  /\ Form # {}
  /\ \A f \in Form : /\ f.ip \in Ip /\ f.kind \in Kinds
                     /\ f.token \in BOOLEAN /\ f.valid \in BOOLEAN
                     /\ f.id \in Id \cup {0} /\ f.class \in BOOLEAN
                     /\ f.kind \in {"get", "update", "delete", "score"} => f.id # 0
                     /\ f.kind = "upload" => f.sheet \in Seq(Range(f.sheet))
ASSUME BoundsAssumption == MaxId \in Nat /\ MaxFaults \in Nat
ASSUME ReaderAssumption == Request \subseteq Reader
ASSUME RequestAssumption == Request \subseteq Nat

VARIABLES
  form,     \* what each request asks for
  stage,    \* where its handler is
  reply,    \* the status of its reply, 0 before
  table,    \* the student table: "none", "live" or "deleted" for each id
  maker,    \* history: the request that inserted a student
  changed,  \* history: requests that changed a row
  audited,  \* history: requests that left an audit message
  upload,   \* total, success and records of an upload
  faults    \* faults so far

dataVars == <<table, maker, changed, audited, upload>>
vars == <<limitVars, classVars, form, stage, reply, dataVars, faults>>

Nobody == NoLimiter
Fault == faults < MaxFaults /\ faults' = faults + 1

Goto(r, s) == stage' = [stage EXCEPT ![r] = s] /\ UNCHANGED reply

\* The status line is written once.
Reply(r, status) ==
  /\ reply' = [reply EXCEPT ![r] = IF @ = 0 THEN status ELSE @]
  /\ stage' = [stage EXCEPT ![r] = "done"]
-----------------------------------------------------------------------------
(* The middlewares                                                         *)

\* A request arrives and gets the limiter of its address.  Requests are numbered
\* as they arrive.
Arrive(r) ==
  /\ stage[r] = "new"
  /\ \A q \in Request : q < r => stage[q] # "new"
  /\ \E f \in Form :
       /\ form' = [form EXCEPT ![r] = f]
       /\ GetLimiter(r, f.ip)
  /\ Goto(r, "limit")
  /\ UNCHANGED <<classVars, dataVars, faults>>

\* The routes of authGroup ask for the token.
Authorised(f) == f.kind \in {"get", "list"} \/ f.token

\* Mutant: no Abort, so the handler runs after the refusal.
MutRefuse(r) == reply' = [reply EXCEPT ![r] = 401] /\ stage' = [stage EXCEPT ![r] = "handle"]

Refuse(r) == Reply(r, 401)

\* The limiter is asked, then the token, which nobody else can change.
Admit(r) ==
  /\ stage[r] = "limit"
  /\ \/ /\ TakeToken(r, form[r].ip)
        /\ IF Authorised(form[r]) THEN Goto(r, "handle") ELSE Refuse(r)
     \/ ~Allowed(r) /\ Reply(r, 429) /\ UNCHANGED limitVars
  /\ UNCHANGED <<classVars, form, dataVars, faults>>
-----------------------------------------------------------------------------
(* The controllers                                                         *)

Handles(r, kinds) == stage[r] = "handle" /\ form[r].kind \in kinds /\ form[r].valid

\* Atoi, ShouldBindJSON, ShouldBindQuery, FormFile and the file's name.
Bind(r) ==
  /\ stage[r] = "handle"
  /\ ~form[r].valid
  /\ Reply(r, 400)
  /\ UNCHANGED <<limitVars, classVars, form, dataVars, faults>>

\* The lists and the search are answered from one query; CursorPage has their
\* contents.  The search refuses an empty name with 500, too.
List(r) ==
  /\ Handles(r, {"list"})
  /\ \E status \in {200, 500} : Reply(r, status)
  /\ UNCHANGED <<limitVars, classVars, form, dataVars, faults>>

Live(id) == id # 0 /\ table[id] = "live"

\* The status for a student that is not there: GetStudentByID and the score
\* services do not tell this from other errors in a way the controller knows.
NotFound(kind) == IF kind \in {"update", "delete"} THEN 404 ELSE 500

\* The service looks for the student first.
Look(r) ==
  LET f == form[r]
  IN /\ Handles(r, Kinds \ {"list", "upload"})
     /\ \/ /\ f.kind = "get" /\ Live(f.id)
           /\ Goto(r, "publish") /\ BeginLookup(r)
           /\ UNCHANGED faults
        \/ /\ f.kind = "get" /\ table[f.id] # "none"    \* cached, if out of date
           /\ Reply(r, 200)
           /\ UNCHANGED <<classVars, faults>>
        \/ /\ f.kind \in {"update", "delete", "score"} /\ Live(f.id)
           /\ Goto(r, "write") /\ UNCHANGED <<classVars, faults>>
        \/ /\ f.kind = "add"
           /\ IF Live(f.id) THEN Reply(r, 409) ELSE Goto(r, "write")
           /\ UNCHANGED <<classVars, faults>>
        \/ /\ f.kind # "add" /\ ~Live(f.id)
           /\ Reply(r, NotFound(f.kind)) /\ UNCHANGED <<classVars, faults>>
        \/ Fault /\ Reply(r, 500) /\ UNCHANGED classVars
     /\ UNCHANGED <<limitVars, form, dataVars>>
-----------------------------------------------------------------------------
(* The transaction                                                         *)

Used == {id \in Id : table[id] # "none"}

\* The id an addition gets: its own, or the next of AUTO_INCREMENT.
NewIds(f) == IF f.id # 0 THEN {f.id} ELSE {id \in Id : \A u \in Used : u < id /\ id - 1 \in Used \cup {0}}

\* Mutant: the insertion overwrites what is there.
MutVacant(id) == TRUE

\* The primary key refuses an id that is taken, by a deleted student as well.
Vacant(id) == table[id] = "none"

Insert(r) ==
  \E id \in NewIds(form[r]) :
    /\ Vacant(id)
    /\ table' = [table EXCEPT ![id] = "live"]
    /\ maker' = [maker EXCEPT ![id] = r]
    /\ changed' = changed \cup {r}
    /\ classLive' = (classLive \/ form[r].class)

\* UPDATE ... WHERE deleted_at IS NULL: no row of a student that was deleted
\* meanwhile is affected, and the service does not look how many were.
Affected(r) == IF Live(form[r].id) \/ form[r].kind = "score" THEN {r} ELSE {}

\* Save, in an addition to the score, brings a deleted student back.
RowAfter(r) ==
  CASE form[r].kind = "delete" -> "deleted"
    [] form[r].kind = "score" -> "live"
    [] OTHER -> table[form[r].id]

Modify(r) ==
  /\ changed' = changed \cup Affected(r)
  /\ table' = [table EXCEPT ![form[r].id] = RowAfter(r)]
  /\ UNCHANGED <<maker, classLive>>

\* Score changes write no audit message.
Audits(r) == IF form[r].kind = "score" THEN {} ELSE {r}

\* The transaction commits, also if the reply to COMMIT is lost ...
Commit(r) ==
  /\ stage[r] = "write"
  /\ IF form[r].kind = "add" THEN Insert(r) ELSE Modify(r)
  /\ audited' = audited \cup Audits(r)
  /\ \/ form[r].kind # "score" /\ Goto(r, "publish") /\ UNCHANGED faults
     \/ form[r].kind = "score" /\ Reply(r, 200) /\ UNCHANGED faults
     \/ Reply(r, 500) /\ Fault
  /\ UNCHANGED <<limitVars, classCache, lookup, fill, form, upload>>

\* ... or nothing is changed: the id is taken, there is no such class, the score
\* would be negative or is changed by too many at once; or a statement fails.
RollBack(r) ==
  /\ stage[r] = "write"
  /\ \/ form[r].kind # "delete" /\ UNCHANGED faults
     \/ Fault
  /\ Reply(r, 500)
  /\ UNCHANGED <<limitVars, classVars, form, dataVars>>

\* pubilshStudentEvent, for a read once GetClassByID has answered: Submit
\* panics if main has shut the pool down, and gin.Recovery replies; whatever
\* else happens to the event is only logged.
Publish(r) ==
  /\ stage[r] = "publish"
  /\ form[r].kind = "get" => lookup[r] = "done"
  /\ \/ Reply(r, 200) /\ UNCHANGED faults
     \/ Reply(r, 500) /\ Fault
  /\ UNCHANGED <<limitVars, classVars, form, dataVars>>
-----------------------------------------------------------------------------
(* The upload                                                              *)

\* Each student is sent; a send that fails is not counted, though its record
\* may be in the topic.
ImportStudents(r) ==
  LET students == ParseStudentExcel(form[r].sheet)
  IN /\ Handles(r, {"upload"})
     /\ IF students = <<>> THEN Reply(r, 400) /\ UNCHANGED upload
        ELSE /\ Reply(r, 200)
             /\ \E sent \in SUBSET DOMAIN students : \E answered \in SUBSET sent :
                  upload' = [upload EXCEPT ![r] =
                               [total |-> Len(students), success |-> Cardinality(answered),
                                records |-> {students[k] : k \in sent}]]
     /\ UNCHANGED <<limitVars, classVars, form, table, maker, changed, audited, faults>>
-----------------------------------------------------------------------------
NoUpload == [total |-> 0, success |-> 0, records |-> {}]

Init ==
  /\ RLInit
  /\ CCInit
  /\ form \in [Request -> {CHOOSE f \in Form : TRUE}]
  /\ stage = [r \in Request |-> "new"]
  /\ reply = [r \in Request |-> 0]
  /\ table = [id \in Id |-> IF id = 1 THEN "live" ELSE "none"]
  /\ maker = [id \in Id |-> Nobody]
  /\ changed = {}
  /\ audited = {}
  /\ upload = [r \in Request |-> NoUpload]
  /\ faults = 0

Serve(r) ==
  \/ Arrive(r) \/ Admit(r)
  \/ Bind(r) \/ List(r) \/ Look(r) \/ ImportStudents(r)
  \/ Commit(r) \/ RollBack(r) \/ Publish(r)

\* The parts that go on beside the handlers.
RefillBuckets == Refill /\ UNCHANGED <<classVars, form, stage, reply, dataVars, faults>>
CacheClass == CCStep /\ UNCHANGED <<limitVars, form, stage, reply, dataVars, faults>>

Next == (\E r \in Request : Serve(r)) \/ RefillBuckets \/ CacheClass

\* Redis lets entries expire.
Fairness == WF_vars(ExpireClass /\ UNCHANGED <<limitVars, form, stage, reply, dataVars, faults>>)

Spec == Init /\ [][Next]_vars /\ Fairness
-----------------------------------------------------------------------------
TypeOK ==
  /\ RLTypeOK
  /\ CCTypeOK
  /\ form \in [Request -> Form]
  /\ stage \in [Request -> {"new", "limit", "handle", "write", "publish", "done"}]
  /\ reply \in [Request -> {0, 200, 400, 401, 404, 409, 429, 500}]
  /\ table \in [Id -> {"none", "live", "deleted"}]
  /\ maker \in [Id -> Request \cup {Nobody}]
  /\ changed \subseteq Request
  /\ audited \subseteq Request
  /\ faults \in 0..MaxFaults

\* A reply that says what is wrong with the request is the truth: nothing was
\* changed, audited or sent on its behalf.  Only 500 leaves it open.
RefusedChangedNothing ==
  \A r \in Request :
    reply[r] \in {400, 401, 404, 409, 429}
      => r \notin changed \cup audited /\ upload[r] = NoUpload

\* An addition is reported as done only to the one request that made the
\* student, however many of them found the id free.
AddedOnce ==
  \A r \in Request :
    form[r].kind = "add" /\ reply[r] = 200
      => \E id \in Id : maker[id] = r /\ form[r].id \in {0, id}

\* The reply to an upload counts the rows that name a student, and what was
\* sent for them is within the bounds of the columns.
UploadReplyTrue ==
  \A r \in Request :
    LET sheet == form[r].sheet
        named == {k \in 2..Len(sheet) : sheet[k].name # Blank}
    IN form[r].kind = "upload" /\ stage[r] = "done" /\ reply[r] \in {200, 400} =>
         /\ reply[r] = 200 => named # {}
         /\ reply[r] = 200 => upload[r].total = Cardinality(named)
         /\ upload[r].success <= Cardinality(named)
         /\ \A s \in upload[r].records :
              s.score \in 0..100 /\ s.class_id >= 0
                /\ \E k \in named : sheet[k].name = s.name
=============================================================================
