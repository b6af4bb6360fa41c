---------------------------- MODULE StudentCache ----------------------------
(***************************************************************************)
(* The cache of one student in Redis: GetStudentByID fills it under a      *)
(* Redis lock with a lease, UpdateStudent and DeleteStudent remove it, and *)
(* the score endpoints change the row behind its back.  Time is counted in *)
(* seconds.  A query of MySQL ends with its context.  A command to Redis   *)
(* does not: go-redis looks at the context before it writes the command,   *)
(* and what is written may reach Redis after the context is done.          *)
(***************************************************************************)
EXTENDS Integers

CONSTANTS
  Reader,      \* requests to GetStudentByID
  Updater,     \* requests to UpdateStudent: two deletions of the cache key
  Deleter,     \* requests to DeleteStudent: one deletion
  Scorer,      \* requests to the score endpoints: no deletion
  CtxTimeout,  \* deadline of a request's context, 2 seconds
  LockExpire,  \* lockExpire, 5 seconds
  Flight,      \* a command reaches Redis within so many seconds or never
  DelDelay,    \* time.Sleep between UpdateStudent's deletions, 1 second
  NoOne,       \* nobody holds the lock
  NoEntry      \* the cache has no entry, a goroutine has nothing to set

Writer == Updater \cup Deleter \cup Scorer

ASSUME CtxTimeoutAssumption == CtxTimeout \in Nat \ {0}
ASSUME LockExpireAssumption == LockExpire \in Nat \ {0}
ASSUME FlightAssumption == Flight \in Nat
ASSUME DelDelayAssumption == DelDelay \in Nat
ASSUME NoOneAssumption == NoOne \notin Reader
ASSUME NoEntryAssumption == NoEntry \notin [ver : Nat, live : BOOLEAN]
ASSUME WriterAssumption ==
  Updater \cap (Deleter \cup Scorer) = {} /\ Deleter \cap Scorer = {}

VARIABLES
  db,       \* the committed row: how often it changed, and if it is there
  age,      \* seconds since the last change, up to CtxTimeout + Flight
  cache,    \* the entry student:info:<id>
  lock,     \* the reader that set student:lock:<id>
  ttl,      \* seconds until the lock expires
  stage,    \* progress of a reader
  left,     \* seconds until the reader's context is done
  setter,   \* what the goroutine of a reader is about to put into the cache
  wire,     \* commands of the readers on their way to Redis
  resent,   \* history: readers whose Del was sent again
  wstage,   \* progress of a writer
  wleft     \* seconds a writer still sleeps

dbVars == <<db, age>>
lockVars == <<lock, ttl>>
wireVars == <<wire, resent>>
readerVars == <<stage, left, setter>>
writerVars == <<wstage, wleft>>
vars == <<dbVars, cache, lockVars, wireVars, readerVars, writerVars>>

Entry == [ver : Nat, live : BOOLEAN]

Goto(r, s) == stage' = [stage EXCEPT ![r] = s]
Alive(r) == left[r] > 0

\* A command leaves the client, which asks the context only now.
Send(r, cmd, entry) ==
  /\ Alive(r)
  /\ wire' = wire \cup {[cmd |-> cmd, by |-> r, entry |-> entry, time |-> Flight]}
-----------------------------------------------------------------------------
(* GetStudentByID                                                          *)

\* The request returns, and its context is cancelled.
Return(r) == Goto(r, "done") /\ left' = [left EXCEPT ![r] = 0]

Begin(r) ==
  /\ stage[r] = "idle"
  /\ Goto(r, "get")
  /\ left' = [left EXCEPT ![r] = CtxTimeout]
  /\ UNCHANGED <<dbVars, cache, lockVars, wireVars, setter, writerVars>>

\* A hit returns; a miss or any error of Redis goes on to the lock.
Get(r) ==
  /\ stage[r] = "get"
  /\ \/ cache # NoEntry /\ Return(r)
     \/ Goto(r, "claim") /\ UNCHANGED left
  /\ UNCHANGED <<dbVars, cache, lockVars, wireVars, setter, writerVars>>

\* SetNX is sent, or fails at once; then the query goes to MySQL without the
\* lock, and the request returns whatever it finds.
Claim(r) ==
  /\ stage[r] = "claim"
  /\ \/ Send(r, "setnx", NoEntry) /\ Goto(r, "claiming") /\ UNCHANGED left
     \/ Return(r) /\ UNCHANGED wire
  /\ UNCHANGED <<dbVars, cache, lockVars, resent, setter, writerVars>>

\* The connection breaks or the read of the answer times out: an error, too.
GiveUp(r) ==
  /\ stage[r] = "claiming"
  /\ Return(r)
  /\ UNCHANGED <<dbVars, cache, lockVars, wireVars, setter, writerVars>>

\* Under the lock: somebody may have filled the cache by now.
Recheck(r) ==
  /\ stage[r] = "recheck"
  /\ \/ cache # NoEntry /\ Goto(r, "unlock")
     \/ Goto(r, "query")
  /\ UNCHANGED <<dbVars, cache, lockVars, wireVars, left, setter, writerVars>>

\* The query; on success a goroutine is started to fill the cache.  A row that
\* is not there and a query that fails are treated alike.  GetClassByID and
\* pubilshStudentEvent, before the deferred Del, may take any time.
Query(r) ==
  /\ stage[r] = "query"
  /\ \/ Alive(r) /\ db.live /\ setter' = [setter EXCEPT ![r] = db]
     \/ UNCHANGED setter
  /\ Goto(r, "unlock")
  /\ UNCHANGED <<dbVars, cache, lockVars, wireVars, left, writerVars>>

\* Mutant: the goroutine sets the cache under a context of its own.
MutSetCache(r) ==
  /\ setter[r] # NoEntry
  /\ wire' = wire \cup {[cmd |-> "set", by |-> r, entry |-> setter[r], time |-> Flight]}
  /\ setter' = [setter EXCEPT ![r] = NoEntry]
  /\ UNCHANGED <<dbVars, cache, lockVars, resent, stage, left, writerVars>>

\* The goroutine's Set uses the request's context: it is not sent once the
\* request has returned or run out of time.
SetCache(r) ==
  /\ setter[r] # NoEntry
  /\ Send(r, "set", setter[r]) \/ UNCHANGED wire
  /\ setter' = [setter EXCEPT ![r] = NoEntry]
  /\ UNCHANGED <<dbVars, cache, lockVars, resent, stage, left, writerVars>>

\* The deferred Del of the lock key is sent, or not if the context is done.
Unlock(r) ==
  /\ stage[r] = "unlock"
  /\ Send(r, "del", NoEntry) \/ UNCHANGED wire
  /\ Goto(r, "leave")
  /\ UNCHANGED <<dbVars, cache, lockVars, resent, left, setter, writerVars>>

\* Del has returned, with an answer or an error; then cancel.
Leave(r) ==
  /\ stage[r] = "leave"
  /\ Return(r)
  /\ UNCHANGED <<dbVars, cache, lockVars, wireVars, setter, writerVars>>

\* When a connection breaks before the answer, go-redis sends the Del again
\* while the context lasts; here once, and Redis may then see it twice.
ResendDel(r) ==
  /\ stage[r] = "leave" /\ r \notin resent
  /\ Send(r, "del", NoEntry)
  /\ resent' = resent \cup {r}
  /\ UNCHANGED <<dbVars, cache, lockVars, readerVars, writerVars>>
-----------------------------------------------------------------------------
(* Redis executes what reaches it                                          *)

\* Mutant: the lock is set without an expiry that outlives the context.
MutTakeLock(r) == lock' = r /\ ttl' = 1

\* Mutant: the lock never expires.
MutTakeLockForGood(r) == lock' = r /\ ttl' = 0

TakeLock(r) == lock' = r /\ ttl' = LockExpire

\* The client learns that it has the lock, or that another has it, and then
\* sleeps and calls GetStudentByID again with a new context.
AnswerSetNX(r) ==
  /\ stage[r] = "claiming"
  /\ IF lock = NoOne
     THEN Goto(r, "recheck") /\ UNCHANGED left
     ELSE Goto(r, "get") /\ left' = [left EXCEPT ![r] = CtxTimeout]

\* Taken, or held by another; the answer arrives or is lost.
RunSetNX(m) ==
  /\ m.cmd = "setnx"
  /\ IF lock = NoOne THEN TakeLock(m.by) ELSE UNCHANGED lockVars
  /\ AnswerSetNX(m.by) \/ UNCHANGED <<stage, left>>
  /\ UNCHANGED cache

RunSet(m) ==
  /\ m.cmd = "set"
  /\ cache' = m.entry
  /\ UNCHANGED <<lockVars, stage, left>>

\* Del does not ask whose lock it is.
RunDel(m) ==
  /\ m.cmd = "del"
  /\ lock' = NoOne /\ ttl' = 0
  /\ UNCHANGED <<cache, stage, left>>

Execute(m) ==
  /\ RunSetNX(m) \/ RunSet(m) \/ RunDel(m)
  /\ wire' = wire \ {m}
  /\ UNCHANGED <<dbVars, resent, setter, writerVars>>
-----------------------------------------------------------------------------
(* The writers                                                             *)

WGoto(w, s) == wstage' = [wstage EXCEPT ![w] = s]

\* The transaction of a change commits.
ChangeRow(w) ==
  /\ wstage[w] = "idle"
  /\ db.live
  /\ db' = [ver |-> db.ver + 1, live |-> w \notin Deleter]
  /\ age' = 0
  /\ WGoto(w, IF w \in Updater THEN "del"
              ELSE IF w \in Deleter THEN "lastDel" ELSE "done")
  /\ UNCHANGED <<cache, lockVars, wireVars, readerVars, wleft>>

\* Redis answers, or the deletion fails; nobody looks.  One that arrives later
\* is an entry that is evicted at that moment.
DelCache == cache' \in {cache, NoEntry}

\* UpdateStudent's goroutine deletes, sleeps, and deletes again.
FirstDel(w) ==
  /\ wstage[w] = "del"
  /\ DelCache
  /\ WGoto(w, "sleep")
  /\ wleft' = [wleft EXCEPT ![w] = DelDelay]
  /\ UNCHANGED <<dbVars, lockVars, wireVars, readerVars>>

LastDel(w) ==
  /\ wstage[w] = "lastDel" \/ (wstage[w] = "sleep" /\ wleft[w] = 0)
  /\ DelCache
  /\ WGoto(w, "done")
  /\ UNCHANGED <<dbVars, lockVars, wireVars, readerVars, wleft>>
-----------------------------------------------------------------------------
(* Time, expiry and restarts                                               *)

Down(n) == IF n > 0 THEN n - 1 ELSE 0

\* A second passes.  A command that is still on its way in its last one is lost.
Tick ==
  /\ \/ \E r \in Reader : left[r] > 0
     \/ ttl > 0
     \/ \E w \in Writer : wleft[w] > 0
     \/ age < CtxTimeout + Flight
     \/ wire # {}
  /\ left' = [r \in Reader |-> Down(left[r])]
  /\ wleft' = [w \in Writer |-> Down(wleft[w])]
  /\ age' = IF age < CtxTimeout + Flight THEN age + 1 ELSE age
  /\ ttl' = Down(ttl)
  /\ lock' = IF ttl = 1 THEN NoOne ELSE lock
  /\ wire' = {[m EXCEPT !.time = @ - 1] : m \in {n \in wire : n.time > 0}}
  /\ UNCHANGED <<db, cache, resent, stage, setter, wstage>>

\* The entry expires after ten to fifteen minutes, or Redis evicts it.
ExpireCache ==
  /\ cache # NoEntry
  /\ cache' = NoEntry
  /\ UNCHANGED <<dbVars, lockVars, wireVars, readerVars, writerVars>>

\* The process dies; the row, the cache, the lock and what is on its way to
\* Redis survive it.
Crash ==
  /\ \/ \E r \in Reader : stage[r] \notin {"idle", "done"} \/ setter[r] # NoEntry
     \/ \E w \in Writer : wstage[w] \notin {"idle", "done"}
  /\ stage' = [r \in Reader |-> IF stage[r] = "idle" THEN "idle" ELSE "done"]
  /\ left' = [r \in Reader |-> 0]
  /\ setter' = [r \in Reader |-> NoEntry]
  /\ wstage' = [w \in Writer |-> IF wstage[w] = "idle" THEN "idle" ELSE "done"]
  /\ wleft' = [w \in Writer |-> 0]
  /\ UNCHANGED <<dbVars, cache, lockVars, wireVars>>
-----------------------------------------------------------------------------
Init ==
  /\ db = [ver |-> 0, live |-> TRUE]
  /\ age = CtxTimeout + Flight
  /\ cache = NoEntry
  /\ lock = NoOne
  /\ ttl = 0
  /\ stage = [r \in Reader |-> "idle"]
  /\ left = [r \in Reader |-> 0]
  /\ setter = [r \in Reader |-> NoEntry]
  /\ wire = {}
  /\ resent = {}
  /\ wstage = [w \in Writer |-> "idle"]
  /\ wleft = [w \in Writer |-> 0]

\* The goroutine that answers the request.
Read(r) ==
  \/ Begin(r) \/ Get(r) \/ Claim(r) \/ GiveUp(r)
  \/ Recheck(r) \/ Query(r) \/ Unlock(r) \/ Leave(r)

Write(w) == ChangeRow(w) \/ FirstDel(w) \/ LastDel(w)

Next ==
  \/ \E r \in Reader : Read(r) \/ SetCache(r) \/ ResendDel(r)
  \/ \E m \in wire : Execute(m)
  \/ \E w \in Writer : Write(w)
  \/ Tick \/ ExpireCache \/ Crash

\* Requests that have begun are served, and time passes.  Redis owes nothing.
Fairness ==
  /\ \A r \in Reader : WF_vars(stage[r] # "idle" /\ Read(r))
  /\ WF_vars(Tick)

Spec == Init /\ [][Next]_vars /\ Fairness
-----------------------------------------------------------------------------
Stages == {"idle", "get", "claim", "claiming", "recheck", "query", "unlock",
           "leave", "done"}
Locked == {"recheck", "query", "unlock"}
Command == [cmd : {"setnx", "set", "del"}, by : Reader,
            entry : Entry \cup {NoEntry}, time : 0..Flight]

TypeOK ==
  /\ db \in Entry
  /\ age \in 0..(CtxTimeout + Flight)
  /\ cache \in Entry \cup {NoEntry}
  /\ lock \in Reader \cup {NoOne}
  /\ ttl \in 0..LockExpire
  /\ stage \in [Reader -> Stages]
  /\ left \in [Reader -> 0..CtxTimeout]
  /\ setter \in [Reader -> Entry \cup {NoEntry}]
  /\ wire \subseteq Command
  /\ resent \subseteq Reader
  /\ wstage \in [Writer -> {"idle", "del", "sleep", "lastDel", "done"}]
  /\ wleft \in [Writer -> 0..DelDelay]

\* A reader past SetNX whose context is alive still holds the lock, although
\* the lease can run out, and a Del on its way does not ask whose lock it will
\* find.  So one query at a time fills the cache.  Only a Del that was sent
\* twice, because its connection broke, can take the lock of the next reader.
HolderKeepsLock ==
  resent = {} =>
    \A r \in Reader : stage[r] \in Locked /\ Alive(r) => lock = r

\* A value that is out of date is put into the cache only while the reader's
\* context and then the command on its way can last after the change it
\* misses, however slow the reader's goroutine is.
NoLateStaleWrite ==
  [][cache' \notin {cache, NoEntry} /\ cache' # db => age < CtxTimeout + Flight]_vars

\* Every request that has begun returns: a waiter that finds the lock taken
\* calls itself again without bound, but the lease or the holder ends.
EveryReadReturns == \A r \in Reader : (stage[r] # "idle") ~> (stage[r] = "done")
=============================================================================
