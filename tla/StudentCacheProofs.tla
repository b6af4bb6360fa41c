------------------------- MODULE StudentCacheProofs -------------------------
(***************************************************************************)
(* Proofs about the student cache, for any number of requests and any      *)
(* delays.  CacheInv: a stale value is cached only as long as a request    *)
(* that read it and the command it sent can last.  LeaseInv: if the lease  *)
(* is longer than a context and a command on its way together, the holder  *)
(* keeps the lock, and a Del finds the lock of the reader that sent it.    *)
(***************************************************************************)
EXTENDS StudentCache, TLAPS

\* Only a reader that has queried the row has something to put in the cache.
Unfilled == {"idle", "get", "claim", "claiming", "recheck", "query"}
FillsAfterQuery == \A r \in Reader : stage[r] \in Unfilled => setter[r] = NoEntry

\* What a live request is about to cache is current, or the change it misses
\* came after the request began.
StaleSinceBegin ==
  \A r \in Reader :
    setter[r] # NoEntry /\ Alive(r) /\ setter[r] # db => left[r] + age <= CtxTimeout

\* The same of a Set that has been sent.
StaleSinceSent ==
  \A m \in wire :
    m.cmd = "set" /\ m.entry # db => m.time + age < CtxTimeout + Flight

CacheInv == TypeOK /\ FillsAfterQuery /\ StaleSinceBegin /\ StaleSinceSent

\* The step puts nothing out of date into the cache, or does so in time.
NoLateStep ==
  cache' \notin {cache, NoEntry} /\ cache' # db => age < CtxTimeout + Flight

\* The lease outlives the context of the holder and what it may still send.
LeaseOutlivesContext ==
  \A r \in Reader :
    stage[r] \in Locked /\ Alive(r) => lock = r /\ left[r] + Flight <= ttl

\* A Del on its way finds the lock of the reader that sent it, and is alone.
Dels == {m \in wire : m.cmd = "del"}
DelInTime ==
  /\ \A m \in Dels : lock = m.by /\ m.time < ttl /\ stage[m.by] \in {"leave", "done"}
  /\ \A m, n \in Dels : m = n

LeaseInv == resent = {} => LeaseOutlivesContext /\ DelInTime
-----------------------------------------------------------------------------
\* The parts of the type invariant that the steps below need.
LEMMA CacheTypes ==
  ASSUME TypeOK
  PROVE  /\ stage \in [Reader -> Stages]
         /\ left \in [Reader -> 0..CtxTimeout]
         /\ setter \in [Reader -> Entry \cup {NoEntry}]
         /\ db \in Entry /\ cache \in Entry \cup {NoEntry}
         /\ age \in Nat /\ age <= CtxTimeout + Flight /\ ttl \in 0..LockExpire
         /\ CtxTimeout \in Nat /\ Flight \in Nat /\ LockExpire \in Nat
         /\ \A m \in wire : m \in Command /\ m.by \in Reader /\ m.time \in 0..Flight
         /\ NoEntry \notin Entry
  BY CtxTimeoutAssumption, FlightAssumption, LockExpireAssumption, NoEntryAssumption
     DEF TypeOK, Entry, Command

\* What is sent is a command.
LEMMA SentCommand ==
  ASSUME TypeOK, NEW r \in Reader, NEW c \in {"setnx", "set", "del"},
         NEW e \in Entry \cup {NoEntry}
  PROVE  [cmd |-> c, by |-> r, entry |-> e, time |-> Flight] \in Command
<1>1. Flight \in 0..Flight
  BY FlightAssumption
<1> QED
  BY <1>1 DEF Command

-----------------------------------------------------------------------------
(* Nothing stale is cached late                                            *)

\* A step of one reader, or of Redis for it, that fills nothing, does not
\* prolong the context of a reader that has queried, and sends no Set.
LEMMA ReaderMoves ==
  ASSUME CacheInv, NEW r \in Reader, NEW s \in Stages, NEW n \in 0..CtxTimeout,
         stage' = [stage EXCEPT ![r] = s],
         left' = [left EXCEPT ![r] = n],
         UNCHANGED <<db, age, cache, setter, wstage, wleft>>,
         lock' \in Reader \cup {NoOne}, ttl' \in 0..LockExpire,
         wire' \subseteq Command, resent' \subseteq Reader,
         \A m \in wire' : m \in wire \/ m.cmd # "set",
         s \in Unfilled => setter[r] = NoEntry,
         setter[r] = NoEntry \/ n <= left[r]
  PROVE  CacheInv' /\ NoLateStep
<1>1. /\ stage \in [Reader -> Stages]
      /\ left \in [Reader -> 0..CtxTimeout]
      /\ age \in Nat /\ CtxTimeout \in Nat
  BY CacheTypes DEF CacheInv
<1>2. /\ stage'[r] = s /\ left'[r] = n
      /\ \A q \in Reader \ {r} : stage'[q] = stage[q] /\ left'[q] = left[q]
      /\ stage' \in [Reader -> Stages] /\ left' \in [Reader -> 0..CtxTimeout]
  BY <1>1
<1>3. TypeOK'
  BY <1>2 DEF CacheInv, TypeOK
<1>4. FillsAfterQuery'
  BY <1>2 DEF CacheInv, FillsAfterQuery
<1>5. StaleSinceBegin'
  BY <1>1, <1>2 DEF CacheInv, StaleSinceBegin, Alive
<1>6. StaleSinceSent'
  BY DEF CacheInv, StaleSinceSent
<1>7. NoLateStep
  BY DEF NoLateStep
<1> QED
  BY <1>3, <1>4, <1>5, <1>6, <1>7 DEF CacheInv

\* The steps of a request.
LEMMA ReadInv ==
  ASSUME CacheInv, NEW r \in Reader, Read(r) \/ ResendDel(r), ~Query(r)
  PROVE  CacheInv' /\ NoLateStep
<1>1. /\ stage \in [Reader -> Stages] /\ left \in [Reader -> 0..CtxTimeout]
      /\ CtxTimeout \in Nat /\ left[r] \in 0..CtxTimeout
      /\ lock \in Reader \cup {NoOne} /\ ttl \in 0..LockExpire
      /\ wire \subseteq Command /\ resent \subseteq Reader
  BY CacheTypes DEF CacheInv, TypeOK
<1>2. /\ UNCHANGED <<db, age, cache, setter, wstage, wleft, lock, ttl>>
      /\ resent' \in {resent, resent \cup {r}}
  BY DEF Read, ResendDel, Begin, Get, Claim, GiveUp, Recheck, Unlock, Leave,
         dbVars, lockVars, wireVars, readerVars, writerVars
<1>3. \/ wire' = wire
      \/ \E c \in {"setnx", "del"} :
           wire' = wire \cup {[cmd |-> c, by |-> r, entry |-> NoEntry, time |-> Flight]}
  BY DEF Read, ResendDel, Begin, Get, Claim, GiveUp, Recheck, Unlock, Leave, Send,
         wireVars
<1>4. wire' \subseteq Command /\ \A m \in wire' : m \in wire \/ m.cmd # "set"
  BY <1>1, <1>3, SentCommand DEF CacheInv
<1>5. resent' \subseteq Reader
  BY <1>1, <1>2
<1>6. \E s \in Stages, n \in {0, left[r], CtxTimeout} :
        /\ stage' = [stage EXCEPT ![r] = s]
        /\ left' = [left EXCEPT ![r] = n]
        /\ n = CtxTimeout => stage[r] = "idle" \/ n = left[r] \/ n = 0
        /\ s \in Unfilled => stage[r] \in Unfilled
  <2>1. left = [left EXCEPT ![r] = left[r]] /\ stage = [stage EXCEPT ![r] = stage[r]]
    BY <1>1
  <2>2. CASE Begin(r)
    BY <2>2 DEF Begin, Goto, Stages, Unfilled
  <2>3. CASE Get(r)
    BY <2>1, <2>3 DEF Get, Return, Goto, Stages, Unfilled
  <2>4. CASE Claim(r) \/ GiveUp(r)
    BY <2>1, <2>4 DEF Claim, GiveUp, Return, Goto, Stages, Unfilled
  <2>5. CASE Recheck(r)
    BY <2>1, <2>5 DEF Recheck, Goto, Stages, Unfilled
  <2>6. CASE Unlock(r) \/ Leave(r)
    BY <2>1, <2>6 DEF Unlock, Leave, Return, Goto, Stages, Unfilled
  <2>7. CASE ResendDel(r)
    BY <2>1, <2>7, <1>1 DEF ResendDel, readerVars
  <2> QED
    BY <2>2, <2>3, <2>4, <2>5, <2>6, <2>7 DEF Read
<1>7. PICK s \in Stages, n \in {0, left[r], CtxTimeout} :
        /\ stage' = [stage EXCEPT ![r] = s]
        /\ left' = [left EXCEPT ![r] = n]
        /\ n = CtxTimeout => stage[r] = "idle" \/ n = left[r] \/ n = 0
        /\ s \in Unfilled => stage[r] \in Unfilled
  BY <1>6
<1>8. n \in 0..CtxTimeout
  BY <1>1
<1>9. s \in Unfilled => setter[r] = NoEntry
  BY <1>7 DEF CacheInv, FillsAfterQuery
<1>10. setter[r] = NoEntry \/ n <= left[r]
  <2>1. stage[r] = "idle" => setter[r] = NoEntry
    BY DEF CacheInv, FillsAfterQuery, Unfilled
  <2> QED
    BY <1>1, <1>7, <2>1
<1> QED
  BY <1>1, <1>2, <1>4, <1>5, <1>7, <1>8, <1>9, <1>10, ReaderMoves

\* The query: what it finds is current.
LEMMA QueryInv ==
  ASSUME CacheInv, NEW r \in Reader, Query(r)
  PROVE  CacheInv' /\ NoLateStep
<1>1. /\ stage \in [Reader -> Stages]
      /\ setter \in [Reader -> Entry \cup {NoEntry}]
      /\ db \in Entry
  BY CacheTypes DEF CacheInv
<1>2. /\ UNCHANGED <<db, age, cache, lock, ttl, wire, resent, left, wstage, wleft>>
      /\ stage' = [stage EXCEPT ![r] = "unlock"]
      /\ setter' \in {setter, [setter EXCEPT ![r] = db]}
  BY DEF Query, Goto, dbVars, lockVars, wireVars, writerVars
<1>3. /\ stage' \in [Reader -> Stages]
      /\ stage'[r] = "unlock"
      /\ \A q \in Reader \ {r} : stage'[q] = stage[q] /\ setter'[q] = setter[q]
      /\ setter'[r] \in {setter[r], db}
      /\ setter' \in [Reader -> Entry \cup {NoEntry}]
  BY <1>1, <1>2 DEF Stages
<1>4. TypeOK'
  BY <1>2, <1>3 DEF CacheInv, TypeOK
<1>5. FillsAfterQuery' /\ StaleSinceBegin' /\ StaleSinceSent'
  BY <1>2, <1>3 DEF CacheInv, FillsAfterQuery, StaleSinceBegin, StaleSinceSent,
     Alive, Unfilled
<1> QED
  BY <1>2, <1>4, <1>5 DEF CacheInv, NoLateStep

\* The goroutine sends its Set while the context is alive.
LEMMA SetCacheInv ==
  ASSUME CacheInv, NEW r \in Reader, SetCache(r)
  PROVE  CacheInv' /\ NoLateStep
<1>1. /\ setter \in [Reader -> Entry \cup {NoEntry}] /\ setter[r] \in Entry
      /\ left[r] \in Nat /\ age \in Nat /\ CtxTimeout \in Nat /\ Flight \in Nat
  BY CacheTypes DEF CacheInv, SetCache
<1>2. /\ UNCHANGED <<db, age, cache, lock, ttl, resent, stage, left, wstage, wleft>>
      /\ setter' = [setter EXCEPT ![r] = NoEntry]
  BY DEF SetCache, dbVars, lockVars, writerVars
<1> DEFINE m == [cmd |-> "set", by |-> r, entry |-> setter[r], time |-> Flight]
<1>3. wire' = wire \/ (Alive(r) /\ wire' = wire \cup {m})
  BY DEF SetCache, Send
<1>4. /\ setter' \in [Reader -> Entry \cup {NoEntry}]
      /\ setter'[r] = NoEntry
      /\ \A q \in Reader \ {r} : setter'[q] = setter[q]
  BY <1>1, <1>2
<1>5. m \in Command /\ m.entry = setter[r] /\ m.time = Flight
  BY <1>1, SentCommand DEF CacheInv
<1> HIDE DEF m
<1>6. TypeOK'
  BY <1>2, <1>3, <1>4, <1>5 DEF CacheInv, TypeOK
<1>7. FillsAfterQuery' /\ StaleSinceBegin'
  BY <1>2, <1>4 DEF CacheInv, FillsAfterQuery, StaleSinceBegin, Alive
<1>8. Alive(r) /\ m.entry # db => m.time + age < CtxTimeout + Flight
  <2> SUFFICES ASSUME Alive(r), m.entry # db PROVE m.time + age < CtxTimeout + Flight
    OBVIOUS
  <2>1. left[r] + age <= CtxTimeout /\ left[r] > 0
    BY <1>5 DEF CacheInv, StaleSinceBegin, Alive, SetCache
  <2> QED
    BY <1>1, <1>5, <2>1
<1>9. StaleSinceSent'
  BY <1>2, <1>3, <1>8 DEF CacheInv, StaleSinceSent
<1> QED
  BY <1>2, <1>6, <1>7, <1>9 DEF CacheInv, NoLateStep

\* Redis executes a command: a stale Set only in time.
LEMMA ExecuteInv ==
  ASSUME CacheInv, NEW m \in wire, Execute(m)
  PROVE  CacheInv' /\ NoLateStep
<1>1. /\ stage \in [Reader -> Stages] /\ left \in [Reader -> 0..CtxTimeout]
      /\ m \in Command /\ m.by \in Reader /\ m.entry \in Entry \cup {NoEntry}
      /\ CtxTimeout \in Nat /\ LockExpire \in Nat /\ Flight \in Nat /\ age \in Nat
      /\ m.time \in Nat
      /\ lock \in Reader \cup {NoOne} /\ ttl \in 0..LockExpire
      /\ wire \subseteq Command /\ resent \subseteq Reader
  BY CacheTypes DEF CacheInv, TypeOK, Command
<1>2. /\ UNCHANGED <<db, age, resent, setter, wstage, wleft>>
      /\ wire' \subseteq wire
  BY DEF Execute, dbVars, writerVars
<1>3. CASE RunSetNX(m)
  <2>1. lock' \in Reader \cup {NoOne} /\ ttl' \in 0..LockExpire /\ cache' = cache
    BY <1>1, <1>3 DEF RunSetNX, TakeLock, lockVars
  <2>2. \/ UNCHANGED <<stage, left>>
        \/ /\ stage[m.by] = "claiming"
           /\ \E s \in {"recheck", "get"} : stage' = [stage EXCEPT ![m.by] = s]
           /\ \E n \in {left[m.by], CtxTimeout} : left' = [left EXCEPT ![m.by] = n]
    BY <1>1, <1>3 DEF RunSetNX, AnswerSetNX, Goto
  <2>3. CASE UNCHANGED <<stage, left>>
    <3>1. /\ stage' = [stage EXCEPT ![m.by] = stage[m.by]]
          /\ left' = [left EXCEPT ![m.by] = left[m.by]]
          /\ stage[m.by] \in Stages /\ left[m.by] \in 0..CtxTimeout
          /\ left[m.by] <= left[m.by]
      BY <1>1, <2>3
    <3>2. stage[m.by] \in Unfilled => setter[m.by] = NoEntry
      BY <1>1 DEF CacheInv, FillsAfterQuery
    <3> QED
      BY <1>1, <1>2, <2>1, <3>1, <3>2, ReaderMoves
  <2>4. CASE /\ stage[m.by] = "claiming"
             /\ \E s \in {"recheck", "get"} : stage' = [stage EXCEPT ![m.by] = s]
             /\ \E n \in {left[m.by], CtxTimeout} : left' = [left EXCEPT ![m.by] = n]
    <3>1. PICK s \in {"recheck", "get"}, n \in {left[m.by], CtxTimeout} :
            stage' = [stage EXCEPT ![m.by] = s] /\ left' = [left EXCEPT ![m.by] = n]
      BY <2>4
    <3>2. s \in Stages /\ n \in 0..CtxTimeout
      BY <1>1 DEF Stages
    <3>3. setter[m.by] = NoEntry
      BY <1>1, <2>4 DEF CacheInv, FillsAfterQuery, Unfilled
    <3> QED
      BY <1>1, <1>2, <2>1, <3>1, <3>2, <3>3, ReaderMoves
  <2> QED
    BY <2>2, <2>3, <2>4
<1>4. CASE RunSet(m)
  <2>1. UNCHANGED <<lock, ttl, stage, left>> /\ cache' = m.entry
    BY <1>4 DEF RunSet, lockVars
  <2>2. TypeOK'
    BY <1>1, <1>2, <2>1 DEF CacheInv, TypeOK
  <2>3. FillsAfterQuery' /\ StaleSinceBegin' /\ StaleSinceSent'
    BY <1>2, <2>1 DEF CacheInv, FillsAfterQuery, StaleSinceBegin, StaleSinceSent, Alive
  <2>4. NoLateStep
    BY <1>1, <1>4, <2>1 DEF NoLateStep, CacheInv, StaleSinceSent, RunSet
  <2> QED
    BY <2>2, <2>3, <2>4 DEF CacheInv
<1>5. CASE RunDel(m)
  <2>1. UNCHANGED <<cache, stage, left>> /\ lock' = NoOne /\ ttl' = 0
    BY <1>5 DEF RunDel
  <2>2. TypeOK'
    BY <1>1, <1>2, <2>1 DEF CacheInv, TypeOK
  <2>3. FillsAfterQuery' /\ StaleSinceBegin' /\ StaleSinceSent'
    BY <1>2, <2>1 DEF CacheInv, FillsAfterQuery, StaleSinceBegin, StaleSinceSent, Alive
  <2> QED
    BY <2>1, <2>2, <2>3 DEF CacheInv, NoLateStep
<1> QED
  BY <1>3, <1>4, <1>5 DEF Execute

\* The writers: whatever is pending or on its way has missed nothing for long.
LEMMA WriteInv ==
  ASSUME CacheInv, NEW w \in Writer, Write(w)
  PROVE  CacheInv' /\ NoLateStep
<1>1. /\ UNCHANGED <<lock, ttl, wire, resent, stage, left, setter>>
      /\ cache' \in {cache, NoEntry}
  BY DEF Write, ChangeRow, FirstDel, LastDel, DelCache, lockVars, wireVars, readerVars
<1>2. wstage' \in [Writer -> {"idle", "del", "sleep", "lastDel", "done"}]
  BY DEF Write, ChangeRow, FirstDel, LastDel, WGoto, CacheInv, TypeOK
<1>3. DelDelay \in 0..DelDelay
  BY DelDelayAssumption
<1>4. wleft' \in [Writer -> 0..DelDelay]
  BY <1>3 DEF Write, ChangeRow, FirstDel, LastDel, CacheInv, TypeOK
<1>5. (db' = db /\ age' = age) \/ (db' \in Entry /\ age' = 0)
  <2>1. db.ver + 1 \in Nat
    BY CacheTypes DEF CacheInv, Entry
  <2>2. \A n \in Nat : [ver |-> n, live |-> w \notin Deleter] \in Entry
    BY Zenon DEF Entry
  <2>3. CASE ChangeRow(w)
    BY <2>1, <2>2, <2>3 DEF ChangeRow
  <2> QED
    BY <2>3 DEF Write, FirstDel, LastDel, dbVars
<1>6. /\ 0 \in 0..(CtxTimeout + Flight)
      /\ \A r \in Reader : left[r] + 0 <= CtxTimeout
      /\ \A m \in wire : m.time + 0 < CtxTimeout + Flight
  <2>1. /\ \A r \in Reader : left[r] \in 0..CtxTimeout
        /\ \A m \in wire : m.time \in 0..Flight
        /\ CtxTimeout \in Nat \ {0} /\ Flight \in Nat
    BY CacheTypes, CtxTimeoutAssumption DEF CacheInv
  <2> QED
    BY <2>1
<1>7. TypeOK'
  BY <1>1, <1>2, <1>4, <1>5, <1>6 DEF CacheInv, TypeOK
<1>8. FillsAfterQuery'
  BY <1>1 DEF CacheInv, FillsAfterQuery
<1>9. StaleSinceBegin' /\ StaleSinceSent'
  BY <1>1, <1>5, <1>6 DEF CacheInv, StaleSinceBegin, StaleSinceSent, Alive
<1> QED
  BY <1>1, <1>7, <1>8, <1>9 DEF CacheInv, NoLateStep

\* What a second does.
LEMMA TickFacts ==
  ASSUME TypeOK, Tick
  PROVE  /\ UNCHANGED <<db, cache, stage, setter, wstage, resent>>
         /\ left' \in [Reader -> 0..CtxTimeout]
         /\ \A r \in Reader : left'[r] > 0 => left[r] > 1 /\ left'[r] = left[r] - 1
         /\ ttl' \in 0..LockExpire
         /\ ttl > 1 => ttl' = ttl - 1 /\ lock' = lock
         /\ age' \in 0..(CtxTimeout + Flight) /\ age' \in {age, age + 1}
         /\ wleft' \in [Writer -> 0..DelDelay]
         /\ \A m \in wire' : \E n \in wire :
              n.time > 0 /\ m = [n EXCEPT !.time = n.time - 1]
<1>1. /\ UNCHANGED <<db, cache, stage, setter, wstage, resent>>
      /\ left' = [r \in Reader |-> Down(left[r])]
      /\ wleft' = [w \in Writer |-> Down(wleft[w])]
      /\ age' = IF age < CtxTimeout + Flight THEN age + 1 ELSE age
      /\ ttl' = Down(ttl)
      /\ lock' = IF ttl = 1 THEN NoOne ELSE lock
      /\ wire' = {[m EXCEPT !.time = @ - 1] : m \in {n \in wire : n.time > 0}}
  BY DEF Tick
<1>2. /\ left \in [Reader -> 0..CtxTimeout]
      /\ age \in Nat /\ age <= CtxTimeout + Flight
      /\ ttl \in 0..LockExpire /\ LockExpire \in Nat
      /\ CtxTimeout \in Nat /\ Flight \in Nat
      /\ \A w \in Writer : wleft[w] \in 0..DelDelay
  BY CacheTypes DEF TypeOK
<1>3. \A n, m \in Nat : n <= m => Down(n) \in 0..m
  BY DEF Down
<1>4. \A r \in Reader : Down(left[r]) \in 0..CtxTimeout
  BY <1>2, <1>3
<1>5. \A w \in Writer : Down(wleft[w]) \in 0..DelDelay
  BY <1>2, <1>3, DelDelayAssumption
<1>6. ttl' \in 0..LockExpire /\ (ttl > 1 => ttl' = ttl - 1 /\ lock' = lock)
  BY <1>1, <1>2 DEF Down
<1>7. age' \in 0..(CtxTimeout + Flight) /\ age' \in {age, age + 1}
  BY <1>1, <1>2
<1>8. \A r \in Reader : left'[r] > 0 => left[r] > 1 /\ left'[r] = left[r] - 1
  BY <1>1, <1>2 DEF Down
<1>9. \A m \in wire' : \E n \in wire :
        n.time > 0 /\ m = [n EXCEPT !.time = n.time - 1]
  BY <1>1
<1> QED
  BY <1>1, <1>4, <1>5, <1>6, <1>7, <1>8, <1>9

\* A command a second later.
LEMMA OlderCommand ==
  ASSUME TypeOK, NEW n \in wire, n.time > 0, NEW m, m = [n EXCEPT !.time = n.time - 1]
  PROVE  /\ m \in Command
         /\ m.cmd = n.cmd /\ m.by = n.by /\ m.entry = n.entry /\ m.time = n.time - 1
         /\ n.time \in Nat
<1>1. n \in Command /\ n.time \in 0..Flight /\ n.time - 1 \in 0..Flight
  BY CacheTypes, FlightAssumption
<1> QED
  BY <1>1 DEF Command

\* A second passes for all of them alike.
LEMMA TickInv ==
  ASSUME CacheInv, Tick
  PROVE  CacheInv' /\ NoLateStep
<1>1. TypeOK /\ age \in Nat /\ CtxTimeout \in Nat /\ Flight \in Nat
  BY CacheTypes DEF CacheInv
<1>2. wire' \subseteq Command
  BY <1>1, TickFacts, OlderCommand
<1>3. lock' \in Reader \cup {NoOne}
  BY <1>1 DEF TypeOK, Tick
<1>4. TypeOK'
  BY <1>1, <1>2, <1>3, TickFacts DEF TypeOK
<1>5. FillsAfterQuery'
  BY <1>1, TickFacts DEF CacheInv, FillsAfterQuery
<1>6. StaleSinceBegin'
  <2> SUFFICES ASSUME NEW r \in Reader, setter'[r] # NoEntry, left'[r] > 0,
                      setter'[r] # db'
               PROVE  left'[r] + age' <= CtxTimeout
    BY DEF StaleSinceBegin, Alive
  <2>1. /\ left[r] \in Nat /\ left[r] > 1 /\ left'[r] = left[r] - 1
        /\ age' \in {age, age + 1} /\ setter' = setter /\ db' = db
    BY <1>1, TickFacts, CacheTypes
  <2>2. left[r] + age <= CtxTimeout
    BY <2>1 DEF CacheInv, StaleSinceBegin, Alive
  <2> QED
    BY <1>1, <2>1, <2>2
<1>7. StaleSinceSent'
  <2> SUFFICES ASSUME NEW m \in wire', m.cmd = "set", m.entry # db'
               PROVE  m.time + age' < CtxTimeout + Flight
    BY DEF StaleSinceSent
  <2>1. PICK n \in wire : n.time > 0 /\ m = [n EXCEPT !.time = n.time - 1]
    BY <1>1, TickFacts
  <2>2. n.cmd = "set" /\ n.entry # db /\ m.time = n.time - 1 /\ n.time \in Nat
    BY <1>1, <2>1, OlderCommand, TickFacts
  <2>3. n.time + age < CtxTimeout + Flight /\ age' \in {age, age + 1}
    BY <1>1, <2>2, TickFacts DEF CacheInv, StaleSinceSent
  <2> QED
    BY <1>1, <2>2, <2>3
<1>8. NoLateStep
  BY <1>1, TickFacts DEF NoLateStep
<1> QED
  BY <1>4, <1>5, <1>6, <1>7, <1>8 DEF CacheInv

\* What a crash does: it leaves nobody alive.
LEMMA CrashFacts ==
  ASSUME Crash
  PROVE  /\ UNCHANGED <<db, age, cache, lock, ttl, wire, resent>>
         /\ stage' = [r \in Reader |-> IF stage[r] = "idle" THEN "idle" ELSE "done"]
         /\ left' = [r \in Reader |-> 0]
         /\ setter' = [r \in Reader |-> NoEntry]
         /\ wstage' = [w \in Writer |-> IF wstage[w] = "idle" THEN "idle" ELSE "done"]
         /\ wleft' = [w \in Writer |-> 0]
  BY DEF Crash, dbVars, lockVars, wireVars

\* A crash keeps the invariant.
LEMMA CacheCrashInv ==
  ASSUME CacheInv, Crash
  PROVE  CacheInv' /\ NoLateStep
<1>1. 0 \in 0..CtxTimeout /\ 0 \in 0..DelDelay
  BY CtxTimeoutAssumption, DelDelayAssumption
<1>2. TypeOK'
  BY <1>1, CrashFacts DEF CacheInv, TypeOK, Stages
<1> QED
  BY <1>2, CrashFacts DEF CacheInv, FillsAfterQuery, StaleSinceBegin,
     StaleSinceSent, Alive, NoLateStep

\* Every step keeps the invariant and caches nothing stale late.
LEMMA CacheStep ==
  ASSUME CacheInv, [Next]_vars
  PROVE  CacheInv' /\ [NoLateStep]_vars
<1>1. ASSUME NEW r \in Reader, Read(r) \/ ResendDel(r)
      PROVE  CacheInv' /\ NoLateStep
  BY <1>1, ReadInv, QueryInv
<1>2. CASE ExpireCache
  <2>1. UNCHANGED <<db, age, lock, ttl, wire, resent, stage, left, setter, wstage, wleft>>
        /\ cache' = NoEntry
    BY <1>2 DEF ExpireCache, dbVars, lockVars, wireVars, readerVars, writerVars
  <2> QED
    BY <2>1 DEF CacheInv, TypeOK, FillsAfterQuery, StaleSinceBegin, StaleSinceSent,
       Alive, NoLateStep
<1>3. CASE UNCHANGED vars
  BY <1>3 DEF vars, dbVars, lockVars, wireVars, readerVars, writerVars, CacheInv,
     TypeOK, FillsAfterQuery, StaleSinceBegin, StaleSinceSent, Alive
<1> QED
  BY <1>1, <1>2, <1>3, SetCacheInv, ExecuteInv, WriteInv, TickInv, CacheCrashInv DEF Next

\* CacheInv is an invariant.
LEMMA CacheInvariant == Spec => []CacheInv
<1>1. Init => CacheInv
  <2>1. CtxTimeout + Flight \in 0..(CtxTimeout + Flight)
    BY CtxTimeoutAssumption, FlightAssumption
  <2> QED
    BY <2>1, CtxTimeoutAssumption, LockExpireAssumption, DelDelayAssumption
       DEF Init, CacheInv, TypeOK, Entry, Stages, FillsAfterQuery, StaleSinceBegin,
           StaleSinceSent, Alive
<1>2. CacheInv /\ [Next]_vars => CacheInv'
  BY CacheStep
<1> QED
  BY <1>1, <1>2, PTL DEF Spec

\* The state of the cache is well formed.
THEOREM CacheTypesHold == Spec => []TypeOK
  BY CacheInvariant, PTL DEF CacheInv

\* Nothing stale enters the cache later after the change than a context and a
\* command on its way can last: by the deadline alone, whatever the lease is.
THEOREM NoLateStaleWriteHolds == Spec => NoLateStaleWrite
<1>1. CacheInv /\ [Next]_vars
        => [cache' \notin {cache, NoEntry} /\ cache' # db => age < CtxTimeout + Flight]_vars
  BY CacheStep DEF NoLateStep
<1> QED
  BY <1>1, CacheInvariant, PTL DEF Spec, NoLateStaleWrite
-----------------------------------------------------------------------------
(* The holder keeps its lock                                               *)

\* A step that leaves the lock alone, sends no Del, and neither prolongs a
\* context nor enters the locked region.
LEMMA LeaseKept ==
  ASSUME LeaseInv, Dels' = Dels, UNCHANGED <<lock, ttl, resent>>,
         \A r \in Reader :
           stage'[r] \in Locked /\ Alive(r)' => stage[r] \in Locked /\ left'[r] = left[r],
         \A m \in Dels : stage[m.by] \in {"leave", "done"} => stage'[m.by] \in {"leave", "done"}
  PROVE  LeaseInv'
<1>1. LeaseOutlivesContext => LeaseOutlivesContext'
  BY DEF LeaseOutlivesContext, Alive
<1>2. DelInTime => DelInTime'
  BY DEF DelInTime
<1> QED
  BY <1>1, <1>2 DEF LeaseInv

\* The steps of a request but Unlock.
LEMMA ReadLease ==
  ASSUME TypeOK, LeaseInv, NEW r \in Reader, Read(r) \/ SetCache(r), ~Unlock(r)
  PROVE  LeaseInv'
<1>1. /\ stage \in [Reader -> Stages] /\ left \in [Reader -> 0..CtxTimeout]
      /\ \A m \in wire : m.by \in Reader
  BY CacheTypes
<1>2. UNCHANGED <<lock, ttl, resent>>
  BY DEF Read, SetCache, Begin, Get, Claim, GiveUp, Recheck, Query, Leave, lockVars, wireVars
<1>3. \/ wire' = wire
      \/ \E c \in {"setnx", "set"} : \E e :
           wire' = wire \cup {[cmd |-> c, by |-> r, entry |-> e, time |-> Flight]}
  BY DEF Read, SetCache, Begin, Get, Claim, GiveUp, Recheck, Query, Leave, Send, wireVars
<1>4. Dels' = Dels
  BY <1>3 DEF Dels
<1>5. /\ \A q \in Reader \ {r} : stage'[q] = stage[q] /\ left'[q] = left[q]
      /\ stage'[r] \in Locked => stage[r] \in Locked /\ left'[r] = left[r]
      /\ stage[r] \in {"leave", "done"} => stage'[r] \in {"leave", "done"}
  BY <1>1 DEF Read, SetCache, Begin, Get, Claim, GiveUp, Recheck, Query, Leave,
     Return, Goto, Locked
<1> QED
  BY <1>1, <1>2, <1>4, <1>5, LeaseKept DEF Dels

\* Unlock and its repetition: the Del is sent while the reader has its lock.
LEMMA UnlockLease ==
  ASSUME TypeOK, LeaseInv, NEW r \in Reader, Unlock(r) \/ ResendDel(r)
  PROVE  LeaseInv'
<1>1. /\ stage \in [Reader -> Stages] /\ left \in [Reader -> 0..CtxTimeout]
      /\ left[r] \in Nat /\ ttl \in Nat /\ Flight \in Nat
      /\ \A m \in wire : m.by \in Reader
  BY CacheTypes
<1>2. CASE ResendDel(r)
  BY <1>2 DEF ResendDel, LeaseInv
<1>3. CASE Unlock(r)
  <2>1. /\ UNCHANGED <<lock, ttl, resent, left>> /\ stage[r] = "unlock"
        /\ stage'[r] = "leave"
        /\ \A q \in Reader \ {r} : stage'[q] = stage[q]
    BY <1>1, <1>3 DEF Unlock, Goto, lockVars
  <2>2. CASE wire' = wire
    BY <1>1, <2>1, <2>2, LeaseKept DEF Dels, Locked
  <2>3. CASE Send(r, "del", NoEntry)
    <3> SUFFICES ASSUME resent = {} PROVE LeaseOutlivesContext' /\ DelInTime'
      BY <2>1 DEF LeaseInv
    <3> DEFINE d == [cmd |-> "del", by |-> r, entry |-> NoEntry, time |-> Flight]
    <3>1. lock = r /\ Flight < ttl
      BY <1>1, <2>1, <2>3 DEF LeaseInv, LeaseOutlivesContext, Send, Alive, Locked
    <3>2. Dels = {}
      BY <2>1, <3>1 DEF LeaseInv, DelInTime
    <3>3. Dels' = {d}
      BY <2>3, <3>2 DEF Dels, Send
    <3>4. DelInTime'
      BY <2>1, <3>1, <3>3 DEF DelInTime
    <3>5. LeaseOutlivesContext'
      BY <2>1 DEF LeaseInv, LeaseOutlivesContext, Alive, Locked
    <3> QED
      BY <3>4, <3>5
  <2> QED
    BY <1>3, <2>2, <2>3 DEF Unlock
<1> QED
  BY <1>2, <1>3

\* Redis executes a command: SetNX takes a lock that nobody relies on, and Del
\* deletes the lock of a reader that is past caring.
LEMMA ExecuteLease ==
  ASSUME TypeOK, LeaseInv, CtxTimeout + Flight <= LockExpire, NEW m \in wire, Execute(m)
  PROVE  LeaseInv'
<1> SUFFICES ASSUME resent' = {} PROVE LeaseOutlivesContext' /\ DelInTime'
  BY DEF LeaseInv
<1>1. /\ stage \in [Reader -> Stages] /\ left \in [Reader -> 0..CtxTimeout]
      /\ CtxTimeout \in Nat /\ Flight \in Nat /\ LockExpire \in Nat
      /\ m.by \in Reader /\ \A n \in wire : n.by \in Reader
  BY CacheTypes
<1>2. wire' = wire \ {m} /\ LeaseOutlivesContext /\ DelInTime
  BY DEF Execute, LeaseInv
<1>3. CASE RunSetNX(m) /\ lock = NoOne
  <2>1. lock' = m.by /\ ttl' = LockExpire
    BY <1>3 DEF RunSetNX, TakeLock
  <2>2. Dels = {} /\ Dels' = {}
    BY <1>1, <1>2, <1>3, NoOneAssumption DEF DelInTime, Dels
  <2>3. \A q \in Reader : ~(stage[q] \in Locked /\ Alive(q))
    BY <1>2, <1>3, NoOneAssumption DEF LeaseOutlivesContext
  <2>4. /\ left' = left
        /\ \A q \in Reader \ {m.by} : stage'[q] = stage[q]
    BY <1>1, <1>3 DEF RunSetNX, AnswerSetNX, Goto
  <2>5. left[m.by] + Flight <= LockExpire
    BY <1>1
  <2> QED
    BY <2>1, <2>2, <2>3, <2>4, <2>5 DEF LeaseOutlivesContext, DelInTime, Alive
<1>4. CASE RunSetNX(m) /\ lock # NoOne
  <2>1. UNCHANGED <<lock, ttl, resent>>
    BY <1>4 DEF RunSetNX, lockVars, Execute
  <2>2. Dels' = Dels
    BY <1>2, <1>4 DEF Dels, RunSetNX
  <2>3. \/ UNCHANGED <<stage, left>>
        \/ /\ stage[m.by] = "claiming" /\ stage'[m.by] = "get"
           /\ \A q \in Reader \ {m.by} : stage'[q] = stage[q] /\ left'[q] = left[q]
    BY <1>1, <1>4 DEF RunSetNX, AnswerSetNX, Goto
  <2> QED
    BY <1>1, <1>2, <2>1, <2>2, <2>3
       DEF LeaseOutlivesContext, DelInTime, Alive, Locked, Dels
<1>5. CASE RunSet(m)
  <2>1. UNCHANGED <<lock, ttl, stage, left>>
    BY <1>5 DEF RunSet, lockVars
  <2>2. Dels' = Dels
    BY <1>2, <1>5 DEF Dels, RunSet
  <2> QED
    BY <1>2, <2>1, <2>2 DEF LeaseOutlivesContext, DelInTime, Alive
<1>6. CASE RunDel(m)
  <2>1. UNCHANGED <<stage, left>> /\ m \in Dels
    BY <1>6 DEF RunDel, Dels
  <2>2. lock = m.by /\ stage[m.by] \in {"leave", "done"} /\ Dels' = {}
    BY <1>2, <2>1 DEF DelInTime, Dels
  <2>3. \A q \in Reader : ~(stage[q] \in Locked /\ Alive(q))
    BY <1>2, <2>2 DEF LeaseOutlivesContext, Locked
  <2> QED
    BY <2>1, <2>2, <2>3 DEF LeaseOutlivesContext, DelInTime, Alive
<1> QED
  BY <1>3, <1>4, <1>5, <1>6 DEF Execute

\* Contexts, commands on their way and the lease run down together.
LEMMA TickLease ==
  ASSUME TypeOK, LeaseInv, Tick
  PROVE  LeaseInv'
<1> SUFFICES ASSUME resent' = {} PROVE LeaseOutlivesContext' /\ DelInTime'
  BY DEF LeaseInv
<1>1. LeaseOutlivesContext /\ DelInTime
  BY TickFacts DEF LeaseInv
<1>2. /\ \A q \in Reader : left[q] \in Nat
      /\ ttl \in Nat /\ Flight \in Nat /\ stage' = stage
  BY CacheTypes, TickFacts
<1>3. LeaseOutlivesContext'
  <2> SUFFICES ASSUME NEW r \in Reader, stage'[r] \in Locked, left'[r] > 0
               PROVE  lock' = r /\ left'[r] + Flight <= ttl'
    BY DEF LeaseOutlivesContext, Alive
  <2>1. left[r] > 1 /\ left'[r] = left[r] - 1
    BY TickFacts
  <2>2. lock = r /\ left[r] + Flight <= ttl
    BY <1>1, <1>2, <2>1 DEF LeaseOutlivesContext, Alive
  <2>3. ttl > 1
    BY <1>2, <2>1, <2>2
  <2>4. ttl' = ttl - 1 /\ lock' = lock
    BY <2>3, TickFacts
  <2> QED
    BY <1>2, <2>1, <2>2, <2>4
<1>4. ASSUME NEW m \in Dels'
      PROVE  \E n \in Dels : /\ n.time > 0 /\ m = [n EXCEPT !.time = n.time - 1]
                             /\ n.time \in Nat /\ m.by = n.by /\ m.time = n.time - 1
  <2>1. PICK n \in wire : n.time > 0 /\ m = [n EXCEPT !.time = n.time - 1]
    BY <1>4, TickFacts DEF Dels
  <2> QED
    BY <1>4, <2>1, OlderCommand DEF Dels
<1>5. DelInTime'
  <2>1. ASSUME NEW m \in Dels'
        PROVE  lock' = m.by /\ m.time < ttl' /\ stage'[m.by] \in {"leave", "done"}
    <3>1. PICK n \in Dels : n.time > 0 /\ n.time \in Nat /\ m.by = n.by /\ m.time = n.time - 1
      BY <1>4, <2>1
    <3>2. lock = n.by /\ n.time < ttl /\ stage[n.by] \in {"leave", "done"}
      BY <1>1 DEF DelInTime
    <3>3. ttl > 1
      BY <1>2, <3>1, <3>2
    <3>4. ttl' = ttl - 1 /\ lock' = lock
      BY <3>3, TickFacts
    <3> QED
      BY <1>2, <3>1, <3>2, <3>4
  <2>2. ASSUME NEW m \in Dels', NEW n \in Dels'
        PROVE  m = n
    BY <1>1, <1>4, <2>2 DEF DelInTime
  <2> QED
    BY <2>1, <2>2 DEF DelInTime
<1> QED
  BY <1>3, <1>5

\* Every step keeps the lease invariant.
LEMMA LeaseStep ==
  ASSUME CacheInv, LeaseInv, CtxTimeout + Flight <= LockExpire, [Next]_vars
  PROVE  LeaseInv'
<1>1. TypeOK
  BY DEF CacheInv
<1>2. CASE Crash
  <2>1. \A r \in Reader : ~Alive(r)'
    BY <1>2, CrashFacts DEF Alive
  <2>2. \A m \in Dels : stage[m.by] \in {"leave", "done"} => stage'[m.by] \in {"leave", "done"}
    BY <1>1, <1>2, CrashFacts, CacheTypes DEF Dels
  <2>3. Dels' = Dels
    BY <1>2, CrashFacts DEF Dels
  <2> QED
    BY <1>2, <2>1, <2>2, <2>3, CrashFacts, LeaseKept
<1>3. CASE \/ \E w \in Writer : Write(w)
           \/ ExpireCache \/ UNCHANGED vars
  <2>1. UNCHANGED <<lock, ttl, wire, resent, stage, left>>
    BY <1>3 DEF Write, ChangeRow, FirstDel, LastDel, ExpireCache, vars, lockVars,
       wireVars, readerVars
  <2> QED
    BY <2>1, LeaseKept DEF Dels, Alive
<1> QED
  BY <1>1, <1>2, <1>3, ReadLease, UnlockLease, ExecuteLease, TickLease DEF Next

\* The holder keeps its lock as long as its context is alive, and so fills the
\* cache alone, if the lease covers a context and a command on its way: with 2
\* and 5 seconds, a command may take 3.
THEOREM HolderKeepsLockHolds ==
  ASSUME CtxTimeout + Flight <= LockExpire
  PROVE  Spec => []HolderKeepsLock
<1>1. Init => LeaseInv
  BY DEF Init, LeaseInv, LeaseOutlivesContext, DelInTime, Dels, Alive
<1>2. CacheInv /\ LeaseInv /\ [Next]_vars => LeaseInv'
  BY LeaseStep
<1>3. LeaseInv => HolderKeepsLock
  BY DEF LeaseInv, LeaseOutlivesContext, HolderKeepsLock
<1> QED
  BY <1>1, <1>2, <1>3, CacheInvariant, PTL DEF Spec
=============================================================================
