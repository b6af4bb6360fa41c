----------------------------- MODULE CursorPage -----------------------------
(***************************************************************************)
(* Cursor pagination: GetStudentList and GetDeletedStudentList answer one  *)
(* page and the id to ask the next one with, while other requests add,     *)
(* delete and move students.  A client pages until has_more is false.      *)
(***************************************************************************)
EXTENDS Integers, Sequences, FiniteSets, FiniteSetsExt, Functions

CONSTANTS
  MaxId,        \* bound: ids that are handed out
  Class,        \* class ids, positive
  Client,       \* clients that page
  PageSizes,    \* page_size values they ask for; 0 if they send none
  DefaultSize,  \* 10
  MaxSize       \* 100

Id == 1..MaxId

ASSUME MaxIdAssumption == MaxId \in Nat
ASSUME ClassAssumption == Class \subseteq Nat \ {0}
ASSUME PageSizesAssumption == PageSizes \subseteq Int
ASSUME SizeAssumption ==
  DefaultSize \in Nat \ {0} /\ MaxSize \in Nat /\ DefaultSize <= MaxSize

VARIABLES
  row,     \* state and class of each student
  nextId,  \* AUTO_INCREMENT
  query,   \* what a client pages through
  phase,   \* progress of a client
  listed,  \* the ids a client has got, in order
  reply,   \* the last page, last_id and has_more a client got
  due      \* history: the students that have matched since the first query

tableVars == <<row, nextId>>
clientVars == <<query, phase, listed, reply>>
vars == <<tableVars, clientVars, due>>

Query == [view : {"live", "deleted"}, class : Class \cup {0}, size : PageSizes]

\* GetStudentList filters by class if one is given, GetDeletedStudentList never.
Matches(q, r) ==
  /\ r.state = q.view
  /\ q.view = "live" /\ q.class > 0 => r.class = q.class

\* Mutant: the cap is gone.
MutEffectiveSize(size) == IF size <= 0 THEN DefaultSize ELSE size

\* The size the service uses.
EffectiveSize(size) ==
  IF size <= 0 THEN DefaultSize ELSE IF size > MaxSize THEN MaxSize ELSE size

\* ORDER BY id LIMIT n
First(n, S) == {i \in S : Cardinality({j \in S : j < i}) < n}

\* Mutants: id >= last_id; last_id is the row fetched only to look ahead.
MutAfterCursor(S, lastID) == IF lastID > 0 THEN {i \in S : i >= lastID} ELSE S
MutLastID(page, fetched) == IF fetched = {} THEN 0 ELSE Max(fetched)

\* WHERE id > last_id, unless there is none
AfterCursor(S, lastID) == IF lastID > 0 THEN {i \in S : i > lastID} ELSE S
LastID(page, fetched) == IF page = {} THEN 0 ELSE Max(page)

\* One row more than the page is fetched to see if there are more.
Answer(S, lastID, size) ==
  LET fetched == First(size + 1, AfterCursor(S, lastID))
      page == First(size, fetched)
  IN [page |-> page, lastID |-> LastID(page, fetched), hasMore |-> Cardinality(fetched) > size]

\* The rows of a page in the order of their ids.
Ordered(S) ==
  CHOOSE s \in [1..Cardinality(S) -> S] :
    \A j, k \in DOMAIN s : j < k => s[j] < s[k]

Matching(q) == {i \in Id : Matches(q, row[i])}
-----------------------------------------------------------------------------
\* A client begins: no LastID yet.  (StudentListQuery has no form tags, so gin
\* binds the Go names ClassID, PageSize and LastID; these are what it sends.)
FirstQuery(c) ==
  /\ phase[c] = "idle"
  /\ \E q \in Query :
       /\ query' = [query EXCEPT ![c] = q]
       /\ due' = [due EXCEPT ![c] = Matching(q)]
  /\ phase' = [phase EXCEPT ![c] = "paging"]
  /\ UNCHANGED <<tableVars, listed, reply>>

\* A page is served; the client goes on with the last_id it got while has_more.
NextPage(c) ==
  /\ phase[c] = "paging"
  /\ LET q == query[c]
         answer == Answer(Matching(q), reply[c].lastID, EffectiveSize(q.size))
     IN /\ reply' = [reply EXCEPT ![c] = answer]
        /\ listed' = [listed EXCEPT ![c] = @ \o Ordered(answer.page)]
        /\ phase' = [phase EXCEPT ![c] = IF answer.hasMore THEN "paging" ELSE "done"]
  /\ UNCHANGED <<tableVars, query, due>>
-----------------------------------------------------------------------------
(* Other requests                                                          *)

\* A student changes; it is due to a client as long as it matches.
SetRow(i, r) ==
  /\ row' = [row EXCEPT ![i] = r]
  /\ due' = [c \in Client |->
               IF Matches(query[c], r) THEN due[c] ELSE due[c] \ {i}]
  /\ UNCHANGED clientVars

\* INSERT takes an id; the row is visible once the transaction commits.
InsertStudent ==
  /\ nextId <= MaxId
  /\ nextId' = nextId + 1
  /\ \E k \in Class : SetRow(nextId, [state |-> "open", class |-> k])

CommitStudent(i) ==
  /\ row[i].state = "open"
  /\ \E s \in {"live", "none"} : SetRow(i, [row[i] EXCEPT !.state = s])
  /\ UNCHANGED nextId

DeleteStudent(i) ==
  /\ row[i].state = "live"
  /\ SetRow(i, [row[i] EXCEPT !.state = "deleted"])
  /\ UNCHANGED nextId

UpdateStudent(i) ==
  /\ row[i].state = "live"
  /\ \E k \in Class \ {row[i].class} : SetRow(i, [row[i] EXCEPT !.class = k])
  /\ UNCHANGED nextId
-----------------------------------------------------------------------------
Init ==
  /\ row = [i \in Id |-> [state |-> "none", class |-> 0]]
  /\ nextId = 1
  /\ query = [c \in Client |-> [view |-> "live", class |-> 0, size |-> 0]]
  /\ phase = [c \in Client |-> "idle"]
  /\ listed = [c \in Client |-> <<>>]
  /\ reply = [c \in Client |-> [page |-> {}, lastID |-> 0, hasMore |-> FALSE]]
  /\ due = [c \in Client |-> {}]

Next ==
  \/ \E c \in Client : FirstQuery(c) \/ NextPage(c)
  \/ InsertStudent
  \/ \E i \in Id : CommitStudent(i) \/ DeleteStudent(i) \/ UpdateStudent(i)

Spec == Init /\ [][Next]_vars
-----------------------------------------------------------------------------
\* Among the types: no reply is longer than the cap.
TypeOK ==
  /\ row \in [Id -> [state : {"none", "open", "live", "deleted"}, class : Class \cup {0}]]
  /\ nextId \in 1..(MaxId + 1)
  /\ query \in [Client -> [view : {"live", "deleted"}, class : Class \cup {0},
                           size : PageSizes \cup {0}]]
  /\ phase \in [Client -> {"idle", "paging", "done"}]
  /\ listed \in [Client -> Seq(Id)]
  /\ reply \in [Client -> [page : SUBSET Id, lastID : 0..MaxId, hasMore : BOOLEAN]]
  /\ \A c \in Client : Cardinality(reply[c].page) <= MaxSize
  /\ due \in [Client -> SUBSET Id]

\* A client gets the students in ascending order, so none twice, whatever is
\* added, deleted or moved between its pages.
ListedAscending ==
  \A c \in Client : \A j, k \in 1..Len(listed[c]) :
    j < k => listed[c][j] < listed[c][k]

\* A client that has reached the end has got every student that matched from
\* its first query on.
NobodySkipped ==
  \A c \in Client : phase[c] = "done" => due[c] \subseteq Range(listed[c])
=============================================================================
