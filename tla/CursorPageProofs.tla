-------------------------- MODULE CursorPageProofs --------------------------
(***************************************************************************)
(* Proofs about cursor pagination, for any number of students, classes and *)
(* clients and any page sizes: a client gets ascending ids, and at the end *)
(* everybody who matched all the time.                                     *)
(***************************************************************************)
EXTENDS CursorPage, FiniteSetTheorems, SequenceTheorems, TLAPS

(* Sets of ids                                                             *)

\* A set of numbers that is not empty has a least one.
LEMMA Least ==
  ASSUME NEW S \in SUBSET Nat, S # {}
  PROVE  \E m \in S : \A j \in S : m <= j
<1>1. PICK m \in S : \A j \in S : <<j, m>> \notin OpToRel(<, Nat)
  BY NatLessThanWellFounded, WFMin
<1>2. \A j \in S : ~(j < m)
  BY <1>1 DEF OpToRel
<1> QED
  BY <1>2

\* What arithmetic needs to know of ids.
LEMMA Numbers ==
  ASSUME NEW S \in SUBSET Id
  PROVE  \A i \in S : i \in Id /\ i \in Nat /\ i <= MaxId
<1>1. \A i \in Id : i \in Nat /\ i <= MaxId
  BY MaxIdAssumption DEF Id
<1>2. \A i \in S : i \in Id
  OBVIOUS
<1> QED
  BY <1>1, <1>2

\* Max is what its name says.
LEMMA Greatest ==
  ASSUME NEW S \in SUBSET Id, S # {}
  PROVE  Max(S) \in S /\ \A j \in S : j <= Max(S)
<1> DEFINE T == {MaxId - i : i \in S}
<1>1. T \subseteq Nat /\ T # {}
  BY Numbers, MaxIdAssumption
<1>2. PICK t \in T : \A j \in T : t <= j
  BY <1>1, Least
<1>3. PICK m \in S : t = MaxId - m
  OBVIOUS
<1>4. \A j \in S : m >= j
  <2> SUFFICES ASSUME NEW j \in S PROVE m >= j
    OBVIOUS
  <2>1. MaxId - j \in T /\ m \in Nat /\ j \in Nat
    BY Numbers
  <2> QED
    BY <1>2, <1>3, <2>1, MaxIdAssumption
<1>5. Max(S) \in S /\ \A j \in S : Max(S) >= j
  BY <1>4 DEF Max
<1> QED
  BY <1>5, Numbers

\* There are finitely many ids.
LEMMA IdsFinite ==
  ASSUME NEW S \in SUBSET Id
  PROVE  IsFiniteSet(S) /\ Cardinality(S) \in Nat
<1>1. IsFiniteSet(Id)
  BY FS_Interval, MaxIdAssumption DEF Id
<1>2. IsFiniteSet(S)
  BY <1>1, FS_Subset
<1> QED
  BY <1>2, FS_CardinalityType

\* How many ids of S come before i.
Rank(S, i) == Cardinality({j \in S : j < i})

\* The later of two ids has the greater rank.
LEMMA RankGrows ==
  ASSUME NEW S \in SUBSET Id, NEW i \in S, NEW k \in S, i < k
  PROVE  Rank(S, i) < Rank(S, k)
<1> DEFINE I == {j \in S : j < i}
           K == {j \in S : j < k}
<1>1. I \subseteq K /\ i \in K /\ i \notin I
  BY Numbers
<1>2. IsFiniteSet(K) /\ IsFiniteSet(I)
  BY IdsFinite
<1>3. Cardinality(I) <= Cardinality(K) /\ Cardinality(I) # Cardinality(K)
  BY <1>1, <1>2, FS_Subset
<1> QED
  BY <1>2, <1>3, FS_CardinalityType DEF Rank

\* A smaller set ranks no id higher.
LEMMA RankOfSubset ==
  ASSUME NEW S \in SUBSET Id, NEW R \in SUBSET S, NEW i \in Id
  PROVE  Rank(R, i) <= Rank(S, i)
  BY IdsFinite, FS_Subset DEF Rank

\* An id of a set ranks below the size of the set.
LEMMA RankBelowSize ==
  ASSUME NEW S \in SUBSET Id, NEW i \in S
  PROVE  Rank(S, i) \in Nat /\ Rank(S, i) < Cardinality(S)
<1> DEFINE I == {j \in S : j < i}
<1>1. I \subseteq S /\ i \notin I
  BY Numbers
<1>2. Cardinality(I) <= Cardinality(S) /\ Cardinality(I) # Cardinality(S)
  BY <1>1, IdsFinite, FS_Subset
<1> QED
  BY <1>1, <1>2, IdsFinite DEF Rank
-----------------------------------------------------------------------------
(* ORDER BY id LIMIT n                                                     *)

\* A limit keeps at most n rows, and each of them before any it cuts off.
LEMMA FirstProperties ==
  ASSUME NEW S \in SUBSET Id, NEW n \in Nat
  PROVE  /\ First(n, S) \subseteq S
         /\ Cardinality(First(n, S)) <= n
         /\ Cardinality(First(n, S)) < n => First(n, S) = S
         /\ Cardinality(S) <= n => First(n, S) = S
         /\ \A i \in S : \A k \in First(n, S) : i <= k => i \in First(n, S)
<1> DEFINE F == First(n, S)
<1>1. F = {i \in S : Rank(S, i) < n}
  BY DEF First, Rank
<1>2. F \subseteq S
  BY <1>1
<1>3. Cardinality(F) \in Nat /\ IsFiniteSet(F)
  BY <1>2, IdsFinite
<1> HIDE DEF F
<1>4. \A i \in S : \A k \in F : i <= k => i \in F
  <2> SUFFICES ASSUME NEW i \in S, NEW k \in F, i <= k, i # k PROVE i \in F
    OBVIOUS
  <2>1. i < k
    BY <1>2, Numbers
  <2>2. Rank(S, i) < Rank(S, k) /\ Rank(S, k) < n
    BY <1>1, <1>2, <2>1, RankGrows
  <2>3. Rank(S, i) \in Nat /\ Rank(S, k) \in Nat
    BY <1>2, RankBelowSize
  <2> QED
    BY <1>1, <2>2, <2>3
<1>5. Cardinality(F) <= n
  <2>1. CASE F = {}
    BY <2>1, FS_EmptySet
  <2>2. CASE F # {}
    <3> DEFINE m == Max(F)
               B == {j \in S : j < m}
    <3>1. m \in F /\ \A j \in F : j <= m
      BY <1>2, <2>2, Greatest
    <3>2. F \subseteq B \cup {m}
      BY <1>2, <3>1, Numbers
    <3>3. IsFiniteSet(B) /\ Cardinality(B) \in Nat /\ Cardinality(B) < n
      BY <1>1, <3>1, IdsFinite DEF Rank
    <3> HIDE DEF B, m
    <3>4. IsFiniteSet(B \cup {m}) /\ Cardinality(B \cup {m}) <= n
      BY <3>3, FS_AddElement
    <3>5. Cardinality(B \cup {m}) \in Nat
      BY <3>4, FS_CardinalityType
    <3>6. Cardinality(F) <= Cardinality(B \cup {m})
      BY <3>2, <3>4, FS_Subset
    <3> QED
      BY <1>3, <3>4, <3>5, <3>6
  <2> QED
    BY <2>1, <2>2
<1>6. Cardinality(F) < n => F = S
  <2> SUFFICES ASSUME F # S PROVE n <= Cardinality(F)
    BY <1>3
  <2> DEFINE C == S \ F
  <2>1. C # {} /\ C \subseteq Nat
    BY <1>2, Numbers
  <2>2. PICK m \in C : \A j \in C : m <= j
    BY <2>1, Least
  <2> DEFINE B == {j \in S : j < m}
  <2>3. B \subseteq F
    <3> SUFFICES ASSUME NEW j \in S, j < m, j \notin F PROVE FALSE
      OBVIOUS
    <3>1. j \in C /\ m \in Nat /\ j \in Nat
      BY <2>1
    <3> QED
      BY <2>2, <3>1
  <2>4. ~(Rank(S, m) < n) /\ Rank(S, m) \in Nat
    BY <1>1, <2>2, RankBelowSize
  <2>5. Cardinality(B) <= Cardinality(F)
    BY <1>3, <2>3, FS_Subset
  <2> QED
    BY <1>3, <2>4, <2>5 DEF Rank
<1>7. Cardinality(S) <= n => F = S
  <2> SUFFICES ASSUME Cardinality(S) <= n, NEW i \in S PROVE i \in F
    BY <1>2
  <2> QED
    BY <1>1, RankBelowSize, IdsFinite
<1> QED
  BY <1>2, <1>4, <1>5, <1>6, <1>7 DEF F

Increasing(s) == \A j, k \in DOMAIN s : j < k => s[j] < s[k]

\* Every set of ids can be put in order: otherwise there is a smallest set that
\* cannot, but without its greatest id it can.
LEMMA OrderExists ==
  ASSUME NEW S \in SUBSET Id
  PROVE  \E s \in [1..Cardinality(S) -> S] : Increasing(s)
<1> DEFINE Can(A) == \E s \in [1..Cardinality(A) -> A] : Increasing(s)
           Bad == {A \in SUBSET Id : ~Can(A)}
<1> SUFFICES ASSUME Bad # {} PROVE FALSE
  OBVIOUS
<1>1. SUBSET Id = FiniteSubsetsOf(Id)
  BY IdsFinite, FS_FiniteSubsetsOfFinite
<1>2. IsWellFoundedOn(StrictSubsetOrdering(Id), SUBSET Id)
  BY <1>1, FS_StrictSubsetOrderingWellFounded
<1>3. PICK A \in Bad : \A B \in Bad : <<B, A>> \notin StrictSubsetOrdering(Id)
  <2>1. Bad \subseteq SUBSET Id
    OBVIOUS
  <2> HIDE DEF Bad
  <2> QED
    BY <1>2, <2>1, WFMin
<1>4. A # {}
  <2> SUFFICES ASSUME A = {} PROVE Can(A)
    BY <1>3
  <2>1. Cardinality(A) = 0
    BY FS_EmptySet
  <2> DEFINE e == [k \in 1..0 |-> k]
  <2>2. e \in [1..Cardinality(A) -> A] /\ Increasing(e)
    BY <2>1 DEF Increasing
  <2> QED
    BY <2>2
<1> DEFINE m == Max(A)
           B == A \ {m}
           n == Cardinality(A)
<1>5. A \in SUBSET Id /\ m \in A /\ \A j \in A : j <= m
  BY <1>3, <1>4, Greatest
<1>6. n \in Nat \ {0} /\ Cardinality(B) = n - 1
  BY <1>4, <1>5, IdsFinite, FS_EmptySet, FS_RemoveElement
<1>7. Can(B)
  <2>1. <<B, A>> \in StrictSubsetOrdering(Id) /\ B \in SUBSET Id
    BY <1>5 DEF StrictSubsetOrdering
  <2> QED
    BY <1>3, <2>1
<1>8. PICK s \in [1..(n - 1) -> B] : Increasing(s)
  BY <1>6, <1>7
<1> DEFINE t == [k \in 1..n |-> IF k = n THEN m ELSE s[k]]
<1>9. t \in [1..n -> A]
  BY <1>5, <1>6, <1>8
<1>10. Increasing(t)
  <2> SUFFICES ASSUME NEW j \in 1..n, NEW k \in 1..n, j < k PROVE t[j] < t[k]
    BY DEF Increasing
  <2>1. j \in 1..(n - 1) /\ t[j] = s[j] /\ s[j] \in B
    BY <1>6, <1>8
  <2>2. s[j] \in Nat /\ m \in Nat /\ s[j] <= m /\ s[j] # m
    BY <1>5, <2>1, Numbers
  <2>3. CASE k = n
    BY <2>1, <2>2, <2>3
  <2>4. CASE k # n
    BY <1>6, <1>8, <2>1, <2>4 DEF Increasing
  <2> QED
    BY <2>3, <2>4
<1>11. Can(A)
  <2> HIDE DEF t
  <2> QED
    BY <1>9, <1>10
<1> QED
  BY <1>3, <1>11

\* What a client gets of a page: its rows, in ascending order.
LEMMA OrderedProperties ==
  ASSUME NEW S \in SUBSET Id
  PROVE  /\ Ordered(S) \in Seq(S)
         /\ Increasing(Ordered(S))
         /\ Range(Ordered(S)) = S
<1> DEFINE s == Ordered(S)
           n == Cardinality(S)
<1>1. s \in [1..n -> S] /\ Increasing(s)
  BY OrderExists DEF Ordered, Increasing
<1>2. n \in Nat /\ IsFiniteSet(S)
  BY IdsFinite
<1> HIDE DEF s
<1>3. s \in Seq(S)
  BY <1>1, <1>2, SeqDef
<1>4. s \in Injection(1..n, S)
  <2>1. \A j, k \in 1..n : s[j] = s[k] => j = k
    <3> SUFFICES ASSUME NEW j \in 1..n, NEW k \in 1..n, s[j] = s[k], j < k \/ k < j
                 PROVE FALSE
      BY <1>2
    <3>1. s[j] \in Nat /\ s[k] \in Nat
      BY <1>1, Numbers
    <3>2. s[j] < s[k] \/ s[k] < s[j]
      BY <1>1 DEF Increasing
    <3> QED
      BY <3>1, <3>2
  <2> QED
    BY <1>1, <2>1 DEF Injection, IsInjective
<1>5. Cardinality(1..n) = n
  BY <1>2, FS_Interval
<1>6. s \in Surjection(1..n, S)
  BY <1>2, <1>4, <1>5, FS_Injection
<1>7. Range(s) = S
  BY <1>1, <1>6 DEF Surjection, Range
<1> QED
  BY <1>1, <1>3, <1>7 DEF s
-----------------------------------------------------------------------------
(* A page                                                                  *)

\* A page size is at least one and at most the cap.
LEMMA EffectiveSizeBounds ==
  ASSUME NEW size \in Int
  PROVE  EffectiveSize(size) \in Nat \ {0} /\ EffectiveSize(size) <= MaxSize
  BY SizeAssumption DEF EffectiveSize

\* A page continues after the cursor, ends with the id that becomes the next
\* cursor, and leaves out nothing between the two; if no more is promised it
\* leaves out nothing after the first.
PageIs(S, lastID, size, a) ==
  /\ a.page \subseteq S
  /\ Cardinality(a.page) <= size
  /\ \A i \in a.page : i > lastID
  /\ a.lastID \in a.page \cup {0}
  /\ \A i \in a.page : i <= a.lastID
  /\ a.hasMore \in BOOLEAN
  /\ IF a.hasMore
     THEN a.lastID \in a.page /\ \A i \in S : lastID < i /\ i <= a.lastID => i \in a.page
     ELSE \A i \in S : lastID < i => i \in a.page

\* Every answer is such a page.
LEMMA PageProperties ==
  ASSUME NEW S \in SUBSET Id, NEW lastID \in Nat, NEW size \in Nat \ {0}
  PROVE  PageIs(S, lastID, size, Answer(S, lastID, size))
<1> DEFINE A == AfterCursor(S, lastID)
           fetched == First(size + 1, A)
           page == First(size, fetched)
           a == Answer(S, lastID, size)
<1>1. /\ a.page = page
      /\ a.lastID = IF page = {} THEN 0 ELSE Max(page)
      /\ a.hasMore \in BOOLEAN
      /\ a.hasMore <=> Cardinality(fetched) > size
  <2>1. /\ a.page = page
        /\ a.lastID = IF page = {} THEN 0 ELSE Max(page)
        /\ a.hasMore = (Cardinality(fetched) > size)
    BY DEF Answer, LastID
  <2> HIDE DEF a, page, fetched
  <2>2. (Cardinality(fetched) > size) \in BOOLEAN
    OBVIOUS
  <2>3. a.hasMore \in BOOLEAN /\ (a.hasMore <=> Cardinality(fetched) > size)
    BY <2>1, <2>2, Zenon
  <2> QED
    BY <2>1, <2>3
<1>2. A = {i \in S : i > lastID}
  <2>1. CASE lastID > 0
    BY <2>1 DEF AfterCursor
  <2>2. CASE lastID = 0
    <3>1. \A i \in S : i > lastID
      BY <2>2, MaxIdAssumption DEF Id
    <3> QED
      BY <2>2, <3>1 DEF AfterCursor
  <2> QED
    BY <2>1, <2>2
<1>3. A \in SUBSET Id
  BY <1>2
<1> HIDE DEF A
<1>4. /\ fetched \subseteq A
      /\ Cardinality(fetched) < size + 1 => fetched = A
      /\ \A i \in A : \A k \in fetched : i <= k => i \in fetched
  BY <1>3, FirstProperties
<1>5. fetched \in SUBSET Id
  BY <1>3, <1>4
<1> HIDE DEF fetched
<1>6. /\ page \subseteq fetched
      /\ Cardinality(page) <= size
      /\ Cardinality(page) < size => page = fetched
      /\ Cardinality(fetched) <= size => page = fetched
      /\ \A i \in fetched : \A k \in page : i <= k => i \in page
  BY <1>5, FirstProperties
<1> HIDE DEF page
<1>7. page \in SUBSET Id /\ page \subseteq A
  BY <1>4, <1>5, <1>6
<1>8. page # {} => a.lastID \in page /\ \A i \in page : i <= a.lastID
  BY <1>1, <1>7, Greatest
<1>9. Cardinality(fetched) \in Nat /\ Cardinality(page) \in Nat
  BY <1>5, <1>7, IdsFinite
<1>10. CASE a.hasMore
  <2>1. page # {}
    <3> SUFFICES ASSUME page = {} PROVE FALSE
      OBVIOUS
    <3>1. Cardinality(page) = 0
      BY FS_EmptySet
    <3>2. fetched = {}
      BY <1>6, <3>1
    <3>3. Cardinality(fetched) = 0 /\ ~(0 > size)
      BY <3>2, FS_EmptySet
    <3> QED
      BY <1>1, <1>10, <3>3
  <2>2. \A i \in S : lastID < i /\ i <= a.lastID => i \in page
    BY <1>2, <1>4, <1>6, <1>8, <2>1, Numbers
  <2> QED
    BY <1>1, <1>2, <1>6, <1>7, <1>8, <1>10, <2>1, <2>2 DEF PageIs
<1>11. CASE ~a.hasMore
  <2>1. page = A
    <3>1. Cardinality(fetched) <= size /\ Cardinality(fetched) < size + 1
      BY <1>1, <1>9, <1>11
    <3> QED
      BY <1>4, <1>6, <3>1
  <2>2. \A i \in S : lastID < i => i \in page
    BY <1>2, <2>1, Numbers
  <2>3. a.lastID \in page \cup {0}
    BY <1>1, <1>8
  <2>4. a.hasMore \in BOOLEAN
    BY <1>1
  <2> QED
    BY <1>1, <1>2, <1>6, <1>7, <1>8, <1>11, <2>2, <2>3, <2>4 DEF PageIs
<1> QED
  BY <1>10, <1>11
-----------------------------------------------------------------------------
(* The invariant                                                           *)

\* Before its first page a client has nothing.
NothingYet(c) == phase[c] = "idle" => listed[c] = <<>> /\ reply[c].lastID = 0 /\ due[c] = {}

\* A client that is due a student would find it with its query.
DueMatches(c) == \A i \in due[c] : i \in Matching(query[c])

\* Everything listed so far is up to the cursor, and everything due up to the
\* cursor is listed.
UpToCursor(c) ==
  phase[c] = "paging" =>
    /\ \A k \in 1..Len(listed[c]) : listed[c][k] <= reply[c].lastID
    /\ \A i \in due[c] : i <= reply[c].lastID => i \in Range(listed[c])

Ascending(c) == Increasing(listed[c])
Complete(c) == phase[c] = "done" => due[c] \subseteq Range(listed[c])

ClientInv(c) ==
  NothingYet(c) /\ DueMatches(c) /\ UpToCursor(c) /\ Ascending(c) /\ Complete(c)

CursorInv == TypeOK /\ \A c \in Client : ClientInv(c)

\* The start.
LEMMA CursorInit == ASSUME Init PROVE CursorInv
<1>1. TypeOK
  <2>1. \A c \in Client : Cardinality(reply[c].page) <= MaxSize
    <3> SUFFICES ASSUME NEW c \in Client PROVE Cardinality(reply[c].page) <= MaxSize
      OBVIOUS
    <3>1. reply[c].page = {}
      BY DEF Init
    <3>2. Cardinality(reply[c].page) = 0
      BY <3>1, FS_EmptySet
    <3> QED
      BY <3>2, SizeAssumption
  <2>2. /\ row \in [Id -> [state : {"none", "open", "live", "deleted"}, class : Class \cup {0}]]
        /\ nextId \in 1..(MaxId + 1)
        /\ query \in [Client -> [view : {"live", "deleted"}, class : Class \cup {0},
                                 size : PageSizes \cup {0}]]
        /\ due \in [Client -> SUBSET Id]
    BY MaxIdAssumption DEF Init
  <2>3. /\ phase \in [Client -> {"idle", "paging", "done"}]
        /\ listed \in [Client -> Seq(Id)]
        /\ reply \in [Client -> [page : SUBSET Id, lastID : 0..MaxId, hasMore : BOOLEAN]]
    BY EmptySeq, MaxIdAssumption DEF Init
  <2> QED
    BY <2>1, <2>2, <2>3 DEF TypeOK
<1>2. ASSUME NEW c \in Client PROVE ClientInv(c)
  BY DEF Init, ClientInv, NothingYet, DueMatches, UpToCursor, Ascending, Complete, Increasing
<1> QED
  BY <1>1, <1>2 DEF CursorInv

\* A client takes up a query.
LEMMA FirstQueryInv ==
  ASSUME CursorInv, NEW c \in Client, FirstQuery(c)
  PROVE  CursorInv'
<1>1. PICK q \in Query : /\ query' = [query EXCEPT ![c] = q]
                         /\ due' = [due EXCEPT ![c] = Matching(q)]
  BY DEF FirstQuery
<1>2. /\ phase[c] = "idle" /\ phase' = [phase EXCEPT ![c] = "paging"]
      /\ UNCHANGED <<row, nextId, listed, reply>>
  BY DEF FirstQuery, tableVars
<1>3. Matching(q) \in SUBSET Id
  BY DEF Matching
<1>4. q \in [view : {"live", "deleted"}, class : Class \cup {0}, size : PageSizes \cup {0}]
  BY DEF Query
<1>5. TypeOK'
  BY <1>1, <1>2, <1>3, <1>4 DEF CursorInv, TypeOK
<1>6. ASSUME NEW d \in Client PROVE ClientInv(d)'
  <2>1. ClientInv(d)
    BY DEF CursorInv
  <2>2. CASE d # c
    <3>1. query'[d] = query[d] /\ due'[d] = due[d] /\ phase'[d] = phase[d]
      BY <1>1, <1>2, <2>2 DEF CursorInv, TypeOK
    <3> QED
      BY <1>2, <2>1, <3>1 DEF ClientInv, NothingYet, DueMatches, Matching, UpToCursor, Ascending, Complete
  <2>3. CASE d = c
    <3>1. /\ query'[c] = q /\ due'[c] = Matching(q) /\ phase'[c] = "paging"
          /\ listed[c] = <<>> /\ reply[c].lastID = 0
      BY <1>1, <1>2, <2>1, <2>3 DEF CursorInv, TypeOK, ClientInv, NothingYet
    <3>2. \A i \in Matching(q) : ~(i <= 0)
      BY <1>3, MaxIdAssumption DEF Id
    <3> QED
      BY <1>2, <2>1, <2>3, <3>1, <3>2
         DEF ClientInv, NothingYet, DueMatches, Matching, UpToCursor, Ascending, Complete
  <2> QED
    BY <2>2, <2>3
<1> QED
  BY <1>5, <1>6 DEF CursorInv

\* A row is written: whoever stays due still matches, nobody becomes due.
LEMMA SetRowInv ==
  ASSUME CursorInv, NEW i \in Id, SetRow(i, row'[i]), nextId' \in 1..(MaxId + 1),
         row'[i] \in [state : {"none", "open", "live", "deleted"}, class : Class \cup {0}]
  PROVE  CursorInv'
<1>1. /\ row' = [row EXCEPT ![i] = row'[i]]
      /\ due' = [c \in Client |-> IF Matches(query[c], row'[i]) THEN due[c] ELSE due[c] \ {i}]
      /\ UNCHANGED <<query, phase, listed, reply>>
  BY DEF SetRow, clientVars
<1>2. \A c \in Client : due'[c] \subseteq due[c] /\ (i \in due'[c] => Matches(query[c], row'[i]))
  BY <1>1
<1>3. row \in [Id -> [state : {"none", "open", "live", "deleted"}, class : Class \cup {0}]]
  BY DEF CursorInv, TypeOK
<1>4. \A j \in Id \ {i} : row'[j] = row[j]
  BY <1>1, <1>3
<1>5. TypeOK'
  <2>1. row' \in [Id -> [state : {"none", "open", "live", "deleted"}, class : Class \cup {0}]]
    BY <1>1, <1>3
  <2>2. due' \in [Client -> SUBSET Id]
    BY <1>1 DEF CursorInv, TypeOK
  <2> QED
    BY <1>1, <2>1, <2>2 DEF CursorInv, TypeOK
<1>6. ASSUME NEW c \in Client PROVE ClientInv(c)'
  <2>1. ClientInv(c)
    BY DEF CursorInv
  <2>2. DueMatches(c)'
    <3> SUFFICES ASSUME NEW j \in due'[c] PROVE j \in Id /\ Matches(query[c], row'[j])
      BY <1>1 DEF DueMatches, Matching
    <3>1. j \in Id /\ Matches(query[c], row[j])
      BY <1>2, <2>1 DEF ClientInv, DueMatches, Matching
    <3> QED
      BY <1>2, <1>4, <3>1
  <2> QED
    BY <1>1, <1>2, <2>1, <2>2 DEF ClientInv, NothingYet, UpToCursor, Ascending, Complete
<1> QED
  BY <1>5, <1>6 DEF CursorInv

\* The requests that change the table.
LEMMA TableInv ==
  ASSUME CursorInv,
         InsertStudent \/ \E i \in Id : CommitStudent(i) \/ DeleteStudent(i) \/ UpdateStudent(i)
  PROVE  CursorInv'
<1> DEFINE Rows == [state : {"none", "open", "live", "deleted"}, class : Class \cup {0}]
<1>1. row \in [Id -> Rows] /\ nextId \in 1..(MaxId + 1)
  BY DEF CursorInv, TypeOK
<1>2. CASE InsertStudent
  <2>1. PICK k \in Class : SetRow(nextId, [state |-> "open", class |-> k])
    BY <1>2 DEF InsertStudent
  <2>2. nextId \in Id /\ nextId' \in 1..(MaxId + 1)
    BY <1>1, <1>2, MaxIdAssumption DEF InsertStudent, Id
  <2>3. row'[nextId] = [state |-> "open", class |-> k]
    BY <1>1, <2>1, <2>2 DEF SetRow
  <2> QED
    BY <2>1, <2>2, <2>3, SetRowInv
<1>3. ASSUME NEW i \in Id, CommitStudent(i) \/ DeleteStudent(i) \/ UpdateStudent(i)
      PROVE  CursorInv'
  <2>1. PICK r \in Rows : SetRow(i, r)
    BY <1>1, <1>3 DEF CommitStudent, DeleteStudent, UpdateStudent
  <2>2. row'[i] = r
    BY <1>1, <2>1 DEF SetRow
  <2>3. nextId' \in 1..(MaxId + 1)
    BY <1>1, <1>3 DEF CommitStudent, DeleteStudent, UpdateStudent
  <2> QED
    BY <2>1, <2>2, <2>3, SetRowInv
<1> QED
  BY <1>2, <1>3

\* A page is appended to what a client has: it begins after the cursor, so the
\* list stays ascending, and reaches up to the next one.
LEMMA NextPageInv ==
  ASSUME CursorInv, NEW c \in Client, NextPage(c)
  PROVE  CursorInv'
<1> DEFINE q == query[c]
           S == Matching(q)
           lastID == reply[c].lastID
           size == EffectiveSize(q.size)
           a == Answer(S, lastID, size)
           new == Ordered(a.page)
<1>1. /\ phase[c] = "paging"
      /\ reply' = [reply EXCEPT ![c] = a]
      /\ listed' = [listed EXCEPT ![c] = @ \o new]
      /\ phase' = [phase EXCEPT ![c] = IF a.hasMore THEN "paging" ELSE "done"]
      /\ UNCHANGED <<row, nextId, query, due>>
  BY DEF NextPage, tableVars
<1>2. /\ S \in SUBSET Id /\ lastID \in Nat /\ listed[c] \in Seq(Id)
      /\ size \in Nat \ {0} /\ size <= MaxSize
  <2>1. /\ query[c] \in [view : {"live", "deleted"}, class : Class \cup {0},
                         size : PageSizes \cup {0}]
        /\ reply[c] \in [page : SUBSET Id, lastID : 0..MaxId, hasMore : BOOLEAN]
        /\ listed[c] \in Seq(Id)
    BY DEF CursorInv, TypeOK
  <2>2. q.size \in Int
    <3>1. \A s \in PageSizes \cup {0} : s \in Int
      BY PageSizesAssumption
    <3>2. q.size \in PageSizes \cup {0}
      BY <2>1
    <3> QED
      BY <3>1, <3>2
  <2>3. size \in Nat \ {0} /\ size <= MaxSize
    BY <2>2, EffectiveSizeBounds
  <2>4. S \in SUBSET Id /\ lastID \in Nat
    BY <2>1, MaxIdAssumption DEF Matching
  <2> QED
    BY <2>1, <2>3, <2>4
<1> HIDE DEF S, size
<1>3. PageIs(S, lastID, size, a)
  BY <1>2, PageProperties
<1>4. /\ a.page \in SUBSET Id /\ a.lastID \in 0..MaxId /\ a.hasMore \in BOOLEAN
      /\ Cardinality(a.page) <= MaxSize
      /\ a = [page |-> a.page, lastID |-> a.lastID, hasMore |-> a.hasMore]
  <2>1. a.page \in SUBSET Id /\ a.hasMore \in BOOLEAN
    BY <1>2, <1>3 DEF PageIs
  <2>2. a.lastID \in 0..MaxId
    BY <1>3, <2>1, Numbers, MaxIdAssumption DEF PageIs
  <2>3. Cardinality(a.page) \in Nat /\ Cardinality(a.page) <= size
    BY <1>3, <2>1, IdsFinite DEF PageIs
  <2>4. a = [page |-> a.page, lastID |-> a.lastID, hasMore |-> a.hasMore]
    BY DEF Answer
  <2> QED
    BY <1>2, <2>1, <2>2, <2>3, <2>4, SizeAssumption
<1> HIDE DEF a
<1>5. new \in Seq(Id) /\ Increasing(new) /\ Range(new) = a.page
  BY <1>4, OrderedProperties, SeqMonotonic
<1> HIDE DEF new
<1>6. /\ listed'[c] = listed[c] \o new /\ reply'[c] = a
      /\ phase'[c] = IF a.hasMore THEN "paging" ELSE "done"
      /\ \A d \in Client \ {c} :
           listed'[d] = listed[d] /\ reply'[d] = reply[d] /\ phase'[d] = phase[d]
  BY <1>1 DEF CursorInv, TypeOK
<1>7. /\ listed'[c] \in Seq(Id) /\ Len(listed'[c]) = Len(listed[c]) + Len(new)
      /\ \A k \in 1..Len(listed'[c]) :
           listed'[c][k] = IF k <= Len(listed[c]) THEN listed[c][k] ELSE new[k - Len(listed[c])]
      /\ Range(listed'[c]) = Range(listed[c]) \cup a.page
  BY <1>2, <1>5, <1>6, ConcatProperties, RangeConcatenation
<1>8. TypeOK'
  <2>1. listed' \in [Client -> Seq(Id)] /\ phase' \in [Client -> {"idle", "paging", "done"}]
    BY <1>1, <1>6, <1>7 DEF CursorInv, TypeOK
  <2>2. reply' \in [Client -> [page : SUBSET Id, lastID : 0..MaxId, hasMore : BOOLEAN]]
    <3>1. a \in [page : SUBSET Id, lastID : 0..MaxId, hasMore : BOOLEAN]
      BY <1>4
    <3> QED
      BY <1>1, <3>1 DEF CursorInv, TypeOK
  <2>3. \A d \in Client : Cardinality(reply'[d].page) <= MaxSize
    BY <1>4, <1>6 DEF CursorInv, TypeOK
  <2> QED
    BY <1>1, <2>1, <2>2, <2>3 DEF CursorInv, TypeOK
<1>9. ASSUME NEW d \in Client, d # c PROVE ClientInv(d)'
  BY <1>1, <1>6, <1>9 DEF CursorInv, ClientInv, NothingYet, DueMatches, Matching, UpToCursor,
     Ascending, Complete
<1>10. ClientInv(c)'
  <2>1. ClientInv(c)
    BY DEF CursorInv
  <2>2. /\ \A k \in 1..Len(listed[c]) : listed[c][k] <= lastID /\ listed[c][k] \in Nat
        /\ Len(listed[c]) \in Nat
    BY <1>1, <1>2, <2>1, LenProperties, MaxIdAssumption DEF ClientInv, UpToCursor, Id
  <2>3. /\ \A k \in 1..Len(new) : lastID < new[k] /\ new[k] <= a.lastID /\ new[k] \in Nat
        /\ Len(new) \in Nat
    <3>1. Len(new) \in Nat /\ DOMAIN new = 1..Len(new)
      BY <1>5, LenProperties
    <3>2. \A k \in 1..Len(new) : new[k] \in a.page
      BY <1>5, <3>1 DEF Range
    <3>3. \A i \in a.page : lastID < i /\ i <= a.lastID /\ i \in Nat
      BY <1>2, <1>3, <1>4, Numbers DEF PageIs
    <3> QED
      BY <3>1, <3>2, <3>3
  <2>4. Ascending(c)'
    <3> DEFINE n == Len(listed[c])
    <3>1. \A j, k \in 1..Len(listed'[c]) : j < k => listed'[c][j] < listed'[c][k]
      <4> SUFFICES ASSUME NEW j \in 1..(n + Len(new)), NEW k \in 1..(n + Len(new)), j < k
                   PROVE  listed'[c][j] < listed'[c][k]
        BY <1>7
      <4>1. CASE k <= n
        <5>1. listed[c][j] < listed[c][k]
          BY <1>2, <2>1, <2>2, <4>1 DEF ClientInv, Ascending, Increasing
        <5> QED
          BY <1>7, <2>2, <4>1, <5>1
      <4>2. CASE j <= n /\ n < k
        <5>1. k - n \in 1..Len(new) /\ j \in 1..n
          BY <2>2, <2>3, <4>2
        <5>2. listed'[c][j] = listed[c][j] /\ listed'[c][k] = new[k - n]
          BY <1>7, <2>2, <2>3, <4>2
        <5> QED
          BY <1>2, <2>2, <2>3, <5>1, <5>2
      <4>3. CASE n < j
        <5>1. j - n \in 1..Len(new) /\ k - n \in 1..Len(new) /\ j - n < k - n
          BY <2>2, <2>3, <4>3
        <5>2. new[j - n] < new[k - n]
          BY <1>5, <5>1 DEF Increasing
        <5> QED
          BY <1>7, <2>2, <2>3, <4>3, <5>2
      <4> QED
        BY <2>2, <4>1, <4>2, <4>3
    <3> QED
      BY <1>7, <3>1, LenProperties DEF Ascending, Increasing
  <2>5. DueMatches(c)'
    BY <1>1, <2>1 DEF ClientInv, DueMatches, Matching
  <2>6. due[c] \subseteq S
    BY <2>1 DEF ClientInv, DueMatches, S
  <2>7. \A i \in due[c] : i <= lastID => i \in Range(listed[c])
    BY <1>1, <2>1 DEF ClientInv, UpToCursor
  <2>8. \A i \in due[c] : i \in Nat
    BY <1>2, <2>6, Numbers
  <2>9. CASE a.hasMore
    <3>1. \A k \in 1..Len(listed'[c]) : listed'[c][k] <= a.lastID
      <4>1. a.lastID \in Nat /\ lastID < a.lastID
        BY <1>2, <1>3, <1>4, <2>9, MaxIdAssumption DEF PageIs
      <4> SUFFICES ASSUME NEW k \in 1..Len(listed'[c]) PROVE listed'[c][k] <= a.lastID
        OBVIOUS
      <4>2. CASE k <= Len(listed[c])
        <5>1. listed'[c][k] = listed[c][k] /\ k \in 1..Len(listed[c])
          BY <1>7, <2>2, <4>2
        <5> QED
          BY <1>2, <2>2, <4>1, <5>1
      <4>3. CASE k > Len(listed[c])
        <5>1. k - Len(listed[c]) \in 1..Len(new)
          BY <1>7, <2>2, <2>3, <4>3
        <5>2. listed'[c][k] = new[k - Len(listed[c])]
          BY <1>7, <2>2, <4>3
        <5> QED
          BY <2>3, <5>1, <5>2
      <4> QED
        BY <1>7, <2>2, <4>2, <4>3
    <3>2. \A i \in due[c] : i <= a.lastID => i \in Range(listed'[c])
      BY <1>2, <1>3, <1>7, <2>6, <2>7, <2>8, <2>9 DEF PageIs
    <3>3. NothingYet(c)' /\ UpToCursor(c)' /\ Complete(c)'
      BY <1>1, <1>6, <2>9, <3>1, <3>2 DEF NothingYet, UpToCursor, Complete
    <3> QED
      BY <2>4, <2>5, <3>3 DEF ClientInv
  <2>10. CASE ~a.hasMore
    <3>1. due[c] \subseteq Range(listed'[c])
      BY <1>2, <1>3, <1>7, <2>6, <2>7, <2>8, <2>10 DEF PageIs
    <3>2. NothingYet(c)' /\ UpToCursor(c)' /\ Complete(c)'
      BY <1>1, <1>6, <2>10, <3>1 DEF NothingYet, UpToCursor, Complete
    <3> QED
      BY <2>4, <2>5, <3>2 DEF ClientInv
  <2> QED
    BY <2>9, <2>10
<1> QED
  BY <1>8, <1>9, <1>10 DEF CursorInv

\* Every step keeps the invariant.
LEMMA CursorStep == ASSUME CursorInv, [Next]_vars PROVE CursorInv'
<1>1. CASE UNCHANGED vars
  BY <1>1 DEF vars, tableVars, clientVars, CursorInv, TypeOK, ClientInv, NothingYet, DueMatches,
     Matching, UpToCursor, Ascending, Increasing, Complete
<1> QED
  BY <1>1, FirstQueryInv, NextPageInv, TableInv DEF Next

\* The invariant holds for ever.
LEMMA CursorInvariant == Spec => []CursorInv
  BY CursorInit, CursorStep, PTL DEF Spec

\* The types, and that no page exceeds MaxSize.
THEOREM CursorTyped == Spec => []TypeOK
  BY CursorInvariant, PTL DEF CursorInv

\* Whatever happens between two pages, ids come in ascending order, none twice.
THEOREM ListsAscend == Spec => []ListedAscending
<1>1. CursorInv => ListedAscending
  <2> SUFFICES ASSUME CursorInv, NEW c \in Client, NEW j \in 1..Len(listed[c]),
                      NEW k \in 1..Len(listed[c]), j < k
               PROVE  listed[c][j] < listed[c][k]
    BY DEF ListedAscending
  <2>1. Increasing(listed[c]) /\ listed[c] \in Seq(Id)
    BY DEF CursorInv, ClientInv, Ascending, TypeOK
  <2>2. DOMAIN listed[c] = 1..Len(listed[c])
    BY <2>1, LenProperties
  <2> QED
    BY <2>1, <2>2 DEF Increasing
<1> QED
  BY <1>1, CursorInvariant, PTL

\* Nobody who matches from the first page to the last is missed.
THEOREM PagingMissesNobody == Spec => []NobodySkipped
<1>1. CursorInv => NobodySkipped
  BY DEF CursorInv, ClientInv, Complete, NobodySkipped
<1> QED
  BY <1>1, CursorInvariant, PTL
=============================================================================
