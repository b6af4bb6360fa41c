-------------------------- MODULE StudentApiProofs --------------------------
(***************************************************************************)
(* Proofs about the requests to the service, any number of them at once:   *)
(* an address gets no more through than its rate, a refusal leaves no      *)
(* trace, an addition is confirmed only to the one who made it, and the    *)
(* reply to an upload counts the students of the sheet, of any length.     *)
(***************************************************************************)
EXTENDS StudentApi, FiniteSetTheorems, SequenceTheorems, TLAPS

\* An address has one limiter, made by a request that has arrived, and what it
\* let through was taken from the bucket.
LimiterInv ==
  /\ \A r \in Request : stage[r] = "new" => \A ip \in Ip : limiterMap[ip] # r
  /\ \A a, b \in Ip : limiterMap[a] = limiterMap[b] /\ limiterMap[a] # NoLimiter => a = b
  /\ \A r \in Request : stage[r] = "limit" =>
       held[r] = limiterMap[form[r].ip] /\ held[r] # NoLimiter
  /\ \A ip \in Ip :
       IF limiterMap[ip] = NoLimiter THEN admitted[ip] = 0
       ELSE tokens[limiterMap[ip]] + admitted[ip] <= Burst + ticks

\* A row that is not there was made by nobody.
MakerInv == \A id \in Id : table[id] = "none" => maker[id] = Nobody

\* Every request has its record of what it uploaded.
UploadFunction == upload = [r \in Request |-> upload[r]]

Done(r) == reply[r] # 0 => stage[r] = "done"

\* Up to its transaction a request has done nothing.
Clean(r) ==
  stage[r] \in {"new", "limit", "handle", "write"}
    => r \notin changed \cup audited /\ upload[r] = NoUpload

Refused(r) ==
  reply[r] \in {400, 401, 404, 409, 429}
    => r \notin changed \cup audited /\ upload[r] = NoUpload

Added(r) ==
  form[r].kind = "add" /\ (stage[r] = "publish" \/ reply[r] = 200)
    => \E id \in Id : maker[id] = r /\ form[r].id \in {0, id}

\* The rows of a sheet that name a student; what is recorded of the upload is
\* no more than they say, and a reply that counts them counts them all.
NamedIn(sheet) == {k \in 2..Len(sheet) : sheet[k].name # Blank}

RecordsTrue(sheet, u) ==
  /\ u.success <= Cardinality(NamedIn(sheet))
  /\ \A s \in u.records : /\ s.score \in 0..100 /\ s.class_id >= 0
                          /\ \E k \in NamedIn(sheet) : sheet[k].name = s.name

UploadTrue(sheet, u) ==
  /\ NamedIn(sheet) # {} /\ u.total = Cardinality(NamedIn(sheet))
  /\ RecordsTrue(sheet, u)

\* An upload has no transaction and no event, and its reply is true.
Uploaded(r) ==
  form[r].kind = "upload" =>
    /\ stage[r] \notin {"write", "publish"}
    /\ reply[r] = 200 => UploadTrue(form[r].sheet, upload[r])

RequestInv ==
  \A r \in Request : Done(r) /\ Clean(r) /\ Refused(r) /\ Added(r) /\ Uploaded(r)

ApiInv == TypeOK /\ LimiterInv /\ MakerInv /\ UploadFunction /\ RequestInv
-----------------------------------------------------------------------------
(* The uploaded sheet                                                      *)

\* The rows that name a student, among the first k.
Named(rows, k) == {j \in 1..k : ~Skipped(rows[j])}

\* The students of all rows that name one.
Students(rows) == {Student(rows[j]) : j \in Named(rows, Len(rows))}

\* Whatever holds for 0 and goes from each number to the next holds for all.
LEMMA Upwards ==
  ASSUME NEW S \in SUBSET Nat, 0 \in S, \A m \in S : m + 1 \in S
  PROVE  S = Nat
<1> DEFINE T == Nat \ S
<1>1. ASSUME T # {} PROVE FALSE
  <2>1. PICK m \in T : \A j \in T : <<j, m>> \notin OpToRel(<, Nat)
    BY <1>1, NatLessThanWellFounded, WFMin
  <2>2. m # 0 /\ m \in Nat
    OBVIOUS
  <2>3. m - 1 \in Nat /\ m - 1 < m /\ (m - 1) + 1 = m
    BY <2>2
  <2>4. m - 1 \notin T
    BY <2>1, <2>2, <2>3 DEF OpToRel
  <2> QED
    BY <2>3, <2>4
<1> QED
  BY <1>1

\* The students of the first k rows, before is what the k - 1 before it gave.
Parsed(rows, k, before) ==
  IF k = 0 THEN <<>>
  ELSE IF Skipped(rows[k]) THEN before
  ELSE Append(before, Student(rows[k]))

\* The recursion has a solution.
LEMMA ParseExists ==
  ASSUME NEW rows
  PROVE  \A n \in Nat : \E f : f = [k \in 0..n |-> Parsed(rows, k, f[k - 1])]
<1> DEFINE S == {n \in Nat : \E f : f = [k \in 0..n |-> Parsed(rows, k, f[k - 1])]}
<1>1. 0 \in S
  <2> DEFINE f == [k \in 0..0 |-> <<>>]
  <2>1. \A k \in 0..0 : k = 0
    OBVIOUS
  <2>2. f = [k \in 0..0 |-> Parsed(rows, k, f[k - 1])]
    BY <2>1 DEF Parsed
  <2> QED
    BY <2>2
<1>2. ASSUME NEW m \in S PROVE m + 1 \in S
  <2>1. PICK f : f = [k \in 0..m |-> Parsed(rows, k, f[k - 1])]
    OBVIOUS
  <2> DEFINE g == [k \in 0..(m + 1) |-> IF k = m + 1 THEN Parsed(rows, k, f[m]) ELSE f[k]]
  <2>2. ASSUME NEW k \in 0..(m + 1) PROVE g[k] = Parsed(rows, k, g[k - 1])
    <3>1. m \in Nat /\ k \in Nat
      OBVIOUS
    <3>2. CASE k = 0
      <4>1. 0 \in 0..m /\ k # m + 1
        BY <3>1, <3>2
      <4>2. g[k] = f[k] /\ f[k] = Parsed(rows, k, f[k - 1])
        BY <2>1, <3>2, <4>1
      <4> QED
        BY <3>2, <4>2 DEF Parsed
    <3>3. CASE k # 0 /\ k # m + 1
      <4>1. k \in 0..m /\ k - 1 \in 0..(m + 1) /\ k - 1 # m + 1
        BY <3>1, <3>3
      <4>2. g[k] = f[k] /\ g[k - 1] = f[k - 1]
        BY <3>3, <4>1
      <4>3. f[k] = Parsed(rows, k, f[k - 1])
        BY <2>1, <4>1
      <4> QED
        BY <4>2, <4>3
    <3>4. CASE k = m + 1
      <4>1. k - 1 = m /\ m \in 0..(m + 1) /\ m # m + 1
        BY <3>1, <3>4
      <4>2. g[k - 1] = f[m] /\ g[k] = Parsed(rows, k, f[m])
        BY <3>4, <4>1
      <4> QED
        BY <4>2
    <3> QED
      BY <3>2, <3>3, <3>4
  <2>3. g = [k \in 0..(m + 1) |-> Parsed(rows, k, g[k - 1])]
    <3> DEFINE h == [k \in 0..(m + 1) |-> Parsed(rows, k, g[k - 1])]
    <3>1. \A k \in 0..(m + 1) : h[k] = g[k]
      BY <2>2
    <3>2. h \in [0..(m + 1) -> {g[k] : k \in 0..(m + 1)}] /\ DOMAIN g = 0..(m + 1) /\ DOMAIN h = 0..(m + 1)
      BY <3>1
    <3> QED
      BY <3>1, <3>2
  <2> HIDE DEF g
  <2> QED
    BY <2>3
<1> HIDE DEF S
<1>3. S \subseteq Nat
  BY DEF S
<1>4. S = Nat
  BY <1>1, <1>2, <1>3, Upwards
<1> QED
  BY <1>4 DEF S

\* What ParseRows returns: as many students as rows name one, each of such a row.
LEMMA ParseFacts ==
  ASSUME NEW rows, Len(rows) \in Nat
  PROVE  /\ ParseRows(rows) \in Seq(Students(rows))
         /\ IsFiniteSet(Named(rows, Len(rows)))
         /\ Len(ParseRows(rows)) = Cardinality(Named(rows, Len(rows)))
<1> DEFINE n == Len(rows)
           f == CHOOSE f : f = [k \in 0..n |-> Parsed(rows, k, f[k - 1])]
<1>1. ParseRows(rows) = f[n]
  BY DEF ParseRows, Parsed
<1>2. f = [k \in 0..n |-> Parsed(rows, k, f[k - 1])]
  <2>1. \E g : g = [k \in 0..n |-> Parsed(rows, k, g[k - 1])]
    BY ParseExists
  <2> QED
    BY <2>1
<1> HIDE DEF f
<1>3. \A k \in 0..n : f[k] = Parsed(rows, k, f[k - 1])
  BY <1>2
<1> DEFINE Right(k) == /\ f[k] \in Seq(Students(rows))
                       /\ IsFiniteSet(Named(rows, k))
                       /\ Len(f[k]) = Cardinality(Named(rows, k))
           S == {k \in Nat : k <= n => Right(k)}
<1>4. 0 \in S
  <2>1. f[0] = <<>>
    BY <1>3 DEF Parsed
  <2>2. Named(rows, 0) = {}
    BY DEF Named
  <2> QED
    BY <2>1, <2>2, FS_EmptySet, EmptySeq
<1>5. ASSUME NEW m \in S PROVE m + 1 \in S
  <2>1. SUFFICES ASSUME m + 1 <= n PROVE Right(m + 1)
    OBVIOUS
  <2>2. m \in Nat /\ m + 1 \in Nat /\ Right(m)
    BY <2>1
  <2>3. m + 1 \in 0..n /\ m + 1 # 0 /\ (m + 1) - 1 = m /\ m + 1 \in 1..(m + 1)
    BY <2>1, <2>2
  <2>4. f[m + 1] = Parsed(rows, m + 1, f[m])
    BY <1>3, <2>3
  <2>5. \A j : j \in 1..(m + 1) <=> j \in 1..m \/ j = m + 1
    BY <2>2
  <2>6. CASE Skipped(rows[m + 1])
    <3>1. Named(rows, m + 1) = Named(rows, m)
      BY <2>5, <2>6 DEF Named
    <3>2. f[m + 1] = f[m]
      BY <2>3, <2>4, <2>6 DEF Parsed
    <3> QED
      BY <2>2, <3>1, <3>2
  <2>7. CASE ~Skipped(rows[m + 1])
    <3>1. Named(rows, m + 1) = Named(rows, m) \cup {m + 1}
      BY <2>5, <2>7 DEF Named
    <3>2. m + 1 \notin Named(rows, m)
      BY <2>2 DEF Named
    <3>3. Student(rows[m + 1]) \in Students(rows)
      <4>1. m + 1 \in Named(rows, n)
        BY <2>1, <2>2, <2>7 DEF Named
      <4> QED
        BY <4>1 DEF Students
    <3>4. f[m + 1] = Append(f[m], Student(rows[m + 1]))
      BY <2>3, <2>4, <2>7 DEF Parsed
    <3>5. f[m + 1] \in Seq(Students(rows)) /\ Len(f[m + 1]) = Len(f[m]) + 1
      BY <2>2, <3>3, <3>4, AppendProperties
    <3>6. /\ IsFiniteSet(Named(rows, m + 1))
          /\ Cardinality(Named(rows, m + 1)) = Cardinality(Named(rows, m)) + 1
      BY <2>2, <3>1, <3>2, FS_AddElement
    <3> QED
      BY <2>2, <3>5, <3>6
  <2> QED
    BY <2>6, <2>7
<1> HIDE DEF Right, S
<1>6. S \subseteq Nat
  BY DEF S
<1>7. S = Nat
  BY <1>4, <1>5, <1>6, Upwards
<1>8. Right(n)
  BY <1>7 DEF S
<1> QED
  BY <1>1, <1>8 DEF Right

\* What an uploaded sheet stands for: a student for each row after the header
\* that names one, with values the columns can hold.
LEMMA SheetFacts ==
  ASSUME NEW sheet, sheet \in Seq(Range(sheet))
  PROVE  /\ Cardinality(NamedIn(sheet)) \in Nat
         /\ IsFiniteSet(DOMAIN ParseStudentExcel(sheet))
         /\ Len(ParseStudentExcel(sheet)) = Cardinality(DOMAIN ParseStudentExcel(sheet))
         /\ ParseStudentExcel(sheet) # <<>> =>
              /\ NamedIn(sheet) # {}
              /\ Len(ParseStudentExcel(sheet)) = Cardinality(NamedIn(sheet))
         /\ \A k \in DOMAIN ParseStudentExcel(sheet) :
              /\ ParseStudentExcel(sheet)[k].score \in 0..100
              /\ ParseStudentExcel(sheet)[k].class_id >= 0
              /\ \E j \in NamedIn(sheet) : sheet[j].name = ParseStudentExcel(sheet)[k].name
<1> DEFINE students == ParseStudentExcel(sheet)
           named == NamedIn(sheet)
           rows == Tail(sheet)
           R == Named(rows, Len(rows))
<1>1. Len(sheet) \in Nat
  BY LenProperties
<1>2. named = {k \in 2..Len(sheet) : sheet[k].name # Blank}
  BY DEF NamedIn
<1>3. IsFiniteSet(named) /\ Cardinality(named) \in Nat
  <2>1. IsFiniteSet(2..Len(sheet))
    BY <1>1, FS_Interval
  <2> QED
    BY <1>2, <2>1, FS_Subset, FS_CardinalityType
<1> HIDE DEF students, named
<1>4. \A n \in Nat : IsFiniteSet(1..n) /\ Cardinality(1..n) = n
  BY FS_Interval
<1>5. CASE Len(sheet) < 2
  <2>1. students = <<>> /\ DOMAIN students = {} /\ Len(students) = 0
    BY <1>5 DEF ParseStudentExcel, students
  <2> QED
    BY <1>3, <2>1, FS_EmptySet DEF students, named
<1>6. CASE ~(Len(sheet) < 2)
  <2>1. sheet # <<>>
    BY <1>1, <1>6, EmptySeq
  <2>2. /\ Len(rows) = Len(sheet) - 1 /\ Len(rows) \in Nat
        /\ \A j \in 1..Len(rows) : rows[j] = sheet[j + 1]
    BY <1>1, <1>6, <2>1, HeadTailProperties
  <2>3. students = ParseRows(rows)
    BY <1>6 DEF ParseStudentExcel, students
  <2> HIDE DEF rows
  <2>4. students \in Seq(Students(rows)) /\ IsFiniteSet(R) /\ Len(students) = Cardinality(R)
    BY <2>2, <2>3, ParseFacts
  <2>5. \A j \in R : j \in 1..Len(rows) /\ j + 1 \in named /\ rows[j] = sheet[j + 1]
    BY <1>1, <1>2, <2>2 DEF Named, Skipped
  <2>6. \A k \in named : k \in Nat /\ k - 1 \in R /\ (k - 1) + 1 = k
    <3> SUFFICES ASSUME NEW k \in named PROVE k \in Nat /\ k - 1 \in R /\ (k - 1) + 1 = k
      OBVIOUS
    <3>1. k \in 2..Len(sheet) /\ sheet[k].name # Blank
      BY <1>2
    <3>2. k \in Nat /\ k - 1 \in 1..Len(rows) /\ (k - 1) + 1 = k
      BY <1>1, <2>2, <3>1
    <3> QED
      BY <2>2, <3>1, <3>2 DEF Named, Skipped
  <2>7. Cardinality(named) = Cardinality(R)
    <3> DEFINE f == [j \in R |-> j + 1]
    <3>1. f \in [R -> named] /\ \A j \in R : f[j] = j + 1 /\ j \in Nat
      BY <2>2, <2>5
    <3>2. \A i, j \in R : f[i] = f[j] => i = j
      BY <3>1
    <3>3. \A k \in named : \E j \in R : f[j] = k
      BY <2>6, <3>1
    <3> HIDE DEF f
    <3>4. f \in Bijection(R, named)
      BY <3>1, <3>2, <3>3 DEF Bijection, Injection, Surjection, IsInjective, ExistsBijection
    <3> QED
      BY <2>4, <3>4, FS_Bijection DEF ExistsBijection
  <2>8. DOMAIN students = 1..Len(students) /\ Len(students) \in Nat
    BY <2>4, LenProperties
  <2>9. students # <<>> => named # {}
    <3>1. students # <<>> => R # {}
      BY <2>4, <2>8, FS_EmptySet, EmptySeq
    <3> QED
      BY <2>5, <3>1
  <2>10. ASSUME NEW k \in DOMAIN students
         PROVE  /\ students[k].score \in 0..100 /\ students[k].class_id >= 0
                /\ \E j \in named : sheet[j].name = students[k].name
    <3>1. students[k] \in Students(rows)
      BY <2>4, <2>8, ElementOfSeq
    <3>2. PICK j \in R : students[k] = Student(rows[j])
      BY <3>1 DEF Students
    <3>3. j + 1 \in named /\ rows[j] = sheet[j + 1]
      BY <2>5
    <3>4. /\ students[k].name = rows[j].name
          /\ students[k].score = Score(rows[j].score)
          /\ students[k].class_id = ClassID(rows[j].class)
      BY <3>2 DEF Student
    <3>5. Score(rows[j].score) \in 0..100 /\ ClassID(rows[j].class) >= 0
      BY DEF Score, ClassID
    <3> QED
      BY <3>3, <3>4, <3>5
  <2> HIDE DEF R
  <2> QED
    BY <1>3, <1>4, <2>4, <2>7, <2>8, <2>9, <2>10 DEF students, named
<1> QED
  BY <1>5, <1>6
-----------------------------------------------------------------------------
\* The start.
LEMMA ApiInit == ASSUME Init PROVE ApiInv
<1> USE DEF Init, RLInit, CCInit
<1>1. TypeOK
  <2>1. form \in [Request -> Form]
    BY FormAssumption
  <2>2. RLTypeOK
    BY BurstAssumption, MaxTicksAssumption DEF RLTypeOK
  <2>3. CCTypeOK
    BY DEF CCTypeOK
  <2>4. faults \in 0..MaxFaults
    BY BoundsAssumption
  <2> QED
    BY <2>1, <2>2, <2>3, <2>4 DEF TypeOK, Nobody
<1>2. LimiterInv
  BY NoLimiterAssumption DEF LimiterInv
<1>3. MakerInv /\ UploadFunction /\ RequestInv
  BY DEF MakerInv, UploadFunction, RequestInv, Done, Clean, Refused, Added, Uploaded
<1> QED
  BY <1>1, <1>2, <1>3 DEF ApiInv

\* What the type invariant says, part by part.
LEMMA ApiTypes ==
  ASSUME ApiInv
  PROVE  /\ RLTypeOK /\ CCTypeOK
         /\ form \in [Request -> Form]
         /\ stage \in [Request -> {"new", "limit", "handle", "write", "publish", "done"}]
         /\ reply \in [Request -> {0, 200, 400, 401, 404, 409, 429, 500}]
         /\ table \in [Id -> {"none", "live", "deleted"}]
         /\ maker \in [Id -> Request \cup {Nobody}]
         /\ changed \subseteq Request /\ audited \subseteq Request
         /\ faults \in 0..MaxFaults
  BY DEF ApiInv, TypeOK

\* A fault is counted.
LEMMA FaultCounts ==
  ASSUME ApiInv, Fault \/ UNCHANGED faults PROVE faults' \in 0..MaxFaults
  BY ApiTypes, BoundsAssumption DEF Fault

\* A step of a handler that touches neither limiter nor data: it goes on, or
\* replies as its stage allows.
LEMMA HandlerStep ==
  ASSUME ApiInv, NEW r \in Request, stage[r] \in {"handle", "write", "publish"},
         UNCHANGED <<limitVars, form, dataVars>>,
         CCTypeOK', faults' \in 0..MaxFaults,
         NEW s \in {"write", "publish"}, NEW status \in {200, 400, 404, 409, 500},
         \/ /\ Goto(r, s)
            /\ stage[r] = "handle" /\ form[r].kind # "upload"
            /\ s = "publish" => form[r].kind # "add"
         \/ /\ Reply(r, status)
            /\ status = 200 => /\ form[r].kind # "upload"
                               /\ form[r].kind # "add" \/ stage[r] = "publish"
            /\ status \in {400, 404, 409} => stage[r] = "handle"
  PROVE  ApiInv'
<1> USE ApiTypes
<1>1. /\ UNCHANGED <<limiterMap, held, tokens, ticks, admitted>>
      /\ UNCHANGED <<form, table, maker, changed, audited, upload>>
  BY DEF limitVars, dataVars
<1>2. reply[r] = 0
  BY DEF ApiInv, RequestInv, Done
<1>3. /\ stage' \in [Request -> {"new", "limit", "handle", "write", "publish", "done"}]
      /\ reply' \in [Request -> {0, 200, 400, 401, 404, 409, 429, 500}]
      /\ \A q \in Request \ {r} : stage'[q] = stage[q] /\ reply'[q] = reply[q]
      /\ \/ /\ stage'[r] = s /\ reply'[r] = 0 /\ stage[r] = "handle"
            /\ form[r].kind # "upload"
            /\ s = "publish" => form[r].kind # "add"
         \/ /\ stage'[r] = "done" /\ reply'[r] = status
            /\ status = 200 => /\ form[r].kind # "upload"
                               /\ form[r].kind # "add" \/ stage[r] = "publish"
            /\ status \in {400, 404, 409} => stage[r] = "handle"
  BY <1>2 DEF Goto, Reply
<1>4. TypeOK'
  BY <1>1, <1>3 DEF TypeOK, RLTypeOK
<1>5. LimiterInv'
  BY <1>1, <1>3 DEF ApiInv, LimiterInv
<1>6. MakerInv' /\ UploadFunction'
  BY <1>1 DEF ApiInv, MakerInv, UploadFunction
<1>7. ASSUME NEW q \in Request PROVE Done(q)' /\ Clean(q)' /\ Refused(q)' /\ Added(q)' /\ Uploaded(q)'
  <2>1. Done(q) /\ Clean(q) /\ Refused(q) /\ Added(q) /\ Uploaded(q)
    BY DEF ApiInv, RequestInv
  <2>2. CASE q # r
    BY <1>1, <1>3, <2>1, <2>2 DEF Done, Clean, Refused, Added, Uploaded
  <2>3. CASE q = r
    BY <1>1, <1>3, <2>1, <2>3 DEF Done, Clean, Refused, Added, Uploaded
  <2> QED
    BY <2>2, <2>3
<1> QED
  BY <1>4, <1>5, <1>6, <1>7 DEF ApiInv, RequestInv

\* GetLimiter finds the limiter of the address or makes the one.
LEMMA ArriveInv ==
  ASSUME ApiInv, NEW r \in Request, Arrive(r)
  PROVE  ApiInv'
<1> USE ApiTypes
<1>1. PICK f \in Form : form' = [form EXCEPT ![r] = f] /\ GetLimiter(r, f.ip)
  BY DEF Arrive
<1> DEFINE ip == f.ip
<1>2. ip \in Ip
  BY FormAssumption
<1>3. /\ stage[r] = "new" /\ reply[r] = 0
      /\ stage' = [stage EXCEPT ![r] = "limit"]
      /\ UNCHANGED <<reply, table, maker, changed, audited, upload, faults>>
      /\ UNCHANGED <<classLive, classCache, lookup, fill, ticks, admitted>>
  BY DEF Arrive, Goto, classVars, dataVars, GetLimiter, ApiInv, RequestInv, Done
<1>4. /\ form' \in [Request -> Form] /\ form'[r] = f
      /\ stage' \in [Request -> {"new", "limit", "handle", "write", "publish", "done"}]
      /\ stage'[r] = "limit"
      /\ \A q \in Request \ {r} : stage'[q] = stage[q] /\ form'[q] = form[q]
  BY <1>1, <1>3
<1>5. /\ limiterMap \in [Ip -> Request \cup {NoLimiter}]
      /\ held \in [Request -> Request \cup {NoLimiter}]
      /\ tokens \in [Request -> 0..Burst]
      /\ Burst \in Nat /\ ticks \in Nat /\ r # NoLimiter
      /\ admitted \in [Ip -> Nat]
  BY BurstAssumption, MaxTicksAssumption, NoLimiterAssumption DEF RLTypeOK
<1>6. \/ /\ limiterMap[ip] # NoLimiter /\ held' = [held EXCEPT ![r] = limiterMap[ip]]
         /\ UNCHANGED <<limiterMap, tokens>>
      \/ /\ limiterMap[ip] = NoLimiter /\ held' = [held EXCEPT ![r] = r]
         /\ limiterMap' = [limiterMap EXCEPT ![ip] = r]
         /\ tokens' = [tokens EXCEPT ![r] = Burst]
  BY <1>1 DEF GetLimiter, Known
<1> HIDE DEF ip
<1>7. /\ held' \in [Request -> Request \cup {NoLimiter}]
      /\ \A q \in Request \ {r} : held'[q] = held[q] /\ tokens'[q] = tokens[q]
      /\ \A b \in Ip \ {ip} : limiterMap'[b] = limiterMap[b]
      /\ limiterMap'[ip] # NoLimiter /\ held'[r] = limiterMap'[ip]
      /\ limiterMap[ip] # NoLimiter => limiterMap'[ip] = limiterMap[ip]
      /\ limiterMap[ip] # NoLimiter => tokens' = tokens
      /\ limiterMap[ip] = NoLimiter => tokens'[r] = Burst /\ limiterMap'[ip] = r
      /\ limiterMap' \in [Ip -> Request \cup {NoLimiter}]
      /\ tokens' \in [Request -> 0..Burst]
  BY <1>2, <1>5, <1>6
<1>8. TypeOK'
  <2>1. RLTypeOK' /\ CCTypeOK'
    BY <1>3, <1>7 DEF RLTypeOK, CCTypeOK
  <2> QED
    BY <1>3, <1>4, <2>1 DEF TypeOK
<1>9. LimiterInv'
  <2>1. \A q \in Request : stage'[q] = "new" => q # r /\ \A b \in Ip : limiterMap'[b] # q
    BY <1>3, <1>4, <1>7, <1>2 DEF ApiInv, LimiterInv
  <2>2. \A a, b \in Ip : limiterMap'[a] = limiterMap'[b] /\ limiterMap'[a] # NoLimiter => a = b
    BY <1>3, <1>5, <1>7, <1>2 DEF ApiInv, LimiterInv
  <2>3. ASSUME NEW q \in Request, stage'[q] = "limit"
        PROVE  held'[q] = limiterMap'[form'[q].ip] /\ held'[q] # NoLimiter
    <3>1. CASE q = r
      BY <1>4, <1>7, <3>1 DEF ip
    <3>2. CASE q # r
      <4>1. form[q].ip \in Ip /\ held[q] = limiterMap[form[q].ip] /\ held[q] # NoLimiter
        BY <1>4, <2>3, <3>2, FormAssumption DEF ApiInv, LimiterInv
      <4> QED
        BY <1>4, <1>7, <3>2, <4>1
    <3> QED
      BY <3>1, <3>2
  <2>4. ASSUME NEW b \in Ip
        PROVE  IF limiterMap'[b] = NoLimiter THEN admitted'[b] = 0
               ELSE tokens'[limiterMap'[b]] + admitted'[b] <= Burst + ticks'
    <3>1. IF limiterMap[b] = NoLimiter THEN admitted[b] = 0
          ELSE tokens[limiterMap[b]] + admitted[b] <= Burst + ticks
      BY DEF ApiInv, LimiterInv
    <3>2. limiterMap[b] # r
      BY <1>3 DEF ApiInv, LimiterInv
    <3>3. CASE limiterMap'[b] = limiterMap[b]
      <4>1. limiterMap[b] # NoLimiter => tokens'[limiterMap[b]] = tokens[limiterMap[b]]
        BY <1>5, <1>7, <3>2
      <4> QED
        BY <1>3, <3>1, <3>3, <4>1
    <3>4. CASE limiterMap'[b] # limiterMap[b]
      <4>1. b = ip /\ limiterMap'[b] = r /\ tokens'[r] = Burst /\ limiterMap[b] = NoLimiter
        BY <1>7, <3>4
      <4> QED
        BY <1>3, <1>5, <3>1, <4>1
    <3> QED
      BY <3>3, <3>4
  <2> QED
    BY <2>1, <2>2, <2>3, <2>4 DEF LimiterInv
<1>10. MakerInv' /\ UploadFunction'
  BY <1>3 DEF ApiInv, MakerInv, UploadFunction
<1>11. ASSUME NEW q \in Request PROVE Done(q)' /\ Clean(q)' /\ Refused(q)' /\ Added(q)' /\ Uploaded(q)'
  <2>1. Done(q) /\ Clean(q) /\ Refused(q) /\ Added(q) /\ Uploaded(q)
    BY DEF ApiInv, RequestInv
  <2>2. CASE q # r
    BY <1>3, <1>4, <2>1, <2>2 DEF Done, Clean, Refused, Added, Uploaded
  <2>3. CASE q = r
    BY <1>3, <1>4, <2>1, <2>3 DEF Done, Clean, Refused, Added, Uploaded
  <2> QED
    BY <2>2, <2>3
<1> QED
  BY <1>8, <1>9, <1>10, <1>11 DEF ApiInv, RequestInv

\* A request that passes takes a token of its address.
LEMMA AdmitInv ==
  ASSUME ApiInv, NEW r \in Request, Admit(r)
  PROVE  ApiInv'
<1> USE ApiTypes
<1> DEFINE ip == form[r].ip
           l == held[r]
<1>1. /\ stage[r] = "limit" /\ reply[r] = 0
      /\ UNCHANGED <<form, table, maker, changed, audited, upload, faults>>
      /\ UNCHANGED <<classLive, classCache, lookup, fill, limiterMap, held, ticks>>
  BY DEF Admit, TakeToken, limitVars, classVars, dataVars, ApiInv, RequestInv, Done
<1>2. ip \in Ip /\ l = limiterMap[ip] /\ l \in Request
  BY <1>1, FormAssumption DEF ApiInv, LimiterInv, RLTypeOK
<1>3. PICK s \in {"handle", "done"}, status \in {0, 401, 429} :
        /\ stage' = [stage EXCEPT ![r] = s] /\ reply' = [reply EXCEPT ![r] = status]
        /\ status # 0 => s = "done"
        /\ s = "done" => status # 0
  <2>1. Goto(r, "handle") => stage' = [stage EXCEPT ![r] = "handle"] /\ reply' = [reply EXCEPT ![r] = 0]
    BY <1>1 DEF Goto
  <2>2. \A st \in {401, 429} : Reply(r, st) =>
          stage' = [stage EXCEPT ![r] = "done"] /\ reply' = [reply EXCEPT ![r] = st]
    BY <1>1 DEF Reply
  <2>3. Goto(r, "handle") \/ Reply(r, 401) \/ Reply(r, 429)
    BY DEF Admit, Refuse
  <2> QED
    BY <2>1, <2>2, <2>3
<1>4. /\ stage' \in [Request -> {"new", "limit", "handle", "write", "publish", "done"}]
      /\ reply' \in [Request -> {0, 200, 400, 401, 404, 409, 429, 500}]
      /\ stage'[r] = s /\ reply'[r] = status
      /\ \A q \in Request \ {r} : stage'[q] = stage[q] /\ reply'[q] = reply[q]
  BY <1>3
<1>5. /\ tokens \in [Request -> 0..Burst] /\ admitted \in [Ip -> Nat]
      /\ limiterMap \in [Ip -> Request \cup {NoLimiter}]
      /\ Burst \in Nat /\ ticks \in Nat /\ NoLimiter \notin Request
  BY BurstAssumption, MaxTicksAssumption, NoLimiterAssumption DEF RLTypeOK
<1>6. \/ UNCHANGED <<tokens, admitted>>
      \/ /\ tokens[l] > 0
         /\ tokens' = [tokens EXCEPT ![l] = @ - 1]
         /\ admitted' = [admitted EXCEPT ![ip] = @ + 1]
  BY DEF Admit, TakeToken, Allowed, limitVars
<1> HIDE DEF ip, l
<1>7. tokens' \in [Request -> 0..Burst] /\ admitted' \in [Ip -> Nat]
  BY <1>2, <1>5, <1>6
<1>8. TypeOK'
  <2>1. RLTypeOK' /\ CCTypeOK'
    BY <1>1, <1>7 DEF RLTypeOK, CCTypeOK
  <2> QED
    BY <1>1, <1>4, <2>1 DEF TypeOK
<1>9. LimiterInv'
  <2>1. ASSUME NEW b \in Ip
        PROVE  IF limiterMap[b] = NoLimiter THEN admitted'[b] = 0
               ELSE tokens'[limiterMap[b]] + admitted'[b] <= Burst + ticks
    <3>1. IF limiterMap[b] = NoLimiter THEN admitted[b] = 0
          ELSE tokens[limiterMap[b]] + admitted[b] <= Burst + ticks
      BY DEF ApiInv, LimiterInv
    <3>2. CASE UNCHANGED <<tokens, admitted>>
      BY <3>1, <3>2
    <3>3. CASE ~UNCHANGED <<tokens, admitted>> /\ b = ip
      <4>1. limiterMap[b] = l /\ l # NoLimiter
        BY <1>2, <1>5, <3>3
      <4>2. tokens'[l] = tokens[l] - 1 /\ admitted'[b] = admitted[b] + 1
        BY <1>2, <1>5, <1>6, <3>3
      <4>3. tokens[l] \in Nat /\ admitted[b] \in Nat
        BY <1>2, <1>5
      <4> QED
        BY <1>5, <3>1, <4>1, <4>2, <4>3
    <3>4. CASE ~UNCHANGED <<tokens, admitted>> /\ b # ip
      <4>1. limiterMap[b] # l
        BY <1>2, <1>5, <3>4 DEF ApiInv, LimiterInv
      <4>2. admitted'[b] = admitted[b]
        BY <1>5, <1>6, <3>4
      <4>3. limiterMap[b] # NoLimiter => tokens'[limiterMap[b]] = tokens[limiterMap[b]]
        BY <1>5, <1>6, <3>4, <4>1
      <4> QED
        BY <3>1, <4>2, <4>3
    <3> QED
      BY <3>2, <3>3, <3>4
  <2>2. \A q \in Request : (stage'[q] = "new" \/ stage'[q] = "limit") => stage'[q] = stage[q]
    BY <1>4
  <2> QED
    BY <1>1, <2>1, <2>2 DEF ApiInv, LimiterInv
<1>10. MakerInv' /\ UploadFunction'
  BY <1>1 DEF ApiInv, MakerInv, UploadFunction
<1>11. ASSUME NEW q \in Request PROVE Done(q)' /\ Clean(q)' /\ Refused(q)' /\ Added(q)' /\ Uploaded(q)'
  <2>1. Done(q) /\ Clean(q) /\ Refused(q) /\ Added(q) /\ Uploaded(q)
    BY DEF ApiInv, RequestInv
  <2>2. CASE q # r
    BY <1>1, <1>4, <2>1, <2>2 DEF Done, Clean, Refused, Added, Uploaded
  <2>3. CASE q = r
    BY <1>1, <1>3, <1>4, <2>1, <2>3 DEF Done, Clean, Refused, Added, Uploaded
  <2> QED
    BY <2>2, <2>3
<1> QED
  BY <1>8, <1>9, <1>10, <1>11 DEF ApiInv, RequestInv

\* Binding, reading and the other steps of a handler outside a transaction.
LEMMA HandleInv ==
  ASSUME ApiInv, NEW r \in Request,
         Bind(r) \/ List(r) \/ Look(r) \/ RollBack(r) \/ Publish(r)
  PROVE  ApiInv'
<1> USE ApiTypes
<1>1. faults' \in 0..MaxFaults
  BY FaultCounts DEF Bind, List, Look, RollBack, Publish
<1>2. CASE Bind(r)
  BY <1>1, <1>2, HandlerStep DEF Bind, classVars, CCTypeOK
<1>3. CASE List(r)
  BY <1>1, <1>3, HandlerStep DEF List, Handles, classVars, CCTypeOK
<1>4. CASE Look(r)
  <2>1. CCTypeOK' /\ stage[r] = "handle" /\ UNCHANGED <<limitVars, form, dataVars>>
    BY <1>4 DEF Look, Handles, BeginLookup, classVars, CCTypeOK
  <2>2. /\ form[r].kind # "upload"
        /\ \/ Goto(r, "publish") /\ form[r].kind # "add"
           \/ Goto(r, "write")
           \/ Reply(r, 404) \/ Reply(r, 409) \/ Reply(r, 500)
           \/ Reply(r, 200) /\ form[r].kind # "add"
    BY <1>4 DEF Look, NotFound, Handles
  <2> QED
    BY <1>1, <2>1, <2>2, HandlerStep
<1>5. CASE RollBack(r)
  BY <1>1, <1>5, HandlerStep DEF RollBack, classVars, CCTypeOK
<1>6. CASE Publish(r)
  <2>1. stage[r] = "publish" /\ form[r].kind # "upload"
    BY <1>6 DEF Publish, ApiInv, RequestInv, Uploaded
  <2>2. /\ UNCHANGED <<limitVars, form, dataVars>> /\ CCTypeOK'
        /\ Reply(r, 200) \/ Reply(r, 500)
    BY <1>6 DEF Publish, classVars, CCTypeOK
  <2> QED
    BY <1>1, <2>1, <2>2, HandlerStep
<1> QED
  BY <1>2, <1>3, <1>4, <1>5, <1>6

\* What an upload records of itself is true.
LEMMA UploadRecorded ==
  ASSUME ApiInv, NEW r \in Request, ImportStudents(r)
  PROVE  \/ Reply(r, 400) /\ UNCHANGED upload
         \/ /\ Reply(r, 200)
            /\ \E u : upload' = [upload EXCEPT ![r] = u] /\ UploadTrue(form[r].sheet, u)
<1> DEFINE sheet == form[r].sheet
           students == ParseStudentExcel(sheet)
           named == NamedIn(sheet)
<1>1. sheet \in Seq(Range(sheet))
  BY ApiTypes, FormAssumption DEF ImportStudents, Handles
<1>2. \/ Reply(r, 400) /\ UNCHANGED upload
      \/ /\ students # <<>> /\ Reply(r, 200)
         /\ \E sent \in SUBSET DOMAIN students : \E answered \in SUBSET sent :
              upload' = [upload EXCEPT ![r] =
                           [total |-> Len(students), success |-> Cardinality(answered),
                            records |-> {students[k] : k \in sent}]]
  BY DEF ImportStudents
<1>3. /\ Cardinality(named) \in Nat /\ IsFiniteSet(DOMAIN students)
      /\ Len(students) = Cardinality(DOMAIN students)
      /\ students # <<>> => named # {} /\ Len(students) = Cardinality(named)
      /\ \A k \in DOMAIN students :
           /\ students[k].score \in 0..100 /\ students[k].class_id >= 0
           /\ \E j \in named : sheet[j].name = students[k].name
  BY <1>1, SheetFacts
<1> HIDE DEF students, named
<1>4. ASSUME students # <<>>, NEW sent \in SUBSET DOMAIN students, NEW answered \in SUBSET sent,
             NEW u, u = [total |-> Len(students), success |-> Cardinality(answered),
                         records |-> {students[k] : k \in sent}]
      PROVE  UploadTrue(sheet, u)
  <2>1. named # {} /\ u.total = Cardinality(named)
    BY <1>3, <1>4
  <2>2. u.success <= Cardinality(named)
    <3>1. Cardinality(answered) <= Cardinality(DOMAIN students)
      BY <1>3, FS_Subset
    <3> QED
      BY <1>3, <1>4, <3>1
  <2>3. \A s \in u.records : /\ s.score \in 0..100 /\ s.class_id >= 0
                             /\ \E k \in named : sheet[k].name = s.name
    BY <1>3, <1>4
  <2> QED
    BY <2>1, <2>2, <2>3 DEF UploadTrue, RecordsTrue, named
<1> QED
  BY <1>2, <1>4

\* An upload changes only what is recorded of it, and replies 200 if it does.
LEMMA UploadInv ==
  ASSUME ApiInv, NEW r \in Request, ImportStudents(r)
  PROVE  ApiInv'
<1> USE ApiTypes
<1>1. /\ stage[r] = "handle" /\ form[r].kind = "upload" /\ reply[r] = 0
      /\ UNCHANGED <<form, table, maker, changed, audited, faults>>
      /\ UNCHANGED <<classLive, classCache, lookup, fill>>
      /\ UNCHANGED <<limiterMap, held, tokens, ticks, admitted>>
  BY DEF ImportStudents, Handles, classVars, limitVars, ApiInv, RequestInv, Done
<1> DEFINE Answered(status, u) ==
             /\ Reply(r, status)
             /\ status = 400 => UNCHANGED upload
             /\ status = 200 => /\ upload' = [upload EXCEPT ![r] = u]
                                /\ UploadTrue(form[r].sheet, u)
<1>a. PICK status \in {200, 400} : \E u : Answered(status, u)
  BY UploadRecorded
<1>2. PICK u : Answered(status, u)
  BY <1>a
<1>3. /\ stage' \in [Request -> {"new", "limit", "handle", "write", "publish", "done"}]
      /\ reply' \in [Request -> {0, 200, 400, 401, 404, 409, 429, 500}]
      /\ stage'[r] = "done" /\ reply'[r] = status
      /\ status = 200 => upload'[r] = u
      /\ \A q \in Request \ {r} :
           stage'[q] = stage[q] /\ reply'[q] = reply[q] /\ upload'[q] = upload[q]
  <2>1. UploadFunction /\ (UNCHANGED upload \/ upload' = [upload EXCEPT ![r] = u])
    BY <1>2 DEF ApiInv
  <2>2. /\ \A q \in Request \ {r} : upload'[q] = upload[q]
        /\ upload' = [upload EXCEPT ![r] = u] => upload'[r] = u
    BY <2>1 DEF UploadFunction
  <2> QED
    BY <1>1, <1>2, <2>2 DEF Reply
<1>4. TypeOK'
  BY <1>1, <1>3 DEF TypeOK, RLTypeOK, CCTypeOK
<1>5. LimiterInv' /\ MakerInv'
  BY <1>1, <1>3 DEF ApiInv, LimiterInv, MakerInv
<1>6. UploadFunction'
  BY <1>2 DEF ApiInv, UploadFunction
<1>7. ASSUME NEW q \in Request PROVE Done(q)' /\ Clean(q)' /\ Refused(q)' /\ Added(q)' /\ Uploaded(q)'
  <2>1. Done(q) /\ Clean(q) /\ Refused(q) /\ Added(q) /\ Uploaded(q)
    BY DEF ApiInv, RequestInv
  <2>2. CASE q # r
    BY <1>1, <1>3, <2>1, <2>2 DEF Done, Clean, Refused, Added, Uploaded
  <2>3. CASE q = r
    BY <1>1, <1>2, <1>3, <2>1, <2>3 DEF Done, Clean, Refused, Added, Uploaded
  <2> QED
    BY <2>2, <2>3
<1> QED
  BY <1>4, <1>5, <1>6, <1>7 DEF ApiInv, RequestInv

\* A commit: an addition takes an id that nobody had, so it displaces no one.
LEMMA CommitInv ==
  ASSUME ApiInv, NEW r \in Request, Commit(r)
  PROVE  ApiInv'
<1> USE ApiTypes
<1>1. /\ stage[r] = "write" /\ reply[r] = 0
      /\ UNCHANGED <<form, upload, classCache, lookup, fill>>
      /\ UNCHANGED <<limiterMap, held, tokens, ticks, admitted>>
      /\ form[r].kind = "add" => Insert(r)
      /\ form[r].kind # "add" => Modify(r)
      /\ audited' = audited \cup Audits(r)
      /\ faults' \in 0..MaxFaults
  BY FaultCounts DEF Commit, limitVars, ApiInv, RequestInv, Done
<1>2. PICK s \in {"publish", "done"}, status \in {0, 200, 500} :
        /\ stage' = [stage EXCEPT ![r] = s] /\ reply' = [reply EXCEPT ![r] = status]
        /\ status # 0 => s = "done"
        /\ status = 200 => form[r].kind # "add"
  <2>1. Goto(r, "publish") => stage' = [stage EXCEPT ![r] = "publish"] /\ reply' = [reply EXCEPT ![r] = 0]
    BY <1>1 DEF Goto
  <2>2. \A st \in {200, 500} : Reply(r, st) =>
          stage' = [stage EXCEPT ![r] = "done"] /\ reply' = [reply EXCEPT ![r] = st]
    BY <1>1 DEF Reply
  <2>3. Goto(r, "publish") \/ (form[r].kind = "score" /\ Reply(r, 200)) \/ Reply(r, 500)
    BY DEF Commit
  <2> QED
    BY <2>1, <2>2, <2>3
<1>3. /\ stage' \in [Request -> {"new", "limit", "handle", "write", "publish", "done"}]
      /\ reply' \in [Request -> {0, 200, 400, 401, 404, 409, 429, 500}]
      /\ stage'[r] = s /\ reply'[r] = status
      /\ \A q \in Request \ {r} : stage'[q] = stage[q] /\ reply'[q] = reply[q]
  BY <1>2
<1>4. /\ table' \in [Id -> {"none", "live", "deleted"}]
      /\ maker' \in [Id -> Request \cup {Nobody}]
      /\ changed' \subseteq changed \cup {r}
      /\ audited' \subseteq audited \cup {r}
      /\ classLive' \in BOOLEAN
      /\ \A id \in Id : table'[id] = "none" => table[id] = "none" /\ maker'[id] = maker[id]
      /\ \A id \in Id : maker[id] # Nobody => maker'[id] = maker[id]
      /\ form[r].kind = "add" => \E id \in Id : maker'[id] = r /\ form[r].id \in {0, id}
  <2>1. form[r].id \in Id \cup {0} /\ form[r].class \in BOOLEAN /\ classLive \in BOOLEAN
    BY FormAssumption DEF CCTypeOK
  <2>2. audited' \subseteq audited \cup {r}
    BY <1>1 DEF Audits
  <2>3. CASE form[r].kind = "add"
    <3>1. PICK id \in NewIds(form[r]) :
            /\ Vacant(id)
            /\ table' = [table EXCEPT ![id] = "live"]
            /\ maker' = [maker EXCEPT ![id] = r]
            /\ changed' = changed \cup {r}
            /\ classLive' = (classLive \/ form[r].class)
      BY <1>1, <2>3 DEF Insert
    <3>2. id \in Id /\ form[r].id \in {0, id}
      BY <2>1, <3>1 DEF NewIds
    <3>3. maker[id] = Nobody
      BY <3>1, <3>2 DEF Vacant, ApiInv, MakerInv
    <3> QED
      BY <2>1, <2>2, <3>1, <3>2, <3>3
  <2>4. CASE form[r].kind # "add"
    <3>1. /\ changed' \subseteq changed \cup {r}
          /\ maker' = maker /\ classLive' = classLive
          /\ table' = [table EXCEPT ![form[r].id] = RowAfter(r)]
      BY <1>1, <2>4 DEF Modify, Affected
    <3>2. RowAfter(r) \in {"deleted", "live", table[form[r].id]}
      BY DEF RowAfter
    <3>3. table \in [Id -> {"none", "live", "deleted"}]
      BY DEF ApiInv, TypeOK
    <3>4. /\ table' \in [Id -> {"none", "live", "deleted"}]
          /\ \A id \in Id : table'[id] = "none" => table[id] = "none"
      <4>1. CASE form[r].id \in Id
        BY <3>1, <3>2, <3>3, <4>1
      <4>2. CASE form[r].id \notin Id
        <5>1. table' = [id \in Id |-> IF id = form[r].id THEN RowAfter(r) ELSE table[id]]
          BY <3>1, <3>3, Zenon
        <5> QED
          BY <3>3, <4>2, <5>1
      <4> QED
        BY <4>1, <4>2
    <3> QED
      BY <2>1, <2>2, <2>4, <3>1, <3>4
  <2> QED
    BY <2>3, <2>4
<1>5. TypeOK'
  <2>1. RLTypeOK' /\ CCTypeOK'
    BY <1>1, <1>4 DEF RLTypeOK, CCTypeOK
  <2> QED
    BY <1>1, <1>3, <1>4, <2>1 DEF TypeOK
<1>6. LimiterInv'
  BY <1>1, <1>3 DEF ApiInv, LimiterInv
<1>7. MakerInv' /\ UploadFunction'
  BY <1>1, <1>4 DEF ApiInv, MakerInv, UploadFunction
<1>8. ASSUME NEW q \in Request PROVE Done(q)' /\ Clean(q)' /\ Refused(q)' /\ Added(q)' /\ Uploaded(q)'
  <2>1. Done(q) /\ Clean(q) /\ Refused(q) /\ Added(q) /\ Uploaded(q)
    BY DEF ApiInv, RequestInv
  <2>2. CASE q # r
    <3>1. Added(q)'
      BY <1>1, <1>3, <1>4, <2>1, <2>2, NoLimiterAssumption DEF Added, Nobody
    <3> QED
      BY <1>1, <1>3, <1>4, <2>1, <2>2, <3>1 DEF Done, Clean, Refused, Uploaded
  <2>3. CASE q = r
    BY <1>1, <1>2, <1>3, <1>4, <2>1, <2>3 DEF Done, Clean, Refused, Added, Uploaded
  <2> QED
    BY <2>2, <2>3
<1> QED
  BY <1>5, <1>6, <1>7, <1>8 DEF ApiInv, RequestInv

\* What goes on beside the handlers: buckets fill up, the class is cached.
LEMMA BesideInv ==
  ASSUME ApiInv, RefillBuckets \/ CacheClass
  PROVE  ApiInv'
<1> USE ApiTypes
<1>1. UNCHANGED <<form, stage, reply, table, maker, changed, audited, upload, faults>>
  BY DEF RefillBuckets, CacheClass, dataVars
<1>2. MakerInv' /\ UploadFunction' /\ RequestInv'
  BY <1>1 DEF ApiInv, MakerInv, UploadFunction, RequestInv, Done, Clean, Refused, Added, Uploaded
<1>3. CASE RefillBuckets
  <2>1. /\ ticks' = ticks + 1 /\ ticks < MaxTicks
        /\ tokens' = [r \in Request |-> IF tokens[r] < Burst THEN tokens[r] + 1 ELSE Burst]
        /\ UNCHANGED <<limiterMap, held, admitted, classLive, classCache, lookup, fill>>
    BY <1>3 DEF RefillBuckets, Refill, classVars
  <2>2. /\ tokens \in [Request -> 0..Burst] /\ admitted \in [Ip -> Nat]
        /\ limiterMap \in [Ip -> Request \cup {NoLimiter}]
        /\ Burst \in Nat /\ ticks \in Nat /\ MaxTicks \in Nat
    BY BurstAssumption, MaxTicksAssumption DEF RLTypeOK
  <2>3. tokens' \in [Request -> 0..Burst] /\ ticks' \in 0..MaxTicks
    BY <2>1, <2>2
  <2>4. TypeOK'
    <3>1. RLTypeOK' /\ CCTypeOK'
      BY <2>1, <2>3 DEF RLTypeOK, CCTypeOK
    <3> QED
      BY <1>1, <3>1 DEF TypeOK
  <2>5. ASSUME NEW ip \in Ip
        PROVE  IF limiterMap[ip] = NoLimiter THEN admitted[ip] = 0
               ELSE tokens'[limiterMap[ip]] + admitted[ip] <= Burst + ticks'
    <3>1. limiterMap[ip] # NoLimiter =>
            /\ limiterMap[ip] \in Request
            /\ tokens[limiterMap[ip]] \in Nat /\ tokens'[limiterMap[ip]] \in Nat
            /\ tokens'[limiterMap[ip]] <= tokens[limiterMap[ip]] + 1
      BY <2>1, <2>2, <2>3
    <3>2. IF limiterMap[ip] = NoLimiter THEN admitted[ip] = 0
          ELSE tokens[limiterMap[ip]] + admitted[ip] <= Burst + ticks
      BY DEF ApiInv, LimiterInv
    <3>3. admitted[ip] \in Nat
      BY <2>2
    <3> QED
      BY <2>1, <2>2, <3>1, <3>2, <3>3
  <2>6. LimiterInv'
    BY <1>1, <2>1, <2>5 DEF ApiInv, LimiterInv
  <2> QED
    BY <1>2, <2>4, <2>6 DEF ApiInv
<1>4. CASE CacheClass
  <2>1. UNCHANGED <<limiterMap, held, tokens, ticks, admitted>>
    BY <1>4 DEF CacheClass, limitVars
  <2>2. CCTypeOK'
    BY <1>4 DEF CacheClass, CCStep, ReadClassCache, QueryClass, FillClassCache, ExpireClass,
       CCTypeOK
  <2>3. TypeOK'
    BY <1>1, <2>1, <2>2 DEF TypeOK, RLTypeOK
  <2>4. LimiterInv'
    BY <1>1, <2>1 DEF ApiInv, LimiterInv
  <2> QED
    BY <1>2, <2>3, <2>4 DEF ApiInv
<1> QED
  BY <1>3, <1>4

\* Every step preserves the invariant.
LEMMA ApiStep == ASSUME ApiInv, [Next]_vars PROVE ApiInv'
<1>1. CASE UNCHANGED vars
  BY <1>1 DEF vars, limitVars, classVars, dataVars, ApiInv, TypeOK, RLTypeOK, CCTypeOK,
     LimiterInv, MakerInv, UploadFunction, RequestInv, Done, Clean, Refused, Added, Uploaded
<1>2. CASE \E r \in Request : Serve(r)
  BY <1>2, ArriveInv, AdmitInv, HandleInv, UploadInv, CommitInv DEF Serve
<1>3. CASE RefillBuckets \/ CacheClass
  BY <1>3, BesideInv
<1> QED
  BY <1>1, <1>2, <1>3 DEF Next

\* The invariant holds for ever.
LEMMA ApiInvariant == Spec => []ApiInv
  BY ApiInit, ApiStep, PTL DEF Spec

\* The types of limiters, class cache and requests.
THEOREM ApiTyped == Spec => []TypeOK
  BY ApiInvariant, PTL DEF ApiInv

\* An address gets through no more requests than its burst and one per tick,
\* however many of its requests meet in the middleware.
THEOREM RateHolds == Spec => []AdmittedWithinRate
<1>1. ApiInv => AdmittedWithinRate
  <2> SUFFICES ASSUME ApiInv, NEW ip \in Ip PROVE admitted[ip] <= Burst + ticks
    BY DEF AdmittedWithinRate
  <2>1. /\ tokens \in [Request -> 0..Burst] /\ admitted[ip] \in Nat
        /\ limiterMap[ip] \in Request \cup {NoLimiter}
        /\ Burst \in Nat /\ ticks \in Nat
    BY ApiTypes, BurstAssumption, MaxTicksAssumption DEF RLTypeOK
  <2>2. IF limiterMap[ip] = NoLimiter THEN admitted[ip] = 0
        ELSE tokens[limiterMap[ip]] + admitted[ip] <= Burst + ticks
    BY DEF ApiInv, LimiterInv
  <2> QED
    BY <2>1, <2>2
<1> QED
  BY <1>1, ApiInvariant, PTL

\* A request that is refused has left nothing behind.
THEOREM RefusalLeavesNoTrace == Spec => []RefusedChangedNothing
<1>1. ApiInv => RefusedChangedNothing
  BY DEF ApiInv, RequestInv, Refused, RefusedChangedNothing
<1> QED
  BY <1>1, ApiInvariant, PTL

\* Of several additions of one student no two are confirmed.
THEOREM ConfirmedAdditionsAreMade == Spec => []AddedOnce
<1>1. ApiInv => AddedOnce
  BY DEF ApiInv, RequestInv, Added, AddedOnce
<1> QED
  BY <1>1, ApiInvariant, PTL

\* The reply to an upload is true for every sheet: it counts the rows that
\* name a student, whatever their number, and sends nothing else.
THEOREM UploadRepliesTrue == Spec => []UploadReplyTrue
<1>1. ASSUME ApiInv, NEW r \in Request, form[r].kind = "upload", reply[r] \in {200, 400}
      PROVE  /\ reply[r] = 200 => UploadTrue(form[r].sheet, upload[r])
             /\ RecordsTrue(form[r].sheet, upload[r])
  <2>1. CASE reply[r] = 200
    BY <1>1, <2>1 DEF ApiInv, RequestInv, Uploaded, UploadTrue
  <2>2. CASE reply[r] = 400
    <3>1. upload[r] = NoUpload
      BY <1>1, <2>2 DEF ApiInv, RequestInv, Refused
    <3>2. form[r].sheet \in Seq(Range(form[r].sheet))
      BY <1>1, ApiTypes, FormAssumption
    <3>3. Cardinality(NamedIn(form[r].sheet)) \in Nat
      BY <3>2, SheetFacts
    <3> QED
      BY <2>2, <3>1, <3>3 DEF NoUpload, RecordsTrue
  <2> QED
    BY <1>1, <2>1, <2>2
<1>2. ApiInv => UploadReplyTrue
  BY <1>1 DEF UploadReplyTrue, UploadTrue, RecordsTrue, NamedIn
<1> QED
  BY <1>2, ApiInvariant, PTL
=============================================================================
