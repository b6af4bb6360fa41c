------------------------- MODULE StudentImportProofs ------------------------
(***************************************************************************)
(* Proofs about the import, for any number of partitions, rows and faults  *)
(* and any batch size: nothing that is marked vanishes unnoticed, Cleanup  *)
(* finds an empty buffer, and as long as nothing fails no row is inserted  *)
(* twice and a refused one takes at most a batch with it.                  *)
(***************************************************************************)
EXTENDS StudentImport, FiniteSetTheorems, SequenceTheorems, TLAPS

Offsets ==
  \A p \in Partition :
    committed[p] <= marked[p] /\ marked[p] <= pos[p] /\ pos[p] <= Len(log[p])

\* A batch that is full is inserted at once, so the buffer never is.
Sizes == Len(pending) < BatchSize /\ \A p \in Partition : Len(batch[p]) <= BatchSize

\* Where a student is that a claim has received.
Covered(s) == inserted[s] > 0 \/ s \in Buffered \cup lost \cup wiped

ReceivedCovered ==
  \A p \in Partition : \A k \in 1..pos[p] :
    log[p][k] \in Student => Covered(log[p][k])

\* Only a claim that is about to insert has a batch; whoever filled the buffer
\* will still go through flushAndExit; without a session no claim runs.
BatchStage == \A p \in Partition : batch[p] # <<>> => claim[p] \in {"flush", "leaving"}
BufferStage ==
  pending # <<>> => \E p \in Partition : claim[p] \in {"loop", "flush", "mark", "exit"}
NoSession == session = "none" => \A p \in Partition : claim[p] = "done"

SafeInv ==
  TypeOK /\ Offsets /\ Sizes /\ ReceivedCovered /\ BatchStage /\ BufferStage /\ NoSession

(* As long as nothing fails                                                *)

Distinct(students) ==
  \A j, k \in 1..Len(students) : students[j] = students[k] => j = k

\* Every record is a row that has been sent, in the partition of its name.
LogOnce ==
  \A p \in Partition :
    /\ Distinct(log[p])
    /\ \A k \in 1..Len(log[p]) :
         log[p][k] \in Student /\ log[p][k] < next /\ Hash[log[p][k]] = p

\* Nobody is twice in the buffer and the batches.
BuffersDisjoint ==
  /\ Distinct(pending)
  /\ \A p \in Partition :
       /\ Distinct(batch[p])
       /\ Range(batch[p]) \cap Range(pending) = {}
       /\ \A q \in Partition : q # p => Range(batch[p]) \cap Range(batch[q]) = {}

\* The record of s has been received.
Received(s) == \E k \in 1..pos[Hash[s]] : log[Hash[s]][k] = s

\* A student is in one place, and nowhere before its record is received.
OnePlace ==
  \A s \in Student :
    /\ inserted[s] <= 1
    /\ s \in Buffered => inserted[s] = 0 /\ s \notin lost
    /\ inserted[s] > 0 \/ s \in Buffered \cup lost => Received(s)

\* A claim that is not at a record has marked all it received, and a session
\* that ends commits it.
AllMarked ==
  /\ \A p \in Partition : claim[p] \notin {"flush", "mark"} => marked[p] = pos[p]
  /\ session = "none" => \A p \in Partition : committed[p] = pos[p]

Quiet == LogOnce /\ BuffersDisjoint /\ OnePlace /\ AllMarked /\ LossIsBounded

ImportInv == SafeInv /\ (faults = 0 => Quiet)
-----------------------------------------------------------------------------
(* Sequences and their ranges                                              *)

\* What is in the range of a sequence.
LEMMA RangeFacts ==
  ASSUME NEW S, NEW q \in Seq(S)
  PROVE  /\ \A x : x \in Range(q) <=> \E k \in 1..Len(q) : q[k] = x
         /\ Range(q) \subseteq S
         /\ Range(<<>>) = {}
         /\ Range(q) = {} => q = <<>>
<1>1. DOMAIN q = 1..Len(q) /\ Len(q) \in Nat
  BY LenProperties
<1>2. \A x : x \in Range(q) <=> \E k \in 1..Len(q) : q[k] = x
  BY <1>1 DEF Range
<1>3. \A k \in 1..Len(q) : q[k] \in S
  BY ElementOfSeq
<1>4. Range(<<>>) = {}
  BY DEF Range
<1>5. q # <<>> => q[1] \in Range(q)
  BY <1>1, <1>2, EmptySeq
<1> QED
  BY <1>2, <1>3, <1>4, <1>5

\* Appending adds the new element to the range.
LEMMA AppendRange ==
  ASSUME NEW S, NEW q \in Seq(S), NEW x \in S
  PROVE  /\ Append(q, x) \in Seq(S)
         /\ Len(Append(q, x)) = Len(q) + 1
         /\ Range(Append(q, x)) = Range(q) \cup {x}
         /\ Distinct(q) /\ x \notin Range(q) => Distinct(Append(q, x))
<1> DEFINE r == Append(q, x)
<1>1. /\ r \in Seq(S) /\ Len(r) = Len(q) + 1 /\ Len(q) \in Nat
      /\ \A k \in 1..Len(q) : r[k] = q[k]
      /\ r[Len(q) + 1] = x
  BY AppendProperties, LenProperties
<1> HIDE DEF r
<1>2. \A y : y \in Range(r) <=> \E k \in 1..Len(r) : r[k] = y
  BY <1>1, RangeFacts
<1>3. \A y : y \in Range(q) <=> \E k \in 1..Len(q) : q[k] = y
  BY RangeFacts
<1>4. \A k : k \in 1..Len(r) <=> k \in 1..Len(q) \/ k = Len(q) + 1
  BY <1>1
<1>5. Range(r) = Range(q) \cup {x}
  <2>1. \A y : y \in Range(r) <=> y \in Range(q) \/ y = x
    BY <1>1, <1>2, <1>3, <1>4
  <2> QED
    BY <2>1
<1>6. ASSUME Distinct(q), x \notin Range(q) PROVE Distinct(r)
  BY <1>1, <1>3, <1>4, <1>6 DEF Distinct
<1> QED
  BY <1>1, <1>5, <1>6 DEF r

\* How often a student occurs in a batch.
LEMMA CountFacts ==
  ASSUME NEW q \in Seq(Student), NEW s \in Student
  PROVE  /\ Count(s, q) \in Nat
         /\ s \in Range(q) => Count(s, q) > 0
         /\ s \notin Range(q) => Count(s, q) = 0
         /\ Distinct(q) => Count(s, q) <= 1
<1> DEFINE K == {k \in DOMAIN q : q[k] = s}
<1>1. DOMAIN q = 1..Len(q) /\ Len(q) \in Nat
  BY LenProperties
<1>2. IsFiniteSet(1..Len(q))
  BY <1>1, FS_Interval
<1>3. IsFiniteSet(K)
  BY <1>1, <1>2, FS_Subset
<1>4. Cardinality(K) \in Nat /\ (Cardinality(K) = 0 <=> K = {})
  BY <1>3, FS_CardinalityType, FS_EmptySet
<1>5. s \in Range(q) <=> K # {}
  BY <1>1, RangeFacts
<1>6. ASSUME Distinct(q), K # {} PROVE Cardinality(K) = 1
  <2>1. PICK k \in K : TRUE
    BY <1>6
  <2>2. K = {k}
    BY <1>1, <1>6 DEF Distinct
  <2> QED
    BY <2>2, FS_Singleton
<1>7. Count(s, q) = Cardinality(K)
  BY DEF Count
<1> HIDE DEF K
<1> QED
  BY <1>4, <1>5, <1>6, <1>7

\* A batch has no more students than records.
LEMMA RangeSize ==
  ASSUME NEW q \in Seq(Student)
  PROVE  /\ IsFiniteSet(Range(q)) /\ Cardinality(Range(q)) \in Nat
         /\ Cardinality(Range(q)) <= Len(q)
<1>1. q \in [1..Len(q) -> Student] /\ Len(q) \in Nat /\ DOMAIN q = 1..Len(q)
  BY LenProperties
<1>2. q \in Surjection(1..Len(q), Range(q))
  <2>1. q \in [1..Len(q) -> Range(q)]
    BY <1>1 DEF Range
  <2>2. \A t \in Range(q) : \E k \in 1..Len(q) : q[k] = t
    BY RangeFacts
  <2> QED
    BY <2>1, <2>2 DEF Surjection
<1>3. IsFiniteSet(1..Len(q)) /\ Cardinality(1..Len(q)) = Len(q)
  <2>1. \A n \in Nat : IsFiniteSet(1..n) /\ Cardinality(1..n) = n
    BY FS_Interval
  <2> QED
    BY <1>1, <2>1
<1>4. IsFiniteSet(Range(q)) /\ Cardinality(Range(q)) <= Len(q)
  BY <1>2, <1>3, FS_Surjection
<1> QED
  BY <1>4, FS_CardinalityType

\* Buffered, spelt out.
LEMMA InBuffered ==
  ASSUME NEW s
  PROVE  s \in Buffered <=> s \in Range(pending) \/ \E p \in Partition : s \in Range(batch[p])
  BY DEF Buffered
-----------------------------------------------------------------------------
(* Steps that leave the buffers alone                                      *)

\* Whoever was covered still is, when all that is buffered, inserted, lost or
\* wiped stays one of the four.
LEMMA CoverageKept ==
  ASSUME NEW s \in Student, Covered(s),
         inserted[s] > 0 => inserted'[s] > 0, lost \subseteq lost', wiped \subseteq wiped',
         s \in Buffered => Covered(s)'
  PROVE  Covered(s)'
  BY DEF Covered

\* A step of sessions, claims and offsets.  Positions move back only after a
\* fault.
LEMMA ControlStep ==
  ASSUME ImportInv, UNCHANGED <<next, log, bufferVars>>, TypeOK', faults' >= faults,
         \A p \in Partition : pos'[p] <= pos[p], faults' = 0 => pos' = pos,
         Offsets', BatchStage', BufferStage', NoSession', faults' = 0 => AllMarked'
  PROVE  ImportInv'
<1>1. UNCHANGED <<next, log, pending, batch, inserted, lost, wiped>>
  BY DEF bufferVars
<1>2. Sizes'
  BY <1>1 DEF ImportInv, SafeInv, Sizes
<1>3. ReceivedCovered'
  <2>1. \A p \in Partition : pos[p] \in Nat /\ pos'[p] \in Nat
    BY DEF ImportInv, SafeInv, TypeOK
  <2>2. \A p \in Partition : \A k \in 1..pos'[p] : k \in 1..pos[p]
    BY <2>1
  <2>3. \A s : Covered(s)' <=> Covered(s)
    BY <1>1 DEF Covered, Buffered
  <2> QED
    BY <1>1, <2>2, <2>3 DEF ImportInv, SafeInv, ReceivedCovered
<1>4. ASSUME faults' = 0 PROVE Quiet'
  <2>1. Quiet /\ pos' = pos
    BY <1>4 DEF ImportInv, SafeInv, TypeOK
  <2>2. LogOnce' /\ BuffersDisjoint'
    <3>1. LogOnce' <=> LogOnce
      BY <1>1 DEF LogOnce, Distinct
    <3>2. BuffersDisjoint' <=> BuffersDisjoint
      BY <1>1 DEF BuffersDisjoint, Distinct
    <3> QED
      BY <2>1, <3>1, <3>2 DEF Quiet
  <2>3. OnePlace'
    BY <1>1, <2>1 DEF Quiet, OnePlace, Received, Buffered
  <2>4. LossIsBounded'
    BY <1>1, <1>4, <2>1 DEF Quiet, LossIsBounded, ImportInv, SafeInv, TypeOK
  <2> QED
    BY <1>4, <2>2, <2>3, <2>4 DEF Quiet
<1> QED
  BY <1>2, <1>3, <1>4 DEF ImportInv, SafeInv

\* A session opens where the last one has committed, with an empty buffer.
LEMMA OpenSessionInv == ASSUME ImportInv, OpenSession PROVE ImportInv'
<1>1. /\ session = "none" /\ session' = "running"
      /\ claim' = [p \in Partition |-> "waiting"]
      /\ pos' = committed /\ marked' = committed /\ pending' = <<>>
      /\ UNCHANGED <<next, log, committed, batch, inserted, lost, wiped, faults>>
  BY DEF OpenSession
<1>2. SafeInv /\ TypeOK
  BY DEF ImportInv, SafeInv
<1>3. pending = <<>> /\ \A p \in Partition : batch[p] = <<>>
  BY <1>1, <1>2 DEF SafeInv, NoSession, BufferStage, BatchStage
<1>4. TypeOK'
  BY <1>1, <1>2, <1>3 DEF TypeOK
<1>5. /\ Offsets' /\ BatchStage' /\ BufferStage' /\ NoSession'
      /\ \A p \in Partition : pos'[p] <= pos[p]
  <2>1. \A p \in Partition : /\ committed[p] \in Nat /\ marked[p] \in Nat /\ pos[p] \in Nat
                             /\ Len(log[p]) \in Nat
    BY <1>2 DEF TypeOK
  <2> QED
    BY <1>1, <1>2, <1>3, <2>1 DEF SafeInv, Offsets, BatchStage, BufferStage, NoSession
<1>6. ASSUME faults' = 0 PROVE pos' = pos /\ AllMarked'
  <2>1. \A p \in Partition : committed[p] = pos[p]
    BY <1>1, <1>6 DEF ImportInv, Quiet, AllMarked
  <2>2. committed \in [Partition -> Nat] /\ pos \in [Partition -> Nat]
    BY <1>2 DEF TypeOK
  <2>3. committed = pos
    BY <2>1, <2>2
  <2> QED
    BY <1>1, <2>3 DEF AllMarked
<1>7. faults' >= faults
  BY <1>1, <1>2 DEF TypeOK
<1> QED
  BY <1>1, <1>3, <1>4, <1>5, <1>6, <1>7, ControlStep DEF bufferVars

\* Offsets are committed, claims are skipped, records are marked, loops end.
LEMMA ClaimControlInv ==
  ASSUME ImportInv, NEW p \in Partition,
         AutoCommit(p) \/ SkipClaim(p) \/ MarkMessage(p) \/ LeaveLoop(p) \/ Rebalance
  PROVE  ImportInv'
<1> USE DEF Goto
<1>1. SafeInv /\ TypeOK
  BY DEF ImportInv, SafeInv
<1>2. \A q \in Partition : /\ committed[q] \in Nat /\ marked[q] \in Nat /\ pos[q] \in Nat
                           /\ Len(log[q]) \in Nat
  BY <1>1 DEF TypeOK
<1>3. UNCHANGED <<next, log, pos, bufferVars>>
  BY DEF AutoCommit, SkipClaim, MarkMessage, LeaveLoop, Rebalance
<1>4. faults' \in Nat /\ faults' >= faults /\ faults \in Nat
  BY <1>1 DEF AutoCommit, SkipClaim, MarkMessage, LeaveLoop, Rebalance, Fault, TypeOK
<1>5. UNCHANGED <<pending, batch, inserted, lost, wiped>>
  BY <1>3 DEF bufferVars
<1>6. CASE AutoCommit(p)
  <2>1. /\ committed' = [committed EXCEPT ![p] = marked[p]]
        /\ UNCHANGED <<session, claim, marked>>
    BY <1>6 DEF AutoCommit
  <2>2. TypeOK'
    BY <1>1, <1>3, <1>4, <1>5, <2>1 DEF TypeOK
  <2>3. Offsets' /\ BatchStage' /\ BufferStage' /\ NoSession'
    BY <1>1, <1>2, <1>3, <1>5, <2>1
       DEF SafeInv, TypeOK, Offsets, BatchStage, BufferStage, NoSession
  <2>4. faults' = 0 => AllMarked'
    <3> SUFFICES ASSUME faults' = 0 PROVE AllMarked'
      OBVIOUS
    <3>1. AllMarked /\ NoSession
      BY <1>1, <1>4 DEF ImportInv, SafeInv, Quiet
    <3> QED
      BY <1>1, <1>3, <2>1, <3>1 DEF TypeOK, AllMarked, NoSession
  <2> QED
    BY <1>2, <1>3, <1>4, <2>2, <2>3, <2>4, ControlStep
<1>7. CASE SkipClaim(p) \/ LeaveLoop(p) \/ MarkMessage(p) \/ Rebalance
  <2>1. TypeOK'
    BY <1>1, <1>3, <1>4, <1>5, <1>7
       DEF SkipClaim, LeaveLoop, AfterLoop, MarkMessage, Rebalance, TypeOK
  <2>2. Offsets'
    <3>1. \A q \in Partition : marked'[q] \in {marked[q], pos[q]} /\ committed'[q] = committed[q]
      BY <1>1, <1>7 DEF TypeOK, SkipClaim, LeaveLoop, MarkMessage, Rebalance
    <3> QED
      BY <1>1, <1>2, <1>3, <3>1 DEF SafeInv, Offsets
  <2>3. BatchStage' /\ BufferStage' /\ NoSession'
    BY <1>1, <1>5, <1>7 DEF SafeInv, TypeOK, BatchStage, BufferStage, NoSession,
       SkipClaim, LeaveLoop, AfterLoop, MarkMessage, Rebalance
  <2>4. faults' = 0 => AllMarked'
    <3> SUFFICES ASSUME faults' = 0 PROVE AllMarked'
      OBVIOUS
    <3>1. AllMarked /\ NoSession
      BY <1>1, <1>4 DEF ImportInv, SafeInv, Quiet
    <3> QED
      BY <1>1, <1>3, <1>7, <3>1 DEF TypeOK, AllMarked, NoSession,
         SkipClaim, LeaveLoop, AfterLoop, MarkMessage, Rebalance
  <2> QED
    BY <1>2, <1>3, <1>4, <2>1, <2>2, <2>3, <2>4, ControlStep
<1> QED
  BY <1>6, <1>7

\* Records are written: the log grows behind what is received.
LEMMA LogGrows ==
  ASSUME ImportInv, TypeOK', faults' >= faults,
         UNCHANGED <<session, claim, pos, marked, committed>>,
         UNCHANGED <<pending, batch, inserted, lost, wiped>>,
         \A p \in Partition : /\ Len(log'[p]) >= Len(log[p])
                              /\ \A k \in 1..Len(log[p]) : log'[p][k] = log[p][k],
         faults' = 0 => LogOnce'
  PROVE  ImportInv'
<1>1. SafeInv /\ TypeOK
  BY DEF ImportInv, SafeInv
<1>2. \A q \in Partition : /\ committed[q] \in Nat /\ marked[q] \in Nat /\ pos[q] \in Nat
                           /\ Len(log[q]) \in Nat /\ Len(log'[q]) \in Nat
  BY <1>1 DEF TypeOK
<1>3. \A q \in Partition : \A k \in 1..pos[q] : k \in 1..Len(log[q]) /\ log'[q][k] = log[q][k]
  BY <1>1, <1>2 DEF SafeInv, Offsets
<1>4. Offsets' /\ Sizes' /\ BatchStage' /\ BufferStage' /\ NoSession'
  BY <1>1, <1>2 DEF SafeInv, Offsets, Sizes, BatchStage, BufferStage, NoSession
<1>5. ReceivedCovered'
  BY <1>1, <1>3 DEF SafeInv, ReceivedCovered, Covered, Buffered
<1>6. ASSUME faults' = 0 PROVE Quiet'
  <2>1. Quiet /\ faults = 0
    BY <1>1, <1>6 DEF ImportInv, TypeOK
  <2>2. BuffersDisjoint' /\ AllMarked'
    BY <2>1 DEF Quiet, BuffersDisjoint, Distinct, AllMarked
  <2>3. OnePlace'
    BY <1>3, <2>1, HashAssumption DEF Quiet, OnePlace, Received, Buffered
  <2>4. LossIsBounded'
    BY <2>1 DEF Quiet, LossIsBounded
  <2> QED
    BY <1>6, <2>2, <2>3, <2>4 DEF Quiet
<1> QED
  BY <1>4, <1>5, <1>6 DEF ImportInv, SafeInv

\* A record is written, by the upload or by somebody else.
LEMMA WriteInv == ASSUME ImportInv, SendRow \/ ForeignRecord PROVE ImportInv'
<1>1. SafeInv /\ TypeOK
  BY DEF ImportInv, SafeInv
<1>2. PICK p \in Partition, records \in Seq(Student \cup {Garbage}) :
        /\ log' = [log EXCEPT ![p] = @ \o records]
        /\ \/ /\ faults' = faults
              /\ next <= FileSize /\ next' = next + 1 /\ p = Hash[next]
              /\ records = <<>> \/ records = <<next>>
           \/ faults' = faults + 1 /\ next' \in 1..(FileSize + 1)
  <2>1. CASE SendRow
    <3>1. next \in Student /\ Hash[next] \in Partition /\ next + 1 \in 1..(FileSize + 1)
      BY <1>1, <2>1, HashAssumption, FileSizeAssumption DEF SendRow, TypeOK, Student
    <3>2. /\ <<>> \in Seq(Student \cup {Garbage}) /\ <<next>> \in Seq(Student \cup {Garbage})
          /\ <<next, next>> \in Seq(Student \cup {Garbage})
      BY <3>1
    <3> QED
      BY <2>1, <3>1, <3>2 DEF SendRow, Written, Fault
  <2>2. CASE ForeignRecord
    <3>1. PICK p \in Partition : log' = [log EXCEPT ![p] = Append(@, Garbage)]
      BY <2>2 DEF ForeignRecord
    <3>2. log[p] \in Seq(Student \cup {Garbage}) /\ <<Garbage>> \in Seq(Student \cup {Garbage})
      BY <1>1 DEF TypeOK
    <3>3. Append(log[p], Garbage) = log[p] \o <<Garbage>>
      BY <3>2, AppendIsConcat
    <3>4. next' \in 1..(FileSize + 1) /\ faults' = faults + 1
      BY <1>1, <2>2 DEF ForeignRecord, Fault, TypeOK
    <3> QED
      BY <3>1, <3>2, <3>3, <3>4
  <2> QED
    BY <2>1, <2>2
<1>3. /\ UNCHANGED <<session, claim, pos, marked, committed>>
      /\ UNCHANGED <<pending, batch, inserted, lost, wiped>>
  BY DEF SendRow, ForeignRecord, sessionVars, bufferVars
<1>4. log[p] \in Seq(Student \cup {Garbage}) /\ log'[p] = log[p] \o records
  BY <1>1, <1>2 DEF TypeOK
<1>5. /\ log'[p] \in Seq(Student \cup {Garbage})
      /\ Len(log'[p]) = Len(log[p]) + Len(records)
      /\ Len(log[p]) \in Nat /\ Len(records) \in Nat
      /\ \A k \in 1..(Len(log[p]) + Len(records)) :
           log'[p][k] = IF k <= Len(log[p]) THEN log[p][k] ELSE records[k - Len(log[p])]
  BY <1>4, ConcatProperties, LenProperties
<1>6. \A q \in Partition \ {p} : log'[q] = log[q]
  BY <1>1, <1>2 DEF TypeOK
<1>7. faults \in Nat /\ faults' \in Nat /\ faults' >= faults /\ next' \in 1..(FileSize + 1)
  BY <1>1, <1>2, FileSizeAssumption DEF TypeOK
<1>8. TypeOK'
  <2>1. log' \in [Partition -> Seq(Student \cup {Garbage})]
    BY <1>1, <1>2, <1>5, <1>6 DEF TypeOK
  <2> QED
    BY <1>1, <1>3, <1>7, <2>1 DEF TypeOK
<1>9. \A q \in Partition : /\ Len(log'[q]) >= Len(log[q])
                           /\ \A k \in 1..Len(log[q]) : log'[q][k] = log[q][k]
  <2>1. \A q \in Partition : Len(log[q]) \in Nat
    BY <1>1 DEF TypeOK
  <2>2. Len(log'[p]) >= Len(log[p]) /\ \A k \in 1..Len(log[p]) : log'[p][k] = log[p][k]
    BY <1>5
  <2> QED
    BY <1>6, <2>1, <2>2
<1>10. ASSUME faults' = 0 PROVE LogOnce'
  <2>1. /\ LogOnce
        /\ next <= FileSize /\ next' = next + 1 /\ p = Hash[next]
        /\ next \in Nat /\ next \in Student
        /\ records = <<>> \/ records = <<next>>
    BY <1>1, <1>2, <1>7, <1>10, FileSizeAssumption DEF ImportInv, Quiet, TypeOK, Student
  <2>2. ASSUME NEW q \in Partition PROVE Distinct(log'[q]) /\ \A k \in 1..Len(log'[q]) :
          log'[q][k] \in Student /\ log'[q][k] < next' /\ Hash[log'[q][k]] = q
    <3>1. /\ Distinct(log[q]) /\ Len(log[q]) \in Nat
          /\ \A k \in 1..Len(log[q]) :
               log[q][k] \in Student /\ log[q][k] \in Nat /\ log[q][k] < next /\ Hash[log[q][k]] = q
      <4>1. \A s \in Student : s \in Nat
        BY FileSizeAssumption DEF Student
      <4>2. /\ Distinct(log[q])
            /\ \A k \in 1..Len(log[q]) :
                 log[q][k] \in Student /\ log[q][k] < next /\ Hash[log[q][k]] = q
        BY <2>1 DEF LogOnce
      <4>3. Len(log[q]) \in Nat
        BY <1>1 DEF TypeOK
      <4> QED
        BY <4>1, <4>2, <4>3
    <3>2. CASE log'[q] = log[q]
      BY <2>1, <3>1, <3>2
    <3>3. CASE log'[q] # log[q]
      <4>1. q = p /\ records = <<next>>
        BY <1>4, <1>6, <2>1, <3>3, ConcatEmptySeq
      <4>2. Len(log'[p]) = Len(log[p]) + 1 /\ log'[p][Len(log[p]) + 1] = next
        BY <1>5, <4>1
      <4>3. \A k \in 1..Len(log'[p]) : k \in 1..Len(log[p]) \/ k = Len(log[p]) + 1
        BY <1>5, <4>2
      <4>4. \A k \in 1..Len(log[p]) : log'[p][k] = log[p][k]
        BY <1>9
      <4>5. \A k \in 1..Len(log'[p]) :
              log'[p][k] \in Student /\ log'[p][k] < next' /\ Hash[log'[p][k]] = p
        <5>1. ASSUME NEW k \in 1..Len(log[p])
              PROVE  log'[p][k] \in Student /\ log'[p][k] < next' /\ Hash[log'[p][k]] = p
          BY <2>1, <3>1, <4>1, <4>4
        <5>2. next \in Student /\ next < next' /\ Hash[next] = p
          BY <2>1
        <5> QED
          BY <4>2, <4>3, <5>1, <5>2
      <4>6. \A k \in 1..Len(log[p]) : log'[p][k] # next
        BY <2>1, <3>1, <4>1, <4>4
      <4>7. Distinct(log'[p])
        BY <3>1, <4>1, <4>2, <4>3, <4>4, <4>6 DEF Distinct
      <4> QED
        BY <4>1, <4>5, <4>7
    <3> QED
      BY <3>2, <3>3
  <2> QED
    BY <2>2 DEF LogOnce
<1> QED
  BY <1>3, <1>7, <1>8, <1>9, <1>10, LogGrows
-----------------------------------------------------------------------------
(* Batches are inserted or lost                                            *)

\* What an INSERT does to the table: all of the batch is in it, or the batch
\* is lost, which without a fault takes a student that MySQL refuses.
LEMMA FlushFacts ==
  ASSUME TypeOK, NEW students \in Seq(Student),
         Flush(students) \/ (Fault /\ Insert(students))
  PROVE  /\ inserted' \in [Student -> Nat] /\ lost' \subseteq Student
         /\ faults' \in Nat /\ faults' >= faults
         /\ \A s \in Student : inserted[s] > 0 => inserted'[s] > 0
         /\ lost \subseteq lost'
         /\ \A s \in Range(students) : inserted'[s] > 0 \/ s \in lost'
         /\ \/ /\ lost' = lost
               /\ \A s \in Student : inserted'[s] = inserted[s] + Count(s, students)
            \/ /\ inserted' = inserted /\ lost' = lost \cup Range(students)
               /\ faults' = 0 => Range(students) \cap Refused # {}
<1>1. inserted \in [Student -> Nat] /\ lost \subseteq Student /\ faults \in Nat
  BY DEF TypeOK
<1>2. Range(students) \subseteq Student
  BY RangeFacts
<1>3. \A s \in Student : /\ inserted[s] \in Nat /\ Count(s, students) \in Nat
                         /\ s \in Range(students) => Count(s, students) > 0
  BY <1>1, CountFacts
<1>4. faults' \in Nat /\ faults' >= faults
  BY <1>1 DEF Flush, Fault
<1>5. CASE Insert(students)
  <2>1. lost' = lost /\ inserted' = [s \in Student |-> inserted[s] + Count(s, students)]
    BY <1>5 DEF Insert
  <2>2. ASSUME NEW s \in Student
        PROVE  /\ inserted[s] + Count(s, students) \in Nat
               /\ inserted'[s] = inserted[s] + Count(s, students)
               /\ inserted[s] > 0 => inserted'[s] > 0
               /\ s \in Range(students) => inserted'[s] > 0
    <3> DEFINE c == Count(s, students)
               i == inserted[s]
    <3>1. i \in Nat /\ c \in Nat /\ (s \in Range(students) => c > 0)
      BY <1>3
    <3>2. inserted'[s] = i + c
      BY <2>1
    <3> HIDE DEF c, i
    <3>3. /\ i + c \in Nat /\ inserted'[s] = i + c
          /\ i > 0 => inserted'[s] > 0
          /\ s \in Range(students) => inserted'[s] > 0
      BY <3>1, <3>2
    <3> QED
      BY <3>3 DEF c, i
  <2>3. inserted' \in [Student -> Nat]
    BY <2>1, <2>2
  <2>4. \A s \in Student : inserted'[s] = inserted[s] + Count(s, students)
    BY <2>2
  <2>5. \A s \in Student : inserted[s] > 0 => inserted'[s] > 0
    BY <2>2
  <2>6. \A s \in Range(students) : inserted'[s] > 0
    BY <1>2, <2>2
  <2> QED
    BY <1>1, <1>4, <2>1, <2>3, <2>4, <2>5, <2>6
<1>6. CASE ~Insert(students)
  <2>1. inserted' = inserted /\ lost' = lost \cup Range(students)
    BY <1>6 DEF Flush, Lose
  <2>2. faults' = 0 => Range(students) \cap Refused # {}
    BY <1>1, <1>6 DEF Flush, Fault
  <2>3. lost' \subseteq Student /\ lost \subseteq lost' /\ \A s \in Range(students) : s \in lost'
    BY <1>1, <1>2, <2>1
  <2> QED
    BY <1>1, <1>4, <2>1, <2>2, <2>3
<1> QED
  BY <1>5, <1>6

\* One more refused student pays for one more batch.
LEMMA BatchPaid ==
  ASSUME LossIsBounded, faults = 0, lost \subseteq Student,
         NEW R, R \subseteq Student, Cardinality(R) <= BatchSize, R \cap lost = {},
         R \cap Refused # {}
  PROVE  Cardinality(lost \cup R) <= BatchSize * Cardinality((lost \cup R) \cap Refused)
<1> DEFINE old == lost \cap Refused
           new == (lost \cup R) \cap Refused
<1>1. IsFiniteSet(Student)
  BY FileSizeAssumption, FS_Interval DEF Student
<1>2. IsFiniteSet(lost) /\ IsFiniteSet(R) /\ IsFiniteSet(old) /\ IsFiniteSet(new)
  BY <1>1, FS_Subset
<1>3. PICK x \in R : x \in Refused /\ x \notin lost
  OBVIOUS
<1>4. IsFiniteSet(old \cup {x}) /\ Cardinality(old \cup {x}) = Cardinality(old) + 1
  BY <1>2, <1>3, FS_AddElement
<1>5. old \cup {x} \subseteq new
  BY <1>3
<1>6. Cardinality(old) + 1 <= Cardinality(new)
  BY <1>2, <1>4, <1>5, FS_Subset
<1>7. Cardinality(lost \cup R) <= Cardinality(lost) + Cardinality(R)
  <2>1. /\ Cardinality(lost \cup R) = Cardinality(lost) + Cardinality(R) - Cardinality(lost \cap R)
        /\ IsFiniteSet(lost \cap R)
    BY <1>2, FS_Union, FS_Subset
  <2>2. Cardinality(lost \cap R) \in Nat /\ Cardinality(lost) \in Nat /\ Cardinality(R) \in Nat
    BY <1>2, <2>1, FS_CardinalityType
  <2> QED
    BY <2>1, <2>2
<1>8. Cardinality(lost) <= BatchSize * Cardinality(old)
  BY DEF LossIsBounded
<1>9. /\ Cardinality(lost) \in Nat /\ Cardinality(R) \in Nat /\ Cardinality(lost \cup R) \in Nat
      /\ Cardinality(old) \in Nat /\ Cardinality(new) \in Nat
  <2>1. IsFiniteSet(lost \cup R)
    BY <1>2, FS_Union
  <2> QED
    BY <1>2, <2>1, FS_CardinalityType
<1>10. \A a, b, c, n, l, r \in Nat :
         l <= n * a /\ r <= n /\ c <= l + r /\ a + 1 <= b => c <= n * b
  <2> TAKE a, b, c, n, l, r \in Nat
  <2> HAVE l <= n * a /\ r <= n /\ c <= l + r /\ a + 1 <= b
  <2>1. PICK d \in Nat : b = a + 1 + d
    <3>1. b - (a + 1) \in Nat /\ b = a + 1 + (b - (a + 1))
      OBVIOUS
    <3> QED
      BY <3>1
  <2>2. n * b = n * a + n + n * d
    BY <2>1
  <2>3. n * d \in Nat /\ n * a \in Nat /\ n * b \in Nat
    OBVIOUS
  <2> QED
    BY <2>2, <2>3
<1> HIDE DEF old, new
<1>11. Cardinality(lost \cup R) <= BatchSize * Cardinality(new)
  BY <1>6, <1>7, <1>8, <1>9, <1>10, BatchSizeAssumption
<1> QED
  BY <1>11 DEF new

\* Students leave the buffers for the table, or are lost.
LEMMA FlushInv ==
  ASSUME ImportInv, NEW students \in Seq(Student),
         Flush(students) \/ (Fault /\ Insert(students)),
         Len(students) <= BatchSize, Range(students) \subseteq Buffered,
         UNCHANGED <<next, log, pos, wiped>>,
         TypeOK', Offsets', Sizes', BatchStage', BufferStage', NoSession',
         Buffered' \subseteq Buffered, Buffered \subseteq Buffered' \cup Range(students),
         faults' = 0 => /\ Distinct(students) /\ Buffered' \cap Range(students) = {}
                        /\ BuffersDisjoint' /\ AllMarked'
  PROVE  ImportInv'
<1> DEFINE R == Range(students)
<1>1. SafeInv /\ TypeOK
  BY DEF ImportInv, SafeInv
<1>2. /\ inserted' \in [Student -> Nat] /\ lost' \subseteq Student
      /\ faults' \in Nat /\ faults' >= faults
      /\ \A s \in Student : inserted[s] > 0 => inserted'[s] > 0
      /\ lost \subseteq lost'
      /\ \A s \in R : inserted'[s] > 0 \/ s \in lost'
      /\ \/ /\ lost' = lost
            /\ \A s \in Student : inserted'[s] = inserted[s] + Count(s, students)
         \/ /\ inserted' = inserted /\ lost' = lost \cup R
            /\ faults' = 0 => R \cap Refused # {}
  BY <1>1, FlushFacts
<1>3. ReceivedCovered'
  <2>1. \A s \in Student : Covered(s) => Covered(s)'
    BY <1>2 DEF Covered
  <2> QED
    BY <1>1, <2>1 DEF SafeInv, ReceivedCovered
<1>4. ASSUME faults' = 0 PROVE Quiet'
  <2>1. Quiet /\ faults = 0 /\ Distinct(students) /\ Buffered' \cap R = {}
        /\ BuffersDisjoint' /\ AllMarked'
    BY <1>1, <1>2, <1>4 DEF ImportInv, TypeOK
  <2>2. LogOnce'
    BY <2>1 DEF Quiet, LogOnce, Distinct
  <2>3. R \subseteq Student /\ \A s \in R : inserted[s] = 0 /\ s \notin lost /\ Received(s)
    BY <2>1, RangeFacts DEF Quiet, OnePlace
  <2>4. \A s \in Student : /\ inserted[s] \in Nat /\ Count(s, students) \in {0, 1}
                           /\ Count(s, students) = 0 <=> s \notin R
    BY <1>1, <2>1, CountFacts DEF TypeOK
  <2>5. OnePlace'
    <3> SUFFICES ASSUME NEW s \in Student
                 PROVE  /\ inserted'[s] <= 1
                        /\ s \in Buffered' => inserted'[s] = 0 /\ s \notin lost'
                        /\ inserted'[s] > 0 \/ s \in Buffered' \cup lost' => Received(s)'
      BY DEF OnePlace
    <3>1. /\ inserted[s] <= 1
          /\ s \in Buffered => inserted[s] = 0 /\ s \notin lost
          /\ inserted[s] > 0 \/ s \in Buffered \cup lost => Received(s)
      BY <2>1 DEF Quiet, OnePlace
    <3>2. Received(s)' <=> Received(s)
      BY DEF Received
    <3>3. s \in Buffered' => s \in Buffered /\ s \notin R
      BY <2>1
    <3>4. CASE lost' = lost /\ inserted'[s] = inserted[s] + Count(s, students)
      <4> DEFINE c == Count(s, students)
      <4>1. c \in {0, 1} /\ inserted[s] \in Nat /\ (c = 0 <=> s \notin R)
        BY <2>4
      <4>2. inserted'[s] = inserted[s] + c
        BY <3>4
      <4> HIDE DEF c
      <4>3. s \in R => s \in Buffered /\ inserted[s] = 0
        BY <2>3
      <4>4. inserted'[s] <= 1
        BY <3>1, <4>1, <4>2, <4>3
      <4>5. s \in Buffered' => inserted'[s] = 0 /\ s \notin lost'
        BY <3>1, <3>3, <3>4, <4>1, <4>2
      <4>6. inserted'[s] > 0 => inserted[s] > 0 \/ s \in Buffered
        BY <4>1, <4>2, <4>3
      <4> QED
        BY <3>1, <3>2, <3>3, <3>4, <4>4, <4>5, <4>6
    <3>5. CASE inserted' = inserted /\ lost' = lost \cup R
      BY <2>3, <2>4, <3>1, <3>2, <3>3, <3>5
    <3> QED
      BY <1>2, <3>4, <3>5
  <2>6. LossIsBounded'
    <3>1. CASE lost' = lost
      BY <2>1, <3>1 DEF Quiet, LossIsBounded
    <3>2. CASE lost' = lost \cup R /\ R \cap Refused # {}
      <4>1. Cardinality(R) <= BatchSize
        <5>1. Cardinality(R) \in Nat /\ Cardinality(R) <= Len(students) /\ Len(students) \in Nat
          BY RangeSize, LenProperties
        <5> QED
          BY <5>1, BatchSizeAssumption
      <4>2. R \cap lost = {} /\ lost \subseteq Student /\ LossIsBounded
        BY <1>1, <2>1, <2>3 DEF TypeOK, Quiet
      <4>3. Cardinality(lost \cup R) <= BatchSize * Cardinality((lost \cup R) \cap Refused)
        BY <2>1, <2>3, <3>2, <4>1, <4>2, BatchPaid
      <4> QED
        BY <3>2, <4>3 DEF LossIsBounded
    <3> QED
      BY <1>2, <1>4, <3>1, <3>2
  <2> QED
    BY <2>1, <2>2, <2>5, <2>6 DEF Quiet
<1> QED
  BY <1>3, <1>4 DEF ImportInv, SafeInv
-----------------------------------------------------------------------------
(* What a claim does to the buffer                                         *)

\* The steps below leave these facts in a form that is easy to cite.
LEMMA Sorts ==
  ASSUME SafeInv
  PROVE  /\ TypeOK
         /\ \A q \in Partition : /\ log[q] \in Seq(Student \cup {Garbage})
                                 /\ batch[q] \in Seq(Student)
                                 /\ committed[q] \in Nat /\ marked[q] \in Nat
                                 /\ pos[q] \in Nat /\ Len(log[q]) \in Nat
                                 /\ committed[q] <= marked[q] /\ marked[q] <= pos[q]
                                 /\ pos[q] <= Len(log[q])
         /\ \A q \in Partition : claim[q] \notin {"flush", "leaving"} => batch[q] = <<>>
         /\ <<>> \in Seq(Student) /\ Len(<<>>) = 0 /\ Distinct(<<>>) /\ Range(<<>>) = {}
<1>1. TypeOK /\ Offsets /\ BatchStage
  BY DEF SafeInv
<1>2. <<>> \in Seq(Student) /\ Len(<<>>) = 0
  BY EmptySeq
<1>3. Range(<<>>) = {}
  BY DEF Range
<1>4. Distinct(<<>>)
  BY <1>2 DEF Distinct
<1> QED
  BY <1>1, <1>2, <1>3, <1>4 DEF TypeOK, Offsets, BatchStage

\* A claim that starts throws the buffer away; whoever was in it is counted
\* as wiped.
LEMMA StartClaimInv ==
  ASSUME ImportInv, NEW p \in Partition, StartClaim(p)
  PROVE  ImportInv'
<1>1. SafeInv /\ TypeOK
  BY DEF ImportInv, SafeInv
<1>2. /\ claim[p] = "waiting" /\ claim' = [claim EXCEPT ![p] = "loop"]
      /\ pending' = <<>> /\ wiped' = wiped \cup Range(pending)
      /\ UNCHANGED <<next, log, session, pos, marked, committed, batch, inserted, lost, faults>>
  BY DEF StartClaim, Goto
<1>3. TypeOK'
  <2>1. Range(pending) \subseteq Student
    BY <1>1, RangeFacts DEF TypeOK
  <2> QED
    BY <1>1, <1>2, <2>1, Sorts DEF TypeOK
<1>4. Offsets' /\ Sizes' /\ BatchStage' /\ BufferStage' /\ NoSession'
  <2>1. Offsets' /\ Sizes'
    BY <1>1, <1>2, Sorts, BatchSizeAssumption DEF SafeInv, Offsets, Sizes
  <2>2. BatchStage' /\ BufferStage' /\ NoSession'
    BY <1>1, <1>2 DEF SafeInv, TypeOK, BatchStage, BufferStage, NoSession
  <2> QED
    BY <2>1, <2>2
<1>5. Buffered' \subseteq Buffered /\ Buffered \subseteq Buffered' \cup wiped'
  BY <1>2, <1>1, Sorts DEF Buffered
<1>6. ReceivedCovered'
  <2>1. \A s \in Student : Covered(s) => Covered(s)'
    BY <1>2, <1>5 DEF Covered
  <2> QED
    BY <1>1, <1>2, <2>1 DEF SafeInv, ReceivedCovered
<1>7. ASSUME faults' = 0 PROVE Quiet'
  <2>1. Quiet
    BY <1>2, <1>7 DEF ImportInv
  <2>2. LogOnce' <=> LogOnce
    BY <1>2 DEF LogOnce, Distinct
  <2>3. BuffersDisjoint'
    <3>1. Distinct(pending)' /\ Range(pending') = {}
      BY <1>1, <1>2, Sorts DEF Distinct
    <3>2. \A q \in Partition : Distinct(batch[q])' <=> Distinct(batch[q])
      BY <1>2 DEF Distinct
    <3> QED
      BY <1>2, <2>1, <3>1, <3>2 DEF Quiet, BuffersDisjoint
  <2>4. OnePlace'
    <3>1. \A s \in Student : Received(s)' <=> Received(s)
      BY <1>2 DEF Received
    <3> QED
      BY <1>2, <1>5, <2>1, <3>1 DEF Quiet, OnePlace
  <2>5. AllMarked'
    BY <1>1, <1>2, <2>1 DEF Quiet, AllMarked, TypeOK
  <2>6. LossIsBounded'
    BY <1>2, <2>1 DEF Quiet, LossIsBounded
  <2> QED
    BY <2>1, <2>2, <2>3, <2>4, <2>5, <2>6 DEF Quiet
<1> QED
  BY <1>3, <1>4, <1>6, <1>7 DEF ImportInv, SafeInv

\* flushAndExit takes the buffer.
LEMMA TakeRestInv ==
  ASSUME ImportInv, NEW p \in Partition, TakeRest(p)
  PROVE  ImportInv'
<1>1. SafeInv /\ TypeOK
  BY DEF ImportInv, SafeInv
<1>2. /\ claim[p] = "exit" /\ claim' = [claim EXCEPT ![p] = "leaving"]
      /\ batch' = [batch EXCEPT ![p] = pending] /\ pending' = <<>>
      /\ UNCHANGED <<next, log, session, pos, marked, committed, inserted, lost, wiped, faults>>
  BY DEF TakeRest, Goto, Taken, Left
<1>3. batch[p] = <<>> /\ batch'[p] = pending /\ \A q \in Partition \ {p} : batch'[q] = batch[q]
  BY <1>1, <1>2, Sorts DEF TypeOK
<1>4. TypeOK'
  BY <1>1, <1>2, Sorts DEF TypeOK
<1>5. Offsets' /\ Sizes' /\ BatchStage' /\ BufferStage' /\ NoSession'
  <2>1. Offsets' /\ Sizes'
    <3>1. Len(pending) <= BatchSize
      BY <1>1, LenProperties, BatchSizeAssumption DEF SafeInv, Sizes, TypeOK
    <3> QED
      BY <1>1, <1>2, <1>3, <3>1, Sorts, BatchSizeAssumption DEF SafeInv, Offsets, Sizes
  <2>2. BatchStage' /\ BufferStage' /\ NoSession'
    BY <1>1, <1>2, <1>3 DEF SafeInv, TypeOK, BatchStage, BufferStage, NoSession
  <2> QED
    BY <2>1, <2>2
<1>6. \A s : s \in Buffered' <=> s \in Buffered
  <2>1. Range(pending') = {} /\ Range(batch[p]) = {} /\ Range(batch'[p]) = Range(pending)
    BY <1>1, <1>2, <1>3, Sorts
  <2> QED
    BY <1>3, <2>1 DEF Buffered
<1>7. ReceivedCovered'
  <2>1. \A s \in Student : Covered(s) => Covered(s)'
    BY <1>2, <1>6 DEF Covered
  <2> QED
    BY <1>1, <1>2, <2>1 DEF SafeInv, ReceivedCovered
<1>8. ASSUME faults' = 0 PROVE Quiet'
  <2>1. Quiet
    BY <1>2, <1>8 DEF ImportInv
  <2>2. LogOnce' <=> LogOnce
    BY <1>2 DEF LogOnce, Distinct
  <2>3. BuffersDisjoint'
    <3>1. Distinct(pending') /\ Range(pending') = {}
      BY <1>1, <1>2, Sorts
    <3>2. Distinct(batch'[p]) /\ \A q \in Partition : Distinct(batch'[q])
      BY <1>3, <2>1 DEF Quiet, BuffersDisjoint
    <3>3. \A q \in Partition : \A r \in Partition : r # q => Range(batch'[q]) \cap Range(batch'[r]) = {}
      BY <1>3, <2>1 DEF Quiet, BuffersDisjoint
    <3>4. /\ Distinct(pending)'
          /\ \A q \in Partition : Distinct(batch[q])'
      BY <3>1, <3>2 DEF Distinct
    <3> QED
      BY <3>1, <3>3, <3>4 DEF BuffersDisjoint
  <2>4. OnePlace'
    <3>1. \A s \in Student : Received(s)' <=> Received(s)
      BY <1>2 DEF Received
    <3> QED
      BY <1>2, <1>6, <2>1, <3>1 DEF Quiet, OnePlace
  <2>5. AllMarked'
    BY <1>1, <1>2, <2>1 DEF Quiet, AllMarked, TypeOK
  <2>6. LossIsBounded'
    BY <1>2, <2>1 DEF Quiet, LossIsBounded
  <2> QED
    BY <2>1, <2>2, <2>3, <2>4, <2>5, <2>6 DEF Quiet
<1> QED
  BY <1>4, <1>5, <1>7, <1>8 DEF ImportInv, SafeInv

\* A claim inserts its batch, in the loop or when it leaves.
LEMMA ClaimFlushInv ==
  ASSUME ImportInv, NEW p \in Partition, FlushFull(p) \/ FlushRest(p)
  PROVE  ImportInv'
<1> DEFINE students == batch[p]
<1>1. SafeInv /\ TypeOK
  BY DEF ImportInv, SafeInv
<1>2. /\ Flush(students) /\ batch' = [batch EXCEPT ![p] = <<>>]
      /\ UNCHANGED <<next, log, pos, marked, committed, pending, wiped>>
      /\ \/ /\ claim[p] = "flush" /\ claim' = [claim EXCEPT ![p] = "mark"]
            /\ session' = session
         \/ /\ claim[p] = "leaving" /\ claim' = [claim EXCEPT ![p] = "done"]
            /\ session' = "closing"
  BY DEF FlushFull, FlushRest, Goto
<1>3. batch'[p] = <<>> /\ \A q \in Partition \ {p} : batch'[q] = batch[q]
  BY <1>1, <1>2 DEF TypeOK
<1>4. students \in Seq(Student) /\ Len(students) <= BatchSize
  BY <1>1, Sorts DEF SafeInv, Sizes
<1>5. TypeOK'
  <2>1. inserted' \in [Student -> Nat] /\ lost' \subseteq Student /\ faults' \in Nat
    BY <1>1, <1>2, <1>4, FlushFacts
  <2> QED
    BY <1>1, <1>2, <2>1, Sorts DEF TypeOK
<1>6. faults \in Nat /\ faults' \in Nat /\ faults' >= faults
  BY <1>1, <1>2, <1>4, FlushFacts DEF TypeOK
<1>7. Offsets' /\ Sizes'
  BY <1>1, <1>2, <1>3, Sorts, BatchSizeAssumption DEF SafeInv, Offsets, Sizes
<1>8. BatchStage' /\ BufferStage' /\ NoSession'
  BY <1>1, <1>2, <1>3 DEF SafeInv, TypeOK, BatchStage, BufferStage, NoSession
<1>9. /\ Range(students) \subseteq Buffered /\ Buffered' \subseteq Buffered
      /\ Buffered \subseteq Buffered' \cup Range(students)
  <2>1. Range(batch'[p]) = {}
    BY <1>1, <1>3, Sorts
  <2> QED
    BY <1>2, <1>3, <2>1 DEF Buffered
<1>10. ASSUME faults' = 0
       PROVE  /\ Distinct(students) /\ Buffered' \cap Range(students) = {}
              /\ BuffersDisjoint' /\ AllMarked'
  <2>1. Quiet
    BY <1>6, <1>10 DEF ImportInv
  <2>2. /\ Distinct(pending) /\ Distinct(students)
        /\ \A q \in Partition : /\ Distinct(batch[q]) /\ Range(batch[q]) \cap Range(pending) = {}
                                /\ \A r \in Partition :
                                     r # q => Range(batch[q]) \cap Range(batch[r]) = {}
    BY <2>1 DEF Quiet, BuffersDisjoint
  <2>3. Distinct(<<>>) /\ Range(<<>>) = {}
    BY <1>1, Sorts
  <2>4. BuffersDisjoint'
    <3>1. Distinct(pending)' /\ \A q \in Partition : Distinct(batch[q])'
      <4>1. Distinct(pending') /\ \A q \in Partition : Distinct(batch'[q])
        BY <1>2, <1>3, <2>2, <2>3
      <4> QED
        BY <4>1 DEF Distinct
    <3>2. \A q \in Partition : /\ Range(batch'[q]) \cap Range(pending') = {}
                               /\ \A r \in Partition :
                                    r # q => Range(batch'[q]) \cap Range(batch'[r]) = {}
      BY <1>2, <1>3, <2>2, <2>3
    <3> QED
      BY <3>1, <3>2 DEF BuffersDisjoint
  <2>5. Buffered' \cap Range(students) = {}
    BY <1>2, <1>3, <2>2, <2>3 DEF Buffered
  <2>6. AllMarked'
    BY <1>1, <1>2, <2>1 DEF Quiet, AllMarked, SafeInv, NoSession, TypeOK
  <2> QED
    BY <2>2, <2>4, <2>5, <2>6
<1> HIDE DEF students
<1> QED
  BY <1>2, <1>4, <1>5, <1>7, <1>8, <1>9, <1>10, FlushInv

\* Cleanup inserts an empty buffer.
LEMMA CloseSessionInv == ASSUME ImportInv, CloseSession PROVE ImportInv'
<1>1. SafeInv /\ TypeOK
  BY DEF ImportInv, SafeInv
<1>2. /\ session = "closing" /\ \A p \in Partition : claim[p] = "done"
      /\ session' = "none" /\ pending' = <<>>
      /\ Flush(pending) \/ (Fault /\ Insert(pending))
      /\ \/ committed' = marked
         \/ Fault /\ committed' = committed
      /\ UNCHANGED <<next, log, claim, pos, marked, batch, wiped>>
  BY DEF CloseSession, Claims
<1>3. pending = <<>> /\ \A p \in Partition : batch[p] = <<>>
  BY <1>1, <1>2, Sorts DEF SafeInv, BufferStage
<1>4. /\ inserted' \in [Student -> Nat] /\ lost' \subseteq Student
      /\ faults' \in Nat /\ faults' >= faults /\ faults \in Nat
  BY <1>1, <1>2, FlushFacts DEF TypeOK
<1>5. TypeOK'
  BY <1>1, <1>2, <1>3, <1>4 DEF TypeOK
<1>6. Offsets' /\ Sizes' /\ BatchStage' /\ BufferStage' /\ NoSession'
  <2>1. Offsets' /\ Sizes'
    BY <1>1, <1>2, <1>3, Sorts, BatchSizeAssumption DEF SafeInv, Offsets, Sizes
  <2>2. BatchStage' /\ BufferStage' /\ NoSession'
    BY <1>1, <1>2, <1>3 DEF BatchStage, BufferStage, NoSession
  <2> QED
    BY <2>1, <2>2
<1>7. Range(pending) = {} /\ Distinct(pending) /\ pending \in Seq(Student) /\ Len(pending) <= BatchSize
  BY <1>1, <1>3, Sorts, BatchSizeAssumption
<1>8. \A s : s \in Buffered' <=> s \in Buffered
  BY <1>2, <1>3 DEF Buffered
<1>9. ASSUME faults' = 0 PROVE BuffersDisjoint' /\ AllMarked'
  <2>1. Quiet
    BY <1>4, <1>9 DEF ImportInv
  <2>2. BuffersDisjoint' <=> BuffersDisjoint
    BY <1>2, <1>3 DEF BuffersDisjoint, Distinct
  <2>3. committed' = marked
    BY <1>2, <1>4, <1>9 DEF Fault
  <2>4. AllMarked'
    BY <1>2, <2>1, <2>3 DEF Quiet, AllMarked
  <2> QED
    BY <2>1, <2>2, <2>4 DEF Quiet
<1> QED
  BY <1>2, <1>5, <1>6, <1>7, <1>8, <1>9, FlushInv

\* The process dies: what is buffered is lost, and known to be.
LEMMA CrashInv == ASSUME ImportInv, Crash PROVE ImportInv'
<1>1. SafeInv /\ TypeOK
  BY DEF ImportInv, SafeInv
<1>2. /\ next' = FileSize + 1 /\ session' = "none"
      /\ claim' = [p \in Partition |-> "done"]
      /\ pos' = committed /\ marked' = committed
      /\ pending' = <<>> /\ batch' = [p \in Partition |-> <<>>]
      /\ lost' = lost \cup Buffered /\ faults' = faults + 1
      /\ UNCHANGED <<log, committed, inserted, wiped>>
  BY DEF Crash, Fault
<1>3. Buffered \subseteq Student
  BY <1>1, RangeFacts DEF TypeOK, Buffered
<1>4. TypeOK'
  BY <1>1, <1>2, <1>3, Sorts, FileSizeAssumption DEF TypeOK
<1>5. Offsets' /\ Sizes' /\ BatchStage' /\ BufferStage' /\ NoSession'
  <2>1. Offsets' /\ Sizes'
    BY <1>1, <1>2, Sorts, BatchSizeAssumption DEF Offsets, Sizes
  <2>2. BatchStage' /\ BufferStage' /\ NoSession'
    BY <1>2 DEF BatchStage, BufferStage, NoSession
  <2> QED
    BY <2>1, <2>2
<1>6. ReceivedCovered'
  <2>1. \A s \in Student : Covered(s) => Covered(s)'
    BY <1>2 DEF Covered
  <2>2. \A p \in Partition : \A k \in 1..pos'[p] : k \in 1..pos[p]
    BY <1>1, <1>2, Sorts
  <2> QED
    BY <1>1, <1>2, <2>1, <2>2 DEF SafeInv, ReceivedCovered
<1>7. faults' # 0
  BY <1>1, <1>2 DEF TypeOK
<1> QED
  BY <1>4, <1>5, <1>6, <1>7 DEF ImportInv, SafeInv

\* Garbage is skipped: it is nobody's record, and there is none without a fault.
LEMMA ReceiveGarbage ==
  ASSUME ImportInv, NEW p \in Partition, Receive(p), log[p][pos[p] + 1] = Garbage
  PROVE  ImportInv'
<1>1. SafeInv /\ TypeOK
  BY DEF ImportInv, SafeInv
<1>2. /\ claim[p] = "loop" /\ pos[p] < Len(log[p])
      /\ pos' = [pos EXCEPT ![p] = @ + 1]
      /\ marked' = [marked EXCEPT ![p] = pos[p] + 1]
      /\ UNCHANGED <<claim, pending, batch>>
      /\ UNCHANGED <<next, log, session, committed, inserted, lost, wiped, faults>>
  BY DEF Receive, Parses
<1>3. pos'[p] = pos[p] + 1 /\ \A q \in Partition \ {p} : pos'[q] = pos[q]
  BY <1>1, <1>2 DEF TypeOK
<1>4. TypeOK'
  <2>1. pos[p] + 1 \in Nat
    BY <1>1, Sorts
  <2> QED
    BY <1>1, <1>2, <2>1 DEF TypeOK
<1>5. Offsets' /\ Sizes' /\ BatchStage' /\ BufferStage' /\ NoSession'
  <2>1. marked'[p] = pos[p] + 1 /\ \A q \in Partition \ {p} : marked'[q] = marked[q]
    BY <1>1, <1>2 DEF TypeOK
  <2>2. Offsets'
    <3>1. \A q \in Partition : /\ committed[q] \in Nat /\ marked[q] \in Nat /\ pos[q] \in Nat
                               /\ Len(log[q]) \in Nat
                               /\ committed[q] <= marked[q] /\ marked[q] <= pos[q]
                               /\ pos[q] <= Len(log[q])
      BY <1>1, Sorts
    <3> QED
      BY <1>2, <1>3, <2>1, <3>1 DEF Offsets
  <2>3. Sizes'
    BY <1>1, <1>2 DEF SafeInv, Sizes
  <2>4. BatchStage' /\ BufferStage' /\ NoSession'
    BY <1>1, <1>2 DEF SafeInv, BatchStage, BufferStage, NoSession
  <2> QED
    BY <2>2, <2>3, <2>4
<1>6. ReceivedCovered'
  <2>1. \A s \in Student : Covered(s)' <=> Covered(s)
    BY <1>2 DEF Covered, Buffered
  <2>2. \A k \in 1..pos'[p] : k \in 1..pos[p] \/ k = pos[p] + 1
    BY <1>1, <1>3, Sorts
  <2> QED
    BY <1>1, <1>2, <1>3, <2>1, <2>2, GarbageAssumption DEF SafeInv, ReceivedCovered
<1>7. faults' # 0
  <2>1. pos[p] + 1 \in 1..Len(log[p])
    BY <1>1, <1>2, Sorts
  <2> QED
    BY <1>2, <2>1, GarbageAssumption DEF ImportInv, Quiet, LogOnce
<1> QED
  BY <1>4, <1>5, <1>6, <1>7 DEF ImportInv, SafeInv

\* A student that is received for the first time is nowhere yet.
LEMMA FirstReceived ==
  ASSUME SafeInv, LogOnce, OnePlace, NEW p \in Partition, pos[p] < Len(log[p])
  PROVE  LET s == log[p][pos[p] + 1]
         IN /\ s \in Student /\ Hash[s] = p
            /\ s \notin Buffered /\ s \notin lost /\ inserted[s] = 0
<1> DEFINE s == log[p][pos[p] + 1]
<1>1. /\ pos[p] \in Nat /\ Len(log[p]) \in Nat
      /\ inserted \in [Student -> Nat]
  BY Sorts DEF TypeOK
<1>2. pos[p] + 1 \in 1..Len(log[p]) /\ \A k \in 1..pos[p] : k \in 1..Len(log[p]) /\ k # pos[p] + 1
  BY <1>1
<1>3. s \in Student /\ Hash[s] = p
  BY <1>2 DEF LogOnce
<1>4. ~Received(s)
  <2>1. \A k \in 1..pos[p] : log[p][k] # s
    BY <1>2 DEF LogOnce, Distinct
  <2> QED
    BY <1>3, <2>1 DEF Received
<1>5. inserted[s] \in Nat /\ ~(inserted[s] > 0)
  BY <1>1, <1>3, <1>4 DEF OnePlace
<1>6. s \notin Buffered /\ s \notin lost
  BY <1>3, <1>4 DEF OnePlace
<1> QED
  BY <1>3, <1>5, <1>6

\* A student is received: it is buffered, alone or with the batch it fills.
LEMMA ReceiveStudent ==
  ASSUME ImportInv, NEW p \in Partition, Receive(p), log[p][pos[p] + 1] # Garbage
  PROVE  ImportInv'
<1> DEFINE record == log[p][pos[p] + 1]
           buffer == Append(pending, record)
<1>1. SafeInv /\ TypeOK
  BY DEF ImportInv, SafeInv
<1>2. /\ claim[p] = "loop" /\ pos[p] < Len(log[p])
      /\ pos' = [pos EXCEPT ![p] = @ + 1]
      /\ marked' = marked
      /\ \/ /\ Len(buffer) >= BatchSize
            /\ batch' = [batch EXCEPT ![p] = buffer] /\ pending' = <<>>
            /\ claim' = [claim EXCEPT ![p] = "flush"]
         \/ /\ ~(Len(buffer) >= BatchSize)
            /\ pending' = buffer /\ batch' = batch
            /\ claim' = [claim EXCEPT ![p] = "mark"]
      /\ UNCHANGED <<next, log, session, committed, inserted, lost, wiped, faults>>
  BY DEF Receive, Parses, Full, Goto
<1>3. pos'[p] = pos[p] + 1 /\ \A q \in Partition \ {p} : pos'[q] = pos[q]
  BY <1>1, <1>2 DEF TypeOK
<1>4. record \in Student
  <2>1. pos[p] + 1 \in 1..Len(log[p]) /\ log[p] \in Seq(Student \cup {Garbage})
    BY <1>1, <1>2, Sorts
  <2>2. record \in Student \cup {Garbage}
    BY <2>1, ElementOfSeq
  <2> QED
    BY <2>2
<1>5. /\ pending \in Seq(Student) /\ Len(pending) \in Nat /\ Len(pending) < BatchSize
  BY <1>1, LenProperties DEF SafeInv, Sizes, TypeOK
<1>6. /\ buffer \in Seq(Student) /\ Len(buffer) = Len(pending) + 1
      /\ Range(buffer) = Range(pending) \cup {record}
      /\ Distinct(pending) /\ record \notin Range(pending) => Distinct(buffer)
  BY <1>4, <1>5, AppendRange
<1>7. batch[p] = <<>> /\ Range(batch[p]) = {}
  BY <1>1, <1>2, Sorts
<1> HIDE DEF record, buffer
  \* One of the two, with what it needs.
<1>8. \/ /\ batch'[p] = buffer /\ \A q \in Partition \ {p} : batch'[q] = batch[q]
         /\ pending' = <<>> /\ claim' = [claim EXCEPT ![p] = "flush"]
      \/ /\ Len(buffer) < BatchSize /\ pending' = buffer /\ batch' = batch
         /\ claim' = [claim EXCEPT ![p] = "mark"]
  BY <1>1, <1>2, <1>5, <1>6, BatchSizeAssumption DEF TypeOK
<1>9. TypeOK'
  <2>1. pos' \in [Partition -> Nat]
    <3>1. pos[p] + 1 \in Nat
      BY <1>1, Sorts
    <3> QED
      BY <1>1, <1>2, <3>1 DEF TypeOK
  <2>2. pending' \in Seq(Student) /\ batch' \in [Partition -> Seq(Student)]
    BY <1>1, <1>2, <1>6, Sorts DEF TypeOK
  <2> QED
    BY <1>1, <1>2, <2>1, <2>2 DEF TypeOK
<1>10. Offsets' /\ Sizes' /\ BatchStage' /\ BufferStage' /\ NoSession'
  <2>1. Offsets'
    <3>1. \A q \in Partition : /\ committed[q] \in Nat /\ marked[q] \in Nat /\ pos[q] \in Nat
                               /\ Len(log[q]) \in Nat
                               /\ committed[q] <= marked[q] /\ marked[q] <= pos[q]
                               /\ pos[q] <= Len(log[q])
      BY <1>1, Sorts
    <3> QED
      BY <1>2, <1>3, <3>1 DEF Offsets
  <2>2. Sizes'
    <3>1. Len(buffer) <= BatchSize /\ Len(<<>>) = 0 /\ 0 < BatchSize
      BY <1>1, <1>5, <1>6, Sorts, BatchSizeAssumption
    <3> QED
      BY <1>1, <1>8, <3>1 DEF SafeInv, Sizes
  <2>3. BatchStage' /\ BufferStage' /\ NoSession'
    BY <1>1, <1>2, <1>8 DEF SafeInv, TypeOK, BatchStage, BufferStage, NoSession
  <2> QED
    BY <2>1, <2>2, <2>3
<1>11. \A s : s \in Buffered' <=> s \in Buffered \/ s = record
  <2>1. Range(<<>>) = {}
    BY <1>1, Sorts
  <2> QED
    BY <1>6, <1>7, <1>8, <2>1 DEF Buffered
<1>12. ReceivedCovered'
  <2>1. \A s \in Student : Covered(s) \/ s = record => Covered(s)'
    BY <1>2, <1>11 DEF Covered
  <2>2. \A k \in 1..pos'[p] : k \in 1..pos[p] \/ log[p][k] = record
    BY <1>1, <1>3, Sorts DEF record
  <2> QED
    BY <1>1, <1>2, <1>3, <2>1, <2>2 DEF SafeInv, ReceivedCovered
<1>13. ASSUME faults' = 0 PROVE Quiet'
  <2>1. Quiet
    BY <1>2, <1>13 DEF ImportInv
  <2>2. LogOnce' <=> LogOnce
    BY <1>2 DEF LogOnce, Distinct
  <2>3. /\ Hash[record] = p /\ record \notin Buffered
        /\ record \notin lost /\ inserted[record] = 0
    BY <1>1, <1>2, <2>1, FirstReceived DEF Quiet, record
  <2>4. BuffersDisjoint'
    <3>1. /\ Distinct(pending)
          /\ \A q \in Partition : /\ Distinct(batch[q]) /\ Range(batch[q]) \cap Range(pending) = {}
                                  /\ \A r \in Partition :
                                       r # q => Range(batch[q]) \cap Range(batch[r]) = {}
      BY <2>1 DEF Quiet, BuffersDisjoint
    <3>2. record \notin Range(pending) /\ \A q \in Partition : record \notin Range(batch[q])
      BY <2>3 DEF Buffered
    <3>3. Distinct(<<>>) /\ Range(<<>>) = {} /\ Distinct(buffer)
      BY <1>1, <1>6, <3>1, <3>2, Sorts
    <3>4. Distinct(pending') /\ \A q \in Partition : Distinct(batch'[q])
      BY <1>8, <3>1, <3>3
    <3>5. \A q \in Partition : /\ Range(batch'[q]) \cap Range(pending') = {}
                               /\ \A r \in Partition :
                                    r # q => Range(batch'[q]) \cap Range(batch'[r]) = {}
      <4>1. CASE pending' = buffer /\ batch' = batch
        BY <1>6, <3>1, <3>2, <4>1
      <4>2. CASE pending' = <<>> /\ batch'[p] = buffer /\ \A q \in Partition \ {p} : batch'[q] = batch[q]
        <5>1. \A q \in Partition \ {p} : Range(batch'[q]) \cap Range(buffer) = {}
          BY <1>6, <3>1, <3>2, <4>2
        <5>2. \A q \in Partition : Range(batch'[q]) \cap Range(pending') = {}
          BY <3>3, <4>2
        <5>3. ASSUME NEW q \in Partition, NEW r \in Partition, r # q
              PROVE  Range(batch'[q]) \cap Range(batch'[r]) = {}
          BY <3>1, <4>2, <5>1, <5>3
        <5> QED
          BY <5>2, <5>3
      <4> QED
        BY <1>8, <4>1, <4>2
    <3>6. Distinct(pending)' /\ \A q \in Partition : Distinct(batch[q])'
      BY <3>4 DEF Distinct
    <3> QED
      BY <3>5, <3>6 DEF BuffersDisjoint
  <2>5. OnePlace'
    <3>1. ASSUME NEW s \in Student, Received(s) \/ s = record PROVE Received(s)'
      <4>1. \A q \in Partition : \A k \in 1..pos[q] : k \in 1..pos'[q]
        BY <1>1, <1>3, Sorts
      <4>2. Hash[s] \in Partition
        BY HashAssumption
      <4>3. CASE Received(s)
        BY <1>2, <4>1, <4>2, <4>3 DEF Received
      <4>4. CASE s = record
        <5>1. pos'[p] \in 1..pos'[p] /\ log[p][pos'[p]] = record
          BY <1>1, <1>3, Sorts DEF record
        <5> QED
          BY <1>2, <2>3, <4>4, <5>1 DEF Received
      <4> QED
        BY <3>1, <4>3, <4>4
    <3> QED
      BY <1>2, <1>11, <2>1, <2>3, <3>1 DEF Quiet, OnePlace
  <2>6. AllMarked'
    BY <1>1, <1>2, <1>3, <1>8, <2>1 DEF Quiet, AllMarked, SafeInv, NoSession, TypeOK
  <2>7. LossIsBounded'
    BY <1>2, <2>1 DEF Quiet, LossIsBounded
  <2> QED
    BY <2>1, <2>2, <2>4, <2>5, <2>6, <2>7 DEF Quiet
<1> QED
  BY <1>9, <1>10, <1>12, <1>13 DEF ImportInv, SafeInv
-----------------------------------------------------------------------------
(* The invariant and what follows                                          *)

\* The start.
LEMMA InitInv == ASSUME Init PROVE ImportInv
<1>1. /\ next = 1 /\ log = [p \in Partition |-> <<>>] /\ session = "none"
      /\ claim = [p \in Partition |-> "done"] /\ pending = <<>>
      /\ batch = [p \in Partition |-> <<>>] /\ inserted = [s \in Student |-> 0]
      /\ lost = {} /\ wiped = {} /\ faults = 0
      /\ pos = Zero /\ marked = Zero /\ committed = Zero
  BY DEF Init
<1>2. /\ <<>> \in Seq(Student) /\ <<>> \in Seq(Student \cup {Garbage})
      /\ Len(<<>>) = 0 /\ Distinct(<<>>) /\ Range(<<>>) = {}
  BY EmptySeq DEF Distinct, Range
<1>3. Zero \in [Partition -> Nat] /\ \A p \in Partition : Zero[p] = 0
  BY DEF Zero
<1>4. TypeOK
  BY <1>1, <1>2, <1>3, FileSizeAssumption DEF TypeOK
<1>5. SafeInv
  BY <1>1, <1>2, <1>3, <1>4, BatchSizeAssumption
     DEF SafeInv, Offsets, Sizes, ReceivedCovered, BatchStage, BufferStage, NoSession
<1>6. LogOnce /\ BuffersDisjoint /\ AllMarked
  BY <1>1, <1>2, <1>3 DEF LogOnce, BuffersDisjoint, AllMarked
<1>7. OnePlace
  BY <1>1, <1>2 DEF OnePlace, Buffered
<1>8. LossIsBounded
  BY <1>1, FS_EmptySet, BatchSizeAssumption DEF LossIsBounded
<1> QED
  BY <1>5, <1>6, <1>7, <1>8 DEF ImportInv, Quiet

\* Every step keeps the invariant.
LEMMA ImportStep == ASSUME ImportInv, [Next]_vars PROVE ImportInv'
<1>1. CASE SendRow \/ ForeignRecord
  BY <1>1, WriteInv
<1>2. CASE OpenSession
  BY <1>2, OpenSessionInv
<1>3. CASE CloseSession
  BY <1>3, CloseSessionInv
<1>4. CASE Crash
  BY <1>4, CrashInv
<1>5. ASSUME NEW p \in Partition, Handle(p) PROVE ImportInv'
  <2>1. CASE Receive(p)
    BY <2>1, ReceiveGarbage, ReceiveStudent
  <2> QED
    BY <1>5, <2>1, StartClaimInv, ClaimControlInv, ClaimFlushInv, TakeRestInv DEF Handle
<1>6. ASSUME NEW p \in Partition, AutoCommit(p) PROVE ImportInv'
  BY <1>6, ClaimControlInv
<1>7. CASE Rebalance
  <2>1. CASE Partition = {}
    <3>1. SafeInv /\ TypeOK
      BY DEF ImportInv, SafeInv
    <3>2. TypeOK' /\ faults' # 0
      BY <1>7, <3>1 DEF Rebalance, Fault, TypeOK, bufferVars
    <3>3. Offsets' /\ BatchStage' /\ BufferStage' /\ NoSession'
      BY <1>7, <2>1, <3>1 DEF SafeInv, Offsets, BatchStage, BufferStage, NoSession,
         Rebalance, bufferVars
    <3>4. faults' >= faults
      BY <1>7, <3>1 DEF Rebalance, Fault, TypeOK
    <3> QED
      BY <1>7, <2>1, <3>2, <3>3, <3>4, ControlStep DEF Rebalance
  <2> QED
    BY <1>7, <2>1, ClaimControlInv
<1>8. CASE UNCHANGED vars
  <2>1. /\ UNCHANGED <<next, log, session, claim, pos, marked, committed>>
        /\ UNCHANGED <<pending, batch, inserted, lost, wiped, faults>>
    BY <1>8 DEF vars, sessionVars, bufferVars
  <2>2. SafeInv' <=> SafeInv
    BY <2>1 DEF SafeInv, TypeOK, Offsets, Sizes, ReceivedCovered, Covered, Buffered,
       BatchStage, BufferStage, NoSession
  <2>3. (faults = 0 => Quiet)' <=> (faults = 0 => Quiet)
    BY <2>1 DEF Quiet, LogOnce, Distinct, BuffersDisjoint, OnePlace, Buffered, Received,
       AllMarked, LossIsBounded
  <2> QED
    BY <2>2, <2>3 DEF ImportInv
<1> QED
  BY <1>1, <1>2, <1>3, <1>4, <1>5, <1>6, <1>7, <1>8 DEF Next

\* The inductive invariant of the import.
THEOREM ImportInvariant == Spec => []ImportInv
BY InitInv, ImportStep, PTL DEF Spec

\* The variables keep their types.
THEOREM ImportTyped == Spec => []TypeOK
<1>1. ImportInv => TypeOK
  BY DEF ImportInv, SafeInv
<1> QED
  BY <1>1, ImportInvariant, PTL

\* However sessions end, claims interleave and the process dies: a student
\* whose record is marked is in the table or on the way there, or it was lost
\* with a batch or wiped by a claim that started late.
THEOREM MarkedIsCovered == Spec => []NothingVanishes
<1>1. ASSUME ImportInv PROVE NothingVanishes
  <2>1. SafeInv
    BY <1>1 DEF ImportInv
  <2>2. \A p \in Partition : \A k \in 1..marked[p] : k \in 1..pos[p]
    BY <2>1, Sorts
  <2> QED
    BY <2>1, <2>2 DEF SafeInv, ReceivedCovered, Covered, NothingVanishes
<1> QED
  BY <1>1, ImportInvariant, PTL

\* Cleanup never finds a student in the buffer: flushAndExit of the last claim
\* has taken it.
THEOREM CleanupIdle == Spec => []CleanupFindsNothing
<1>1. ASSUME ImportInv PROVE CleanupFindsNothing
  <2>1. BufferStage
    BY <1>1 DEF ImportInv, SafeInv
  <2> QED
    BY <2>1 DEF BufferStage, CleanupFindsNothing, Claims
<1> QED
  BY <1>1, ImportInvariant, PTL

\* Without a fault, what MySQL refuses takes at most a batch with it.
THEOREM LossesBounded == Spec => []LossIsBounded
<1>1. ImportInv => LossIsBounded
  BY DEF ImportInv, Quiet, LossIsBounded
<1> QED
  BY <1>1, ImportInvariant, PTL

\* Without a fault a partition holds no more records than the file has rows.
LEMMA LogFits ==
  ASSUME TypeOK, LogOnce, NEW p \in Partition
  PROVE  Len(log[p]) <= FileSize
<1>1. log[p] \in Seq(Student \cup {Garbage}) /\ Len(log[p]) \in Nat
  BY LenProperties DEF TypeOK
<1>2. log[p] \in [1..Len(log[p]) -> Student]
  BY <1>1, LenProperties DEF LogOnce
<1>3. log[p] \in Injection(1..Len(log[p]), Student)
  BY <1>2 DEF LogOnce, Distinct, Injection, IsInjective
<1>4. /\ IsFiniteSet(Student) /\ Cardinality(Student) = FileSize
      /\ Cardinality(1..Len(log[p])) = Len(log[p])
  <2>1. \A n \in Nat : IsFiniteSet(1..n) /\ Cardinality(1..n) = n
    BY FS_Interval
  <2> QED
    BY <1>1, <2>1, FileSizeAssumption DEF Student
<1> QED
  BY <1>3, <1>4, FS_Injection

\* Without a fault no row is inserted twice, nor one that was never written:
\* a student is in the table at most as often as its record is in the topic.
THEOREM RowsOnce == Spec => []NoRepeatedRows
<1>1. ASSUME ImportInv, faults = 0, NEW s \in Student
      PROVE  inserted[s] <= Cardinality({pk \in Partition \X (1..FileSize) :
                                           /\ pk[2] <= Len(log[pk[1]])
                                           /\ log[pk[1]][pk[2]] = s})
  <2> DEFINE At == {pk \in Partition \X (1..FileSize) :
                      pk[2] <= Len(log[pk[1]]) /\ log[pk[1]][pk[2]] = s}
  <2>1. SafeInv /\ TypeOK /\ LogOnce /\ OnePlace
    BY <1>1 DEF ImportInv, SafeInv, Quiet
  <2>2. \A p \in Partition : Len(log[p]) <= FileSize /\ Len(log[p]) \in Nat
    BY <2>1, LogFits, Sorts
  <2>3. inserted[s] \in Nat /\ inserted[s] <= 1
    BY <2>1 DEF TypeOK, OnePlace
  <2>4. ASSUME NEW a \in At, NEW b \in At PROVE a = b
    <3>1. /\ a[1] \in Partition /\ b[1] \in Partition
          /\ a[2] \in 1..Len(log[a[1]]) /\ b[2] \in 1..Len(log[b[1]])
          /\ log[a[1]][a[2]] = s /\ log[b[1]][b[2]] = s
          /\ a = <<a[1], a[2]>> /\ b = <<b[1], b[2]>>
      BY <2>2
    <3>2. a[1] = b[1]
      BY <2>1, <3>1 DEF LogOnce
    <3>3. a[2] = b[2]
      BY <2>1, <3>1, <3>2 DEF LogOnce, Distinct
    <3> QED
      BY <3>1, <3>2, <3>3
  <2>5. ASSUME inserted[s] > 0 PROVE At # {}
    <3>1. PICK k \in 1..pos[Hash[s]] : log[Hash[s]][k] = s
      BY <2>1, <2>5 DEF OnePlace, Received
    <3>2. Hash[s] \in Partition
      BY HashAssumption
    <3>3. k \in 1..FileSize /\ k <= Len(log[Hash[s]])
      BY <2>1, <2>2, <3>1, <3>2, Sorts, FileSizeAssumption
    <3>4. <<Hash[s], k>> \in At
      BY <3>1, <3>2, <3>3
    <3> QED
      BY <3>4
  <2> HIDE DEF At
  <2>6. Cardinality(At) = IF At = {} THEN 0 ELSE 1
    <3>1. CASE At = {}
      BY <3>1, FS_EmptySet
    <3>2. CASE At # {}
      <4>1. PICK a : At = {a}
        BY <2>4, <3>2
      <4> QED
        BY <4>1, FS_Singleton
    <3> QED
      BY <3>1, <3>2
  <2>7. inserted[s] = 0 \/ (inserted[s] = 1 /\ At # {})
    BY <2>3, <2>5
  <2>8. inserted[s] <= Cardinality(At)
    BY <2>6, <2>7
  <2> QED
    BY <2>8 DEF At
<1>2. ImportInv => NoRepeatedRows
  BY <1>1 DEF NoRepeatedRows
<1> QED
  BY <1>2, ImportInvariant, PTL
-----------------------------------------------------------------------------
(* One partition, as in this deployment                                    *)

OneClaim == \A p, q \in Partition : p = q

\* With one partition the claim that replaces the buffer finds it empty: no
\* other could have filled it.
THEOREM OneClaimWipesNothing ==
  ASSUME OneClaim
  PROVE  Spec => []NothingWiped
<1>1. Init => NothingWiped
  BY DEF Init, NothingWiped
<1>2. ASSUME ImportInv, NothingWiped, [Next]_vars PROVE NothingWiped'
  <2>1. ASSUME NEW p \in Partition, StartClaim(p) PROVE wiped' = wiped
    <3>1. pending = <<>>
      BY <1>2, <2>1 DEF OneClaim, ImportInv, SafeInv, BufferStage, StartClaim
    <3> QED
      BY <2>1, <3>1 DEF StartClaim, Range
  <2>2. ASSUME NEW p \in Partition, Handle(p) \/ AutoCommit(p) PROVE wiped' = wiped
    BY <2>1, <2>2 DEF Handle, SkipClaim, Receive, FlushFull, MarkMessage, LeaveLoop,
       TakeRest, FlushRest, AutoCommit, bufferVars
  <2> QED
    BY <1>2, <2>2 DEF NothingWiped, Next, vars, bufferVars, SendRow, ForeignRecord,
       OpenSession, Rebalance, CloseSession, Crash
<1> QED
  BY <1>1, <1>2, ImportInvariant, PTL DEF Spec

\* What the group has committed is a matter of the table alone between two
\* sessions, and what is not there failed or died.
CommittedIsSettled ==
  session = "none" =>
    \A p \in Partition : \A k \in 1..committed[p] :
      log[p][k] \in Student => inserted[log[p][k]] > 0 \/ log[p][k] \in lost

\* With one partition no session leaves a committed student behind in memory:
\* it is in the table, unless its batch failed or the process died with it.
THEOREM SessionsLeaveNothing ==
  ASSUME OneClaim
  PROVE  Spec => []CommittedIsSettled
<1>1. ASSUME ImportInv, NothingWiped PROVE CommittedIsSettled
  <2> SUFFICES ASSUME session = "none", NEW p \in Partition, NEW k \in 1..committed[p],
                      log[p][k] \in Student
               PROVE  inserted[log[p][k]] > 0 \/ log[p][k] \in lost
    BY DEF CommittedIsSettled
  <2>1. SafeInv
    BY <1>1 DEF ImportInv
  <2>2. k \in 1..pos[p]
    BY <2>1, Sorts
  <2>3. Covered(log[p][k])
    BY <2>1, <2>2 DEF SafeInv, ReceivedCovered
  <2>4. pending = <<>> /\ \A q \in Partition : batch[q] = <<>>
    BY <2>1 DEF SafeInv, NoSession, BufferStage, BatchStage
  <2>5. Buffered = {}
    BY <2>4 DEF Buffered, Range
  <2> QED
    BY <1>1, <2>3, <2>5 DEF Covered, NothingWiped
<1> QED
  BY <1>1, ImportInvariant, OneClaimWipesNothing, PTL
=============================================================================
