-------------------------- MODULE AuditTrailProofs --------------------------
(***************************************************************************)
(* Proofs about the outbox and the audit trail it feeds, end to end.  The  *)
(* outbox: its invariant LMInv is inductive for the steps of the           *)
(* transactions and the senders (LMStep) and for a crash (Stop), so it     *)
(* holds of LocalMessage alone and inside the trail.  The trail: the       *)
(* safety of the audit rows, what the idempotency key can lose, and that   *)
(* the composition implements AuditLedger.                                 *)
(***************************************************************************)
EXTENDS AuditTrail, FiniteSetTheorems, TLAPS

(* The outbox                                                              *)

\* What an open transaction has written follows from where the request is; it
\* has written nothing to the student only if a deletion was faster.
TxnMatchesOp ==
  \A i \in MsgId :
    /\ op[i] \notin InTransaction \/ op[i] = "open" => txn[i] = {}
    /\ op[i] = "written" => txn[i] \subseteq {"student"}
    /\ op[i] = "saved" => "message" \in txn[i]
    /\ op[i] \in {"written", "saved"} /\ "student" \notin txn[i] => DeletedByOther(i)

\* The student an update or a deletion has found is there until another
\* request deletes it.
GoneByOther ==
  \A i \in MsgId \ Addition :
    op[i] = "open" => table[Target[i]] = "live" \/ DeletedByOther(i)

\* Nothing of a change is durable before its transaction ends.
NothingBeforeCommit ==
  \A i \in MsgId :
    op[i] \in InTransaction \cup {"idle"} => i \notin applied /\ outbox[i] = Absent

\* Rows in a batch exist, and their retry count was earned by failed sends.
BatchExists ==
  \A s \in Sender : \A m \in batch[s] :
    /\ outbox[m.id].status # "absent"
    /\ m.retry <= failedSends[m.id]

\* What SendMessage returned for the current row is true of the topic or of
\* the number of failures.
ReplyMeans ==
  \A s \in Sender : \A m \in batch[s] :
    Current(s, m) =>
      /\ reply[s] = "ok" => m.id \in Records
      /\ reply[s] = "error" => m.retry + 1 <= failedSends[m.id]

\* A sender holds a reply only while it works on a batch.
ReplyNeedsBatch == \A s \in Sender : batch[s] = {} => reply[s] = "none"

LMInv ==
  /\ LMTypeOK
  /\ TxnMatchesOp
  /\ GoneByOther
  /\ NothingBeforeCommit
  /\ ChangeHasMessage
  /\ BatchExists
  /\ ReplyNeedsBatch
  /\ ReplyMeans
  /\ SentWasPublished
  /\ GivenUpAfterMaxRetry
-----------------------------------------------------------------------------
\* Appending to the topic keeps its records and adds the new one.
LEMMA AppendRecords ==
  ASSUME NEW S, NEW seq \in Seq(S), NEW x \in S
  PROVE  /\ Append(seq, x) \in Seq(S)
         /\ Range(Append(seq, x)) = Range(seq) \cup {x}
<1>1. /\ Append(seq, x) \in Seq(S)
      /\ Len(Append(seq, x)) = Len(seq) + 1
      /\ Append(seq, x)[Len(seq) + 1] = x
      /\ \A k \in 1..Len(seq) : Append(seq, x)[k] = seq[k]
  OBVIOUS
<1>2. DOMAIN Append(seq, x) = 1..(Len(seq) + 1) /\ DOMAIN seq = 1..Len(seq)
  BY <1>1
<1>3. 1..(Len(seq) + 1) = 1..Len(seq) \cup {Len(seq) + 1} /\ Len(seq) \in Nat
  OBVIOUS
<1> QED
  BY <1>1, <1>2, <1>3 DEF Range

\* The outbox starts in a state that satisfies the invariant.
LEMMA LMInitInv == LMInit => LMInv
  BY DEF LMInit, LMInv, LMTypeOK, TxnMatchesOp, GoneByOther, NothingBeforeCommit,
         ChangeHasMessage, Stored, BatchExists, ReplyNeedsBatch, ReplyMeans,
         SentWasPublished, GivenUpAfterMaxRetry, InTransaction, Absent, Row, Statuses,
         Records

\* A durable deletion stays one.
LEMMA DeletionsStay ==
  ASSUME applied \subseteq applied', NEW i, DeletedByOther(i)
  PROVE  DeletedByOther(i)'
  BY DEF DeletedByOther

\* A step that inserts no message and makes no change durable.
LEMMA SameMessages ==
  ASSUME ChangeHasMessage, applied' = applied, Stored' = Stored
  PROVE  ChangeHasMessage'
<1>1. \A i : DeletedByOther(i) => DeletedByOther(i)'
  BY DeletionsStay
<1> QED
  BY <1>1 DEF ChangeHasMessage

\* What a step that touches neither topic, outbox nor senders preserves.
LEMMA QuietStep ==
  ASSUME LMInv,
         UNCHANGED <<topic, applied, outbox, batch, reply, failedSends>>
  PROVE  /\ ChangeHasMessage'
         /\ BatchExists'
         /\ ReplyNeedsBatch'
         /\ ReplyMeans'
         /\ SentWasPublished'
         /\ GivenUpAfterMaxRetry'
<1>1. ChangeHasMessage'
  BY SameMessages DEF LMInv, Stored
<1> QED
  BY <1>1 DEF LMInv, BatchExists, ReplyNeedsBatch, ReplyMeans,
     Current, SentWasPublished, GivenUpAfterMaxRetry, Records

\* What a step that touches neither the requests nor the students preserves.
LEMMA NoChangeStep ==
  ASSUME LMInv, UNCHANGED <<op, txn, table, applied>>
  PROVE  TxnMatchesOp' /\ GoneByOther'
<1>1. \A i : DeletedByOther(i) => DeletedByOther(i)'
  BY DeletionsStay
<1> QED
  BY <1>1 DEF LMInv, TxnMatchesOp, GoneByOther

\* The rows of a batch are snapshots of rows of the table.
LEMMA BatchRows ==
  ASSUME LMTypeOK
  PROVE  \A s \in Sender : \A m \in batch[s] :
           m \in Snapshot /\ m.id \in MsgId /\ m.retry \in Nat
<1>1. \A s \in Sender : batch[s] \in SUBSET Snapshot
  BY DEF LMTypeOK
<1> QED
  BY <1>1 DEF Snapshot

\* A step of one transaction that keeps what it has written in line with
\* where it is, and makes nothing durable, keeps the invariant.
LEMMA TransactionStep ==
  ASSUME LMInv, NEW i \in MsgId,
         NEW o \in {"open", "written", "saved", "ended"},
         NEW t \in SUBSET {"student", "message"},
         op[i] \in InTransaction \cup {"idle"},
         op' = [op EXCEPT ![i] = o],
         txn' = [txn EXCEPT ![i] = t],
         o \in {"open", "ended"} => t = {},
         o = "written" => t \subseteq {"student"},
         o = "saved" => "message" \in t,
         o \in {"written", "saved"} /\ "student" \notin t => DeletedByOther(i),
         o = "open" => i \in Addition \/ table[Target[i]] = "live",
         UNCHANGED <<topic, faults, table, applied, outbox, batch, reply, failedSends>>
  PROVE  LMInv'
<1>1. /\ op \in [MsgId -> InTransaction \cup {"idle", "ended"}]
      /\ txn \in [MsgId -> SUBSET {"student", "message"}]
      /\ TxnMatchesOp
      /\ GoneByOther
      /\ NothingBeforeCommit
  BY DEF LMInv, LMTypeOK
<1>2. /\ op' \in [MsgId -> InTransaction \cup {"idle", "ended"}]
      /\ txn' \in [MsgId -> SUBSET {"student", "message"}]
  BY <1>1 DEF InTransaction
<1>3. LMTypeOK'
  BY <1>2 DEF LMInv, LMTypeOK
<1>4. \A j \in MsgId \ {i} : op'[j] = op[j] /\ txn'[j] = txn[j]
  BY <1>1
<1>5. op'[i] = o /\ txn'[i] = t
  BY <1>1
<1>6. \A j : DeletedByOther(j) => DeletedByOther(j)'
  BY DeletionsStay
<1>7. TxnMatchesOp'
  <2> SUFFICES ASSUME NEW j \in MsgId
               PROVE /\ op'[j] \notin InTransaction \/ op'[j] = "open" => txn'[j] = {}
                     /\ op'[j] = "written" => txn'[j] \subseteq {"student"}
                     /\ op'[j] = "saved" => "message" \in txn'[j]
                     /\ op'[j] \in {"written", "saved"} /\ "student" \notin txn'[j]
                          => DeletedByOther(j)'
    BY DEF TxnMatchesOp
  <2>1. CASE j = i
    BY <2>1, <1>5, <1>6 DEF InTransaction
  <2>2. CASE j # i
    BY <2>2, <1>1, <1>4, <1>6 DEF TxnMatchesOp
  <2> QED
    BY <2>1, <2>2
<1>8. GoneByOther'
  BY <1>1, <1>4, <1>5, <1>6 DEF GoneByOther
<1>9. NothingBeforeCommit'
  BY <1>1, <1>4, <1>5 DEF NothingBeforeCommit
<1> QED
  BY <1>3, <1>7, <1>8, <1>9, QuietStep DEF LMInv

\* A commit makes the change and the message durable, or the message alone if
\* the statement found no row.
LEMMA CommitInv ==
  ASSUME LMInv, NEW i \in MsgId, CommitChange(i)
  PROVE  LMInv'
<1> USE DEF LMInv
<1>1. /\ op[i] = "saved" /\ "message" \in txn[i]
      /\ "student" \notin txn[i] => DeletedByOther(i)
      /\ outbox[i] = Absent /\ i \notin applied
  BY DEF CommitChange, TxnMatchesOp, NothingBeforeCommit, InTransaction
<1>2. \/ /\ applied' = applied \cup {i}
         /\ table' = [table EXCEPT ![Target[i]] = IF i \in Deletion THEN "deleted" ELSE "live"]
         /\ outbox' = [outbox EXCEPT ![i] = NewRow]
      \/ /\ applied' = applied /\ table' = table
         /\ outbox' = [outbox EXCEPT ![i] = NewRow]
         /\ DeletedByOther(i)
      \/ applied' = applied /\ table' = table /\ outbox' = outbox
  BY <1>1 DEF CommitChange, Publish
<1>3. \A j \in MsgId : outbox'[j] = outbox[j] \/ (j = i /\ outbox'[j] = NewRow)
  BY <1>2 DEF LMTypeOK
<1>4. /\ op'[i] = "ended"
      /\ txn'[i] = {}
      /\ \A j \in MsgId \ {i} :
           op'[j] = op[j] /\ txn'[j] = txn[j] /\ (j \in applied' <=> j \in applied)
  BY <1>2 DEF CommitChange, LMTypeOK
<1>5. UNCHANGED <<topic, batch, reply, failedSends, faults>>
  BY DEF CommitChange, senderVars
<1>6. \A j : DeletedByOther(j) => DeletedByOther(j)'
  BY <1>2, DeletionsStay
<1>7. LMTypeOK'
  <2>1. NewRow \in Row
    BY DEF NewRow, Row, Statuses
  <2>2. op' \in [MsgId -> InTransaction \cup {"idle", "ended"}]
    BY DEF CommitChange, LMTypeOK
  <2>3. txn' \in [MsgId -> SUBSET {"student", "message"}]
    BY DEF CommitChange, LMTypeOK
  <2>4. applied' \subseteq MsgId /\ outbox' \in [MsgId -> Row]
    BY <1>2, <2>1 DEF LMTypeOK
  <2>5. table' \in [Student -> {"none", "live", "deleted"}]
    BY <1>2 DEF LMTypeOK
  <2> QED
    BY <1>5, <2>2, <2>3, <2>4, <2>5 DEF LMTypeOK
<1>8. TxnMatchesOp'
  BY <1>4, <1>6 DEF TxnMatchesOp, InTransaction
<1>9. GoneByOther'
  <2> SUFFICES ASSUME NEW j \in MsgId \ Addition, op'[j] = "open",
                      table'[Target[j]] # "live"
               PROVE  DeletedByOther(j)'
    BY DEF GoneByOther
  <2>1. j # i /\ op[j] = "open" /\ Target[j] \in Student
    BY <1>4, ChangeAssumption
  <2>2. CASE table[Target[j]] # "live"
    BY <2>1, <2>2, <1>6 DEF GoneByOther
  <2>3. CASE table[Target[j]] = "live"
    <3>1. Target[j] = Target[i] /\ i \in Deletion /\ i \in applied'
      BY <2>1, <2>3, <1>2 DEF LMTypeOK
    <3> QED
      BY <2>1, <3>1 DEF DeletedByOther
  <2> QED
    BY <2>2, <2>3
<1>10. NothingBeforeCommit'
  BY <1>3, <1>4 DEF NothingBeforeCommit, InTransaction
<1>11. ChangeHasMessage'
  <2>1. Stored \subseteq Stored'
    BY <1>3 DEF Stored, NewRow
  <2>2. \A j \in MsgId \ {i} : j \in Stored' => j \in Stored
    BY <1>3 DEF Stored
  <2>3. Stored' \subseteq MsgId
    BY DEF Stored
  <2>4. CASE outbox' = [outbox EXCEPT ![i] = NewRow]
    <3>1. i \in Stored'
      BY <2>4 DEF Stored, NewRow, LMTypeOK
    <3>2. i \in applied' \/ DeletedByOther(i)
      BY <1>2, <2>4, <3>1, <1>1 DEF Stored, Absent, LMTypeOK
    <3> QED
      BY <1>2, <1>4, <1>6, <2>1, <2>2, <2>3, <3>1, <3>2 DEF ChangeHasMessage
  <2>5. CASE outbox' = outbox /\ applied' = applied
    BY <2>5, <1>6 DEF ChangeHasMessage, Stored
  <2> QED
    BY <1>2, <2>4, <2>5
<1>12. BatchExists'
  BY <1>3, <1>5, BatchRows DEF BatchExists, NewRow
<1>13. ReplyNeedsBatch' /\ ReplyMeans'
  BY <1>5 DEF ReplyNeedsBatch, ReplyMeans, Current, Records
<1>14. SentWasPublished'
  BY <1>3, <1>5 DEF SentWasPublished, Records, NewRow
<1>15. GivenUpAfterMaxRetry'
  BY <1>3, <1>5 DEF GivenUpAfterMaxRetry, NewRow, LMTypeOK
<1> QED
  BY <1>7, <1>8, <1>9, <1>10, <1>11, <1>12, <1>13, <1>14, <1>15

\* The steps of a student change keep the invariant.
LEMMA ChangeInv ==
  ASSUME LMInv, NEW i \in MsgId, Change(i)
  PROVE  LMInv'
<1> USE DEF LMInv
<1>0. /\ op \in [MsgId -> InTransaction \cup {"idle", "ended"}]
      /\ txn \in [MsgId -> SUBSET {"student", "message"}]
  BY DEF LMTypeOK
<1>1. CASE BeginChange(i)
  <2>1. /\ op[i] = "idle"
        /\ UNCHANGED <<topic, faults, txn, table, applied, outbox, batch, reply, failedSends>>
    BY <1>1 DEF BeginChange, senderVars
  <2>2. PICK o \in {"open", "ended"} :
          op' = [op EXCEPT ![i] = o] /\ (o = "open" => Welcome(i))
    BY <1>1 DEF BeginChange
  <2>3. txn[i] = {}
    BY <2>1 DEF TxnMatchesOp, InTransaction
  <2>4. txn' = [txn EXCEPT ![i] = {}]
    BY <2>1, <2>3, <1>0
  <2>5. o = "open" => i \in Addition \/ table[Target[i]] = "live"
    BY <2>2 DEF Welcome
  <2> QED
    BY <2>1, <2>2, <2>4, <2>5, TransactionStep
<1>2. CASE WriteStudent(i)
  <2>1. /\ op[i] = "open" /\ op[i] \in InTransaction
        /\ UNCHANGED <<topic, faults, table, applied, outbox, batch, reply, failedSends>>
    BY <1>2 DEF WriteStudent, senderVars, InTransaction
  <2>2. CASE Rollback(i)
    BY <2>1, <2>2, TransactionStep DEF Rollback
  <2>3. CASE ~Rollback(i)
    <3> DEFINE t == IF AffectsRow(i) THEN {"student"} ELSE {}
    <3>1. /\ op' = [op EXCEPT ![i] = "written"]
          /\ txn' = [txn EXCEPT ![i] = t]
          /\ i \in Addition => AffectsRow(i)
      BY <1>2, <2>3 DEF WriteStudent
    <3>2. "student" \notin t => DeletedByOther(i)
      BY <2>1, <3>1 DEF AffectsRow, GoneByOther
    <3>3. t \subseteq {"student"}
      OBVIOUS
    <3> HIDE DEF t
    <3> QED
      BY <2>1, <3>1, <3>2, <3>3, TransactionStep
  <2> QED
    BY <2>2, <2>3
<1>3. CASE SaveAuditMessage(i)
  <2>1. /\ op[i] = "written" /\ op[i] \in InTransaction
        /\ UNCHANGED <<topic, faults, table, applied, outbox, batch, reply, failedSends>>
    BY <1>3 DEF SaveAuditMessage, senderVars, InTransaction
  <2>2. CASE Rollback(i)
    BY <2>1, <2>2, TransactionStep DEF Rollback
  <2>3. CASE ~Rollback(i)
    <3> DEFINE t == txn[i] \cup {"message"}
    <3>1. /\ op' = [op EXCEPT ![i] = "saved"]
          /\ txn' = [txn EXCEPT ![i] = t]
      BY <1>3, <2>3 DEF SaveAuditMessage
    <3>2. /\ t \in SUBSET {"student", "message"} /\ "message" \in t
          /\ "student" \notin t => DeletedByOther(i)
      BY <2>1, <1>0 DEF TxnMatchesOp
    <3> HIDE DEF t
    <3> QED
      BY <2>1, <3>1, <3>2, TransactionStep
  <2> QED
    BY <2>2, <2>3
<1> QED
  BY <1>1, <1>2, <1>3, CommitInv DEF Change

\* A student that comes back disturbs nothing.
LEMMA ReviveInv ==
  ASSUME LMInv, NEW s \in Student, ReviveStudent(s)
  PROVE  LMInv'
<1>1. /\ UNCHANGED <<topic, faults, op, txn, applied, outbox, batch, reply, failedSends>>
      /\ table' = [table EXCEPT ![s] = "live"]
      /\ table \in [Student -> {"none", "live", "deleted"}]
  BY DEF ReviveStudent, senderVars, LMInv, LMTypeOK
<1>2. LMTypeOK' /\ NothingBeforeCommit'
  BY <1>1 DEF LMInv, LMTypeOK, NothingBeforeCommit
<1>3. \A i : DeletedByOther(i) => DeletedByOther(i)'
  BY <1>1, DeletionsStay
<1>4. TxnMatchesOp'
  BY <1>1, <1>3 DEF LMInv, TxnMatchesOp
<1>5. GoneByOther'
  BY <1>1, <1>3, ChangeAssumption DEF LMInv, GoneByOther
<1> QED
  BY <1>1, <1>2, <1>4, <1>5, QuietStep DEF LMInv

\* A scan keeps the invariant: the rows it reads are pending, hence there.
LEMMA ScanInv ==
  ASSUME LMInv, NEW s \in Sender, Scan(s)
  PROVE  LMInv'
<1> USE DEF LMInv
<1>1. PendingMessages \subseteq {i \in MsgId : outbox[i].status = "pending"}
  BY DEF PendingMessages, Due
<1>2. \A t \in Sender : \A m \in batch'[t] :
        \/ m \in batch[t]
        \/ \E i \in PendingMessages : m = [id |-> i, retry |-> outbox[i].retry]
  BY DEF Scan, LMTypeOK
<1>3. UNCHANGED <<topic, faults, op, txn, table, applied, outbox, reply, failedSends>>
  BY DEF Scan
<1>4. LMTypeOK'
  <2>1. {[id |-> i, retry |-> outbox[i].retry] : i \in PendingMessages}
          \subseteq Snapshot
    BY <1>1 DEF LMTypeOK, Row, Snapshot
  <2> QED
    BY <2>1 DEF Scan, LMTypeOK
<1>5. BatchExists'
  BY <1>1, <1>2, <1>3 DEF BatchExists, GivenUpAfterMaxRetry
<1>6. ReplyNeedsBatch'
  BY DEF Scan, ReplyNeedsBatch, LMTypeOK
<1>7. ReplyMeans'
  <2> SUFFICES ASSUME NEW u \in Sender, NEW m \in batch'[u], Current(u, m)'
               PROVE  /\ reply'[u] = "ok" => m.id \in Records'
                      /\ reply'[u] = "error" => m.retry + 1 <= failedSends'[m.id]
    BY DEF ReplyMeans
  <2>1. CASE u = s
    BY <2>1, <1>3 DEF Scan, ReplyNeedsBatch
  <2>2. CASE u # s
    BY <2>2, <1>3 DEF Scan, ReplyMeans, Current, Records, LMTypeOK
  <2> QED
    BY <2>1, <2>2
<1>8. TxnMatchesOp' /\ GoneByOther' /\ ChangeHasMessage'
  BY <1>3, NoChangeStep, SameMessages DEF Stored
<1> QED
  BY <1>3, <1>4, <1>5, <1>6, <1>7, <1>8 DEF NothingBeforeCommit,
     SentWasPublished, GivenUpAfterMaxRetry, Records

\* Powers of two are naturals: 2^n is the number of subsets of 1..n.
LEMMA PowerOfTwo == ASSUME NEW n \in Nat PROVE 2^n \in Nat
<1>1. IsFiniteSet(1..n) /\ Cardinality(1..n) = n
  BY FS_Interval
<1>2. Cardinality(SUBSET (1..n)) = 2^n /\ IsFiniteSet(SUBSET (1..n))
  BY <1>1, FS_SUBSET
<1> QED
  BY <1>2, FS_CardinalityType

\* SendMessage keeps the invariant: the record is appended before the reply
\* says "ok", and a failure is counted before it says "error".
LEMMA SendInv ==
  ASSUME LMInv, NEW s \in Sender, NEW m \in batch[s], Send(s, m)
  PROVE  LMInv'
<1> USE DEF LMInv
<1>1. m.id \in MsgId
  BY BatchRows
<1>2. UNCHANGED <<faults, op, txn, table, applied, outbox, batch>> /\ Current(s, m)
  BY DEF Send
<1>3. /\ topic \in Seq(MsgId \cup {Malformed})
      /\ failedSends \in [MsgId -> Nat]
      /\ reply \in [Sender -> {"none", "ok", "error"}]
  BY DEF LMTypeOK
<1>4. /\ Append(topic, m.id) \in Seq(MsgId \cup {Malformed})
      /\ Range(Append(topic, m.id)) = Records \cup {m.id}
  <2> DEFINE S == MsgId \cup {Malformed}
  <2>1. topic \in Seq(S) /\ m.id \in S
    BY <1>1, <1>3
  <2> HIDE DEF S
  <2>2. /\ Append(topic, m.id) \in Seq(S)
        /\ Range(Append(topic, m.id)) = Range(topic) \cup {m.id}
    BY <2>1, AppendRecords
  <2> QED
    BY <2>2 DEF S, Records
<1>5. /\ topic' \in {topic, Append(topic, m.id)}
      /\ failedSends' \in {failedSends, [failedSends EXCEPT ![m.id] = @ + 1]}
      /\ \/ /\ reply' = [reply EXCEPT ![s] = "ok"]
            /\ topic' = Append(topic, m.id)
         \/ /\ reply' = [reply EXCEPT ![s] = "error"]
            /\ failedSends' = [failedSends EXCEPT ![m.id] = @ + 1]
  BY DEF Send
<1>6. Records \subseteq Records' /\ (topic' = Append(topic, m.id) => m.id \in Records')
  BY <1>4, <1>5 DEF Records
<1>7. /\ failedSends' \in [MsgId -> Nat]
      /\ \A i \in MsgId : failedSends[i] <= failedSends'[i]
  <2>1. CASE failedSends' = failedSends
    BY <2>1, <1>3
  <2>2. CASE failedSends' = [failedSends EXCEPT ![m.id] = @ + 1]
    BY <2>2, <1>1, <1>3
  <2> QED
    BY <1>5, <2>1, <2>2
<1>8. /\ reply' \in [Sender -> {"none", "ok", "error"}]
      /\ \A u \in Sender \ {s} : reply'[u] = reply[u]
  BY <1>3, <1>5
<1>9. LMTypeOK'
  BY <1>2, <1>4, <1>5, <1>7, <1>8 DEF LMTypeOK
<1>10. BatchExists'
  BY <1>2, <1>3, <1>7, BatchRows DEF BatchExists
<1>11. ReplyNeedsBatch'
  BY <1>2, <1>8 DEF ReplyNeedsBatch
<1>12. ReplyMeans'
  <2> SUFFICES ASSUME NEW u \in Sender, NEW n \in batch[u], Current(u, n)
               PROVE  /\ reply'[u] = "ok" => n.id \in Records'
                      /\ reply'[u] = "error" => n.retry + 1 <= failedSends'[n.id]
    BY <1>2 DEF ReplyMeans, Current
  <2>1. n.id \in MsgId /\ n.retry \in Nat
    BY BatchRows
  <2>2. CASE u = s
    <3>1. n.id = m.id
      <4>1. n.id <= m.id /\ m.id <= n.id
        BY <2>2, <1>2 DEF Current
      <4>2. n.id \in Nat /\ m.id \in Nat
        BY <2>1, <1>1, MsgIdAssumption
      <4> QED
        BY <4>1, <4>2
    <3>2. n.retry <= failedSends[n.id]
      BY DEF BatchExists
    <3>3. reply'[s] = "ok" => n.id \in Records'
      BY <3>1, <1>3, <1>5, <1>6
    <3>4. reply'[s] = "error" => n.retry + 1 <= failedSends'[n.id]
      BY <3>1, <3>2, <2>1, <1>3, <1>5
    <3> QED
      BY <2>2, <3>3, <3>4
  <2>3. CASE u # s
    BY <2>1, <2>3, <1>3, <1>6, <1>7, <1>8 DEF ReplyMeans
  <2> QED
    BY <2>2, <2>3
<1>13. SentWasPublished'
  BY <1>2, <1>6 DEF SentWasPublished
<1>14. GivenUpAfterMaxRetry'
  <2>1. \A i \in MsgId : outbox[i].retry \in Nat /\ MaxRetry \in Nat
    BY MaxRetryAssumption DEF LMTypeOK, Row
  <2> QED
    BY <2>1, <1>2, <1>3, <1>7 DEF GivenUpAfterMaxRetry
<1>15. TxnMatchesOp' /\ GoneByOther' /\ ChangeHasMessage'
  BY <1>2, NoChangeStep, SameMessages DEF Stored
<1> QED
  BY <1>2, <1>9, <1>10, <1>11, <1>12, <1>13, <1>14, <1>15 DEF NothingBeforeCommit

\* Recording the outcome of a send keeps the invariant, if what is recorded
\* is true: "sent" only of a published record, "failed" and the retry count
\* only of what really failed.
LEMMA OutcomeStep ==
  ASSUME LMInv, NEW s \in Sender, NEW m \in batch[s], NEW row \in Row,
         row.status # "absent",
         row.status = "sent" => m.id \in Records,
         row.status = "failed" => failedSends[m.id] >= MaxRetry,
         row.retry <= failedSends[m.id],
         UpdateRow(m.id, row),
         NextRow(s, m),
         UNCHANGED <<topic, op, txn, table, applied, failedSends>>
  PROVE  LMInv'
<1> USE DEF LMInv
<1>1. m.id \in MsgId
  BY BatchRows
<1>2. outbox[m.id].status # "absent" /\ op[m.id] \notin InTransaction \cup {"idle"}
  BY <1>1 DEF BatchExists, NothingBeforeCommit, Absent
<1>3. /\ outbox \in [MsgId -> Row]
      /\ batch \in [Sender -> SUBSET Snapshot]
      /\ reply \in [Sender -> {"none", "ok", "error"}]
  BY DEF LMTypeOK
<1>4. outbox' \in {outbox, [outbox EXCEPT ![m.id] = row]} /\ faults' \in Nat
  BY MaxFaultsAssumption DEF UpdateRow, Fault, LMTypeOK
<1>5. /\ outbox' \in [MsgId -> Row]
      /\ outbox'[m.id] \in {outbox[m.id], row}
      /\ \A i \in MsgId \ {m.id} : outbox'[i] = outbox[i]
  BY <1>1, <1>3, <1>4
<1>6. /\ batch' \in [Sender -> SUBSET Snapshot]
      /\ reply' \in [Sender -> {"none", "ok", "error"}]
      /\ reply'[s] = "none"
      /\ batch'[s] \subseteq batch[s]
      /\ \A u \in Sender \ {s} : batch'[u] = batch[u] /\ reply'[u] = reply[u]
  BY <1>3 DEF NextRow
<1>7. LMTypeOK'
  BY <1>4, <1>5, <1>6 DEF LMTypeOK
<1>8. TxnMatchesOp' /\ GoneByOther'
  BY NoChangeStep
<1>9. NothingBeforeCommit'
  BY <1>2, <1>5 DEF NothingBeforeCommit
<1>10. ChangeHasMessage'
  <2>1. Stored' = Stored
    BY <1>2, <1>5 DEF Stored
  <2> QED
    BY <2>1, SameMessages
<1>11. BatchExists'
  <2> SUFFICES ASSUME NEW u \in Sender, NEW n \in batch'[u]
               PROVE  outbox'[n.id].status # "absent" /\ n.retry <= failedSends'[n.id]
    BY DEF BatchExists
  <2>1. n \in batch[u]
    BY <1>6
  <2>2. n.id \in MsgId /\ outbox[n.id].status # "absent" /\ n.retry <= failedSends[n.id]
    BY <2>1, BatchRows DEF BatchExists
  <2> QED
    BY <2>2, <1>5
<1>12. ReplyNeedsBatch'
  BY <1>6 DEF ReplyNeedsBatch
<1>13. ReplyMeans'
  BY <1>6 DEF ReplyMeans, Current, Records
<1>14. SentWasPublished'
  BY <1>5 DEF SentWasPublished, Records
<1>15. GivenUpAfterMaxRetry'
  BY <1>5 DEF GivenUpAfterMaxRetry
<1> QED
  BY <1>7, <1>8, <1>9, <1>10, <1>11, <1>12, <1>13, <1>14, <1>15

\* MarkMessageSent keeps the invariant.
LEMMA MarkInv ==
  ASSUME LMInv, NEW s \in Sender, NEW m \in batch[s], MarkMessageSent(s, m)
  PROVE  LMInv'
<1>1. m.id \in MsgId
  BY BatchRows DEF LMInv
<1>2. outbox[m.id] \in Row /\ m.id \in Records /\ outbox[m.id].retry <= failedSends[m.id]
  BY <1>1 DEF LMInv, MarkMessageSent, ReplyMeans, GivenUpAfterMaxRetry, LMTypeOK
<1> DEFINE row == [outbox[m.id] EXCEPT !.status = "sent"]
<1>3. row \in Row /\ row.status = "sent" /\ row.retry = outbox[m.id].retry
  BY <1>2 DEF Row, Statuses
<1>4. /\ UpdateRow(m.id, row)
      /\ NextRow(s, m)
      /\ UNCHANGED <<topic, op, txn, table, applied, failedSends>>
  BY DEF MarkMessageSent
<1> HIDE DEF row
<1> QED
  BY <1>2, <1>3, <1>4, OutcomeStep

\* What handleSendFailure stores is a row, and is earned by failed sends.
LEMMA AfterFailureRow ==
  ASSUME NEW row \in Row, NEW retry \in Nat, NEW n \in Nat,
         retry + 1 <= n, row.retry <= n
  PROVE  /\ AfterFailure(row, retry) \in Row
         /\ AfterFailure(row, retry).status \in {"pending", "failed"}
         /\ AfterFailure(row, retry).status = "failed" => n >= MaxRetry
         /\ AfterFailure(row, retry).retry <= n
<1>1. CASE retry + 1 >= MaxRetry
  BY <1>1, MaxRetryAssumption DEF AfterFailure, Row, Statuses
<1>2. CASE ~(retry + 1 >= MaxRetry)
  <2>1. (retry + 1) - 1 \in Nat
    OBVIOUS
  <2>2. Backoff(retry + 1) \in Nat
    BY <2>1, PowerOfTwo DEF Backoff
  <2> HIDE DEF Backoff
  <2> QED
    BY <1>2, <2>2 DEF AfterFailure, Row, Statuses
<1> QED
  BY <1>1, <1>2

\* handleSendFailure keeps the invariant.
LEMMA FailureInv ==
  ASSUME LMInv, NEW s \in Sender, NEW m \in batch[s], HandleSendFailure(s, m)
  PROVE  LMInv'
<1>1. m.id \in MsgId /\ m.retry \in Nat
  BY BatchRows DEF LMInv
<1>2. /\ outbox[m.id] \in Row
      /\ failedSends[m.id] \in Nat
      /\ m.retry + 1 <= failedSends[m.id]
      /\ outbox[m.id].retry <= failedSends[m.id]
  BY <1>1 DEF LMInv, HandleSendFailure, ReplyMeans, GivenUpAfterMaxRetry, LMTypeOK
<1> DEFINE row == AfterFailure(outbox[m.id], m.retry)
<1>3. /\ row \in Row
      /\ row.status \in {"pending", "failed"}
      /\ row.status = "failed" => failedSends[m.id] >= MaxRetry
      /\ row.retry <= failedSends[m.id]
  BY <1>1, <1>2, AfterFailureRow
<1>4. /\ UpdateRow(m.id, row)
      /\ NextRow(s, m)
      /\ UNCHANGED <<topic, op, txn, table, applied, failedSends>>
  BY DEF HandleSendFailure
<1> HIDE DEF row
<1> QED
  BY <1>3, <1>4, OutcomeStep

\* Time passing keeps the invariant: it changes nothing but the waits.
LEMMA ElapseInv ==
  ASSUME LMInv, Elapse
  PROVE  LMInv'
<1> USE DEF LMInv
<1>1. UNCHANGED <<topic, faults, op, txn, table, applied, batch, reply, failedSends>>
  BY DEF Elapse, senderVars
<1>2. outbox \in [MsgId -> Row]
  BY DEF LMTypeOK
<1>3. /\ outbox' \in [MsgId -> Row]
      /\ \A i \in MsgId : /\ outbox'[i].status = outbox[i].status
                          /\ outbox'[i].retry = outbox[i].retry
                          /\ outbox[i].wait = 0 => outbox'[i] = outbox[i]
  BY <1>2 DEF Elapse, Row
<1>4. LMTypeOK'
  BY <1>1, <1>3 DEF LMTypeOK
<1>5. NothingBeforeCommit'
  BY <1>1, <1>3 DEF NothingBeforeCommit, Absent
<1>6. BatchExists'
  BY <1>1, <1>3, BatchRows DEF BatchExists
<1>7. TxnMatchesOp' /\ GoneByOther' /\ ChangeHasMessage'
  BY <1>1, <1>3, NoChangeStep, SameMessages DEF Stored
<1> QED
  BY <1>1, <1>3, <1>4, <1>5, <1>6, <1>7 DEF
     ReplyNeedsBatch, ReplyMeans, Current, SentWasPublished,
     GivenUpAfterMaxRetry, Records

\* A crash keeps the invariant: open transactions are rolled back.
LEMMA StopInv ==
  ASSUME LMInv, Stop, faults' \in Nat
  PROVE  LMInv'
<1> USE DEF LMInv
<1>1. LMTypeOK'
  BY DEF Stop, LMTypeOK, InTransaction
<1>2. TxnMatchesOp' /\ GoneByOther' /\ NothingBeforeCommit'
  BY DEF Stop, TxnMatchesOp, GoneByOther, NothingBeforeCommit, InTransaction
<1>3. BatchExists' /\ ReplyNeedsBatch' /\ ReplyMeans'
  BY DEF Stop, BatchExists, ReplyNeedsBatch, ReplyMeans
<1>4. ChangeHasMessage'
  BY SameMessages DEF Stop, Stored
<1> QED
  BY <1>1, <1>2, <1>3, <1>4 DEF Stop, SentWasPublished,
     GivenUpAfterMaxRetry, Records

\* Every step but a crash keeps the invariant.
LEMMA LMStepInv ==
  ASSUME LMInv, LMStep
  PROVE  LMInv'
  BY ChangeInv, ReviveInv, ScanInv, SendInv, MarkInv, FailureInv, ElapseInv
     DEF LMStep, Process

\* LMInv is an invariant of the outbox.
LEMMA LMInvariant == LMSpec => []LMInv
<1>1. LMInv /\ [LMNext]_lmVars => LMInv'
  <2> SUFFICES ASSUME LMInv, [LMNext]_lmVars PROVE LMInv'
    OBVIOUS
  <2>1. CASE LMStep
    BY <2>1, LMStepInv
  <2>2. CASE Crash
    <3>1. Stop /\ faults' \in Nat
      BY <2>2, MaxFaultsAssumption DEF Crash, Fault, LMInv, LMTypeOK
    <3> QED
      BY <3>1, StopInv
  <2>3. CASE UNCHANGED lmVars
    <3>1. UNCHANGED <<topic, faults, op, txn, table, applied, outbox, batch, reply,
                      failedSends>>
      BY <2>3 DEF lmVars, outboxVars, senderVars
    <3>2. LMTypeOK' /\ NothingBeforeCommit'
      BY <3>1 DEF LMInv, LMTypeOK, NothingBeforeCommit
    <3> QED
      BY <3>1, <3>2, NoChangeStep, QuietStep DEF LMInv
  <2> QED
    BY <2>1, <2>2, <2>3 DEF LMNext
<1> QED
  BY <1>1, LMInitInv, PTL DEF LMSpec

\* The state of the outbox is well formed.
THEOREM OutboxTypes == LMSpec => []LMTypeOK
  BY LMInvariant, PTL DEF LMInv

\* A durable student change has its audit message in the table, and a message
\* in the table has its change, unless the deletion of the student by another
\* request came between the look and the statement.
THEOREM ChangeAndMessageAtomic == LMSpec => []ChangeHasMessage
  BY LMInvariant, PTL DEF LMInv

\* However many instances send, a row marked sent is in the topic.
THEOREM SentImpliesPublished == LMSpec => []SentWasPublished
  BY LMInvariant, PTL DEF LMInv

\* A message is given up only after MaxRetry sends have failed.
THEOREM RetriesBeforeGivingUp == LMSpec => []GivenUpAfterMaxRetry
  BY LMInvariant, PTL DEF LMInv
-----------------------------------------------------------------------------
(* With one sender no row that is settled is touched again                 *)

\* The rows of a batch are still as they were read, once each, and a settled
\* row waits for nothing.
OneSenderInv ==
  /\ \A s \in Sender : \A m \in batch[s] :
       outbox[m.id].status = "pending" /\ outbox[m.id].wait = 0
  /\ \A s \in Sender : \A m, n \in batch[s] : m.id = n.id => m = n
  /\ \A i \in MsgId : outbox[i].status \in {"sent", "failed"} => outbox[i].wait = 0

\* No settled row changes in this step.
SettledKept ==
  \A i \in MsgId : outbox[i].status \in {"sent", "failed"} => outbox'[i] = outbox[i]

\* The steps of a student change touch only the row of that change, which is
\* not in any batch.
LEMMA OneSenderChange ==
  ASSUME LMInv, OneSenderInv, NEW i \in MsgId, Change(i)
  PROVE  OneSenderInv' /\ SettledKept
<1>1. batch' = batch
  BY DEF Change, BeginChange, WriteStudent, SaveAuditMessage, CommitChange,
     senderVars
<1>2. \A j \in MsgId : \/ outbox'[j] = outbox[j]
                       \/ outbox[j] = Absent /\ outbox'[j] = NewRow
  <2>1. CASE CommitChange(i)
    <3>1. outbox[i] = Absent
      BY <2>1 DEF CommitChange, LMInv, NothingBeforeCommit, InTransaction
    <3>2. outbox' \in {outbox, [outbox EXCEPT ![i] = NewRow]}
      BY <2>1 DEF CommitChange, Publish
    <3>3. outbox \in [MsgId -> Row]
      BY DEF LMInv, LMTypeOK
    <3> QED
      BY <3>1, <3>2, <3>3
  <2>2. CASE ~CommitChange(i)
    BY <2>2 DEF Change, BeginChange, WriteStudent, SaveAuditMessage
  <2> QED
    BY <2>1, <2>2
<1>3. \A s \in Sender : \A m \in batch[s] : m.id \in MsgId
  BY BatchRows DEF LMInv
<1> QED
  BY <1>1, <1>2, <1>3 DEF OneSenderInv, SettledKept, Absent, NewRow

\* A scan reads due rows, each once.
LEMMA OneSenderScan ==
  ASSUME LMInv, OneSenderInv, NEW s \in Sender, Scan(s)
  PROVE  OneSenderInv' /\ SettledKept
<1>1. outbox' = outbox
  BY DEF Scan
<1>2. \A i \in PendingMessages :
        i \in MsgId /\ outbox[i].status = "pending" /\ outbox[i].wait = 0
  BY DEF PendingMessages, Due
<1>3. batch \in [Sender -> SUBSET Snapshot]
  BY DEF LMInv, LMTypeOK
<1>4. /\ batch'[s] = {[id |-> i, retry |-> outbox[i].retry] : i \in PendingMessages}
      /\ \A u \in Sender \ {s} : batch'[u] = batch[u]
  BY <1>3 DEF Scan
<1>5. \A m \in batch'[s] : m.id \in PendingMessages
                            /\ m = [id |-> m.id, retry |-> outbox[m.id].retry]
  BY <1>4
<1> QED
  BY <1>1, <1>2, <1>4, <1>5 DEF OneSenderInv, SettledKept

\* The only sender records the outcome of a row once, then drops the row.
LEMMA OneSenderOutcome ==
  ASSUME LMInv, OneSenderInv, NEW s \in Sender, Sender = {s},
         NEW m \in batch[s], NEW row,
         row.status \in {"sent", "failed"} => row.wait = 0,
         UpdateRow(m.id, row), NextRow(s, m)
  PROVE  OneSenderInv' /\ SettledKept
<1>1. /\ outbox \in [MsgId -> Row]
      /\ batch \in [Sender -> SUBSET Snapshot]
      /\ m.id \in MsgId
  BY BatchRows DEF LMInv, LMTypeOK
<1>2. outbox' \in {outbox, [outbox EXCEPT ![m.id] = row]}
  BY DEF UpdateRow
<1>3. /\ outbox'[m.id] \in {outbox[m.id], row}
      /\ \A i \in MsgId \ {m.id} : outbox'[i] = outbox[i]
  BY <1>1, <1>2
<1>4. batch'[s] = batch[s] \ {m}
  BY <1>1 DEF NextRow
<1>5. outbox[m.id].status = "pending"
  BY DEF OneSenderInv
<1>6. \A n \in batch'[s] : n \in batch[s] /\ n.id \in MsgId \ {m.id}
  BY <1>4, BatchRows DEF OneSenderInv, LMInv
<1>7. SettledKept
  BY <1>3, <1>5 DEF SettledKept
<1>8. \A i \in MsgId : outbox'[i].status \in {"sent", "failed"} => outbox'[i].wait = 0
  BY <1>3, <1>5 DEF OneSenderInv
<1> QED
  BY <1>3, <1>6, <1>7, <1>8 DEF OneSenderInv

\* Every step of a deployment with one sender.
LEMMA OneSenderStep ==
  ASSUME NEW s \in Sender, Sender = {s}, LMInv, OneSenderInv, [LMNext]_lmVars
  PROVE  OneSenderInv' /\ SettledKept
<1>0. CASE \E t \in Student : ReviveStudent(t)
  BY <1>0 DEF ReviveStudent, senderVars, OneSenderInv, SettledKept
<1>1. CASE \E i \in MsgId : Change(i)
  BY <1>1, OneSenderChange
<1>2. CASE Scan(s)
  BY <1>2, OneSenderScan
<1>3. ASSUME NEW m \in batch[s], Send(s, m)
      PROVE  OneSenderInv' /\ SettledKept
  BY <1>3 DEF Send, OneSenderInv, SettledKept
<1>4. ASSUME NEW m \in batch[s], MarkMessageSent(s, m)
      PROVE  OneSenderInv' /\ SettledKept
  <2> DEFINE row == [outbox[m.id] EXCEPT !.status = "sent"]
  <2>1. outbox[m.id] \in Row /\ outbox[m.id].wait = 0
    BY BatchRows DEF LMInv, LMTypeOK, OneSenderInv
  <2>2. row.wait = 0
    BY <2>1 DEF Row
  <2>3. UpdateRow(m.id, row) /\ NextRow(s, m)
    BY <1>4 DEF MarkMessageSent
  <2> HIDE DEF row
  <2> QED
    BY <2>2, <2>3, OneSenderOutcome
<1>5. ASSUME NEW m \in batch[s], HandleSendFailure(s, m)
      PROVE  OneSenderInv' /\ SettledKept
  <2> DEFINE row == AfterFailure(outbox[m.id], m.retry)
  <2>1. outbox[m.id] \in Row /\ outbox[m.id].wait = 0
    BY BatchRows DEF LMInv, LMTypeOK, OneSenderInv
  <2>2. row.status \in {"sent", "failed"} => row.wait = 0
    BY <2>1 DEF AfterFailure, Row
  <2>3. UpdateRow(m.id, row) /\ NextRow(s, m)
    BY <1>5 DEF HandleSendFailure
  <2> HIDE DEF row
  <2> QED
    BY <2>2, <2>3, OneSenderOutcome
<1>6. CASE Elapse
  <2>1. outbox \in [MsgId -> Row] /\ batch' = batch
    BY <1>6 DEF Elapse, LMInv, LMTypeOK, senderVars
  <2>2. \A i \in MsgId : /\ outbox'[i].status = outbox[i].status
                         /\ outbox[i].wait = 0 => outbox'[i] = outbox[i]
    BY <1>6, <2>1 DEF Elapse, Row
  <2>3. \A m \in batch[s] : m.id \in MsgId
    BY BatchRows DEF LMInv
  <2> QED
    BY <2>1, <2>2, <2>3 DEF OneSenderInv, SettledKept
<1>7. CASE Crash
  BY <1>7 DEF Crash, Stop, OneSenderInv, SettledKept
<1>8. CASE UNCHANGED lmVars
  BY <1>8 DEF lmVars, outboxVars, senderVars, OneSenderInv, SettledKept
<1> QED
  BY <1>0, <1>1, <1>2, <1>3, <1>4, <1>5, <1>6, <1>7, <1>8 DEF LMNext, LMStep, Process

\* With a single running instance a row that is sent or failed is never
\* touched again, although UpdateMessageStatus does not look at the row.
THEOREM OneSenderNeverReopens ==
  ASSUME NEW s, Sender = {s}
  PROVE  LMSpec => NeverReopened
<1>1. LMInit => OneSenderInv
  BY DEF LMInit, OneSenderInv, Absent
<1>2. LMInv /\ OneSenderInv /\ [LMNext]_lmVars => OneSenderInv' /\ SettledKept
  BY OneSenderStep
<1>3. SettledKept => [\A i \in MsgId : outbox[i].status \in {"sent", "failed"}
                                          => outbox'[i] = outbox[i]]_lmVars
  BY DEF SettledKept
<1> QED
  BY <1>1, <1>2, <1>3, LMInvariant, PTL DEF LMSpec, NeverReopened
-----------------------------------------------------------------------------
(* The trail                                                               *)

\* Every record that parses stems from a committed message, and so does every
\* audit row.
RecordsOfMessages == Records \subseteq Stored \cup {Malformed}
RowsOfMessages == \A i \in MsgId : auditLog[i] > 0 => i \in Stored

Offsets == committed <= marked /\ marked <= position /\ position <= Len(topic)

\* Between Receive and Finish the handler is at a record that parsed.
AtRecord == stage # "idle" => Delivered /\ Record \in MsgId

\* An audit row exists, or handling it was cut short.
Handled(i) == auditLog[i] > 0 \/ i \in interrupted

\* A key in Redis belongs to a handled trace id or to the one being handled.
KeyHandled ==
  \A i \in consumedKey : Handled(i) \/ (stage = "claimed" /\ Record = i)

\* What the handler has gone through is handled.
ReadHandled == \A k \in 1..position : topic[k] \in MsgId => Handled(topic[k])
NowHandled == stage \in {"duplicate", "handled"} => Handled(Record)

ATInv ==
  /\ LMInv
  /\ ACTypeOK
  /\ RecordsOfMessages
  /\ Offsets
  /\ AtRecord
  /\ RowsOfMessages
  /\ AuditAtMostOnce
  /\ KeyHandled
  /\ ReadHandled
  /\ NowHandled
-----------------------------------------------------------------------------
(* Steps of the outbox                                                     *)

\* No step of the outbox takes a committed message away.
LEMMA MessagesStay ==
  ASSUME LMInv, LMStep
  PROVE  Stored \subseteq Stored'
<1>1. outbox \in [MsgId -> Row]
  BY DEF LMInv, LMTypeOK
<1>2. ASSUME NEW i \in MsgId, Change(i)
      PROVE  outbox' \in {outbox, [outbox EXCEPT ![i] = NewRow]}
  BY <1>2 DEF Change, BeginChange, WriteStudent, SaveAuditMessage, CommitChange,
     Publish
<1>3. ASSUME NEW s \in Sender, NEW m \in batch[s], Process(s, m)
      PROVE  \/ outbox' = outbox
             \/ \E row : row.status # "absent" /\ outbox' = [outbox EXCEPT ![m.id] = row]
  <2>1. m.id \in MsgId /\ outbox[m.id] \in Row /\ outbox[m.id].status # "absent"
    BY <1>1, BatchRows DEF LMInv, BatchExists
  <2>2. [outbox[m.id] EXCEPT !.status = "sent"].status = "sent"
    BY <2>1 DEF Row
  <2>3. AfterFailure(outbox[m.id], m.retry).status \in {"pending", "failed"}
    BY <2>1 DEF AfterFailure, Row
  <2> QED
    BY <1>3, <2>2, <2>3 DEF Process, Send, MarkMessageSent, HandleSendFailure, UpdateRow
<1>4. Elapse => \A i \in MsgId : outbox'[i].status = outbox[i].status
  BY <1>1 DEF Elapse, Row
<1>5. (\E s \in Student : ReviveStudent(s)) \/ (\E s \in Sender : Scan(s))
        => outbox' = outbox
  BY DEF ReviveStudent, Scan
<1>6. CASE \E i \in MsgId : Change(i)
  BY <1>1, <1>2, <1>6 DEF Stored, NewRow
<1>7. CASE \E s \in Sender : \E m \in batch[s] : Process(s, m)
  BY <1>1, <1>3, <1>7 DEF Stored
<1>8. CASE Elapse
  BY <1>4, <1>8 DEF Stored
<1> QED
  BY <1>5, <1>6, <1>7, <1>8 DEF LMStep, Stored

\* The topic only grows, and by records of committed messages.
LEMMA OutboxExtendsTopic ==
  ASSUME ATInv, LMStep
  PROVE  \/ topic' = topic
         \/ \E i \in Stored : topic' = Append(topic, i)
<1>1. ASSUME NEW i \in MsgId, Change(i)
      PROVE  topic' = topic
  BY <1>1 DEF Change, BeginChange, WriteStudent, SaveAuditMessage, CommitChange
<1>2. ASSUME NEW s \in Sender, NEW m \in batch[s], Send(s, m)
      PROVE  topic' = topic \/ \E i \in Stored : topic' = Append(topic, i)
  <2>1. m.id \in Stored
    BY <1>2, BatchRows DEF ATInv, LMInv, BatchExists, Stored
  <2> QED
    BY <1>2, <2>1 DEF Send
<1>3. ASSUME NEW s \in Sender,
             Scan(s) \/ \E m \in batch[s] : MarkMessageSent(s, m) \/ HandleSendFailure(s, m)
      PROVE  topic' = topic
  BY <1>3 DEF Scan, MarkMessageSent, HandleSendFailure
<1>4. Elapse \/ (\E s \in Student : ReviveStudent(s)) => topic' = topic
  BY DEF Elapse, ReviveStudent
<1> QED
  BY <1>1, <1>2, <1>3, <1>4 DEF LMStep, Process

\* A record appended to the topic disturbs nothing the consumer relies on.
LEMMA TopicGrows ==
  ASSUME ATInv, NEW x \in Stored' \cup {Malformed},
         topic' \in {topic, Append(topic, x)},
         Stored \subseteq Stored', LMInv', UNCHANGED consumerVars
  PROVE  ATInv'
<1>1. /\ topic \in Seq(MsgId \cup {Malformed})
      /\ x \in MsgId \cup {Malformed}
      /\ position \in Nat
  BY DEF ATInv, LMInv, LMTypeOK, ACTypeOK, Stored
<1>2. /\ Range(topic') \subseteq Range(topic) \cup {x}
      /\ Len(topic) <= Len(topic')
      /\ \A k \in 1..Len(topic) : topic'[k] = topic[k]
  <2> DEFINE S == MsgId \cup {Malformed}
  <2>1. topic \in Seq(S) /\ x \in S
    BY <1>1
  <2> HIDE DEF S
  <2>2. /\ Range(Append(topic, x)) = Range(topic) \cup {x}
        /\ Len(Append(topic, x)) = Len(topic) + 1
        /\ \A k \in 1..Len(topic) : Append(topic, x)[k] = topic[k]
    BY <2>1, AppendRecords
  <2>3. Len(topic) \in Nat
    BY <2>1
  <2>4. CASE topic' = topic
    BY <2>3, <2>4
  <2>5. CASE topic' = Append(topic, x)
    <3>1. Len(topic) <= Len(topic')
      BY <2>2, <2>3, <2>5
    <3>2. Range(topic') \subseteq Range(topic) \cup {x}
      BY <2>2, <2>5
    <3>3. \A k \in 1..Len(topic) : topic'[k] = topic[k]
      BY <2>2, <2>5
    <3> QED
      BY <3>1, <3>2, <3>3
  <2> QED
    BY <2>4, <2>5
<1>3. UNCHANGED <<committed, marked, position, stage, consumedKey, auditLog, interrupted>>
  BY DEF consumerVars
<1>4. Len(topic) \in Nat /\ Len(topic') \in Nat
  BY <1>1 DEF LMInv, LMTypeOK
<1>5. ACTypeOK'
  BY <1>3 DEF ATInv, ACTypeOK
<1>6. RecordsOfMessages'
  BY <1>2 DEF ATInv, RecordsOfMessages, Records
<1>7. Offsets'
  BY <1>1, <1>2, <1>3, <1>4 DEF ATInv, Offsets, ACTypeOK
<1>8. stage # "idle" => position + 1 \in 1..Len(topic) /\ Record' = Record
  BY <1>1, <1>2, <1>3, <1>4 DEF ATInv, AtRecord, Delivered, Record
<1>9. AtRecord'
  BY <1>1, <1>2, <1>3, <1>4, <1>8 DEF ATInv, AtRecord, Delivered
<1>10. KeyHandled' /\ NowHandled'
  BY <1>3, <1>8 DEF ATInv, KeyHandled, NowHandled, Handled
<1>11. ReadHandled'
  <2>1. \A k \in 1..position : topic'[k] = topic[k]
    BY <1>1, <1>2, <1>4 DEF ATInv, Offsets
  <2> QED
    BY <2>1, <1>3 DEF ATInv, ReadHandled, Handled
<1>12. RowsOfMessages' /\ AuditAtMostOnce'
  BY <1>3 DEF ATInv, RowsOfMessages, AuditAtMostOnce
<1> QED
  BY <1>5, <1>6, <1>7, <1>9, <1>10, <1>11, <1>12 DEF ATInv
-----------------------------------------------------------------------------
(* Steps of the consumer                                                   *)

\* What the outbox owns and the consumer reads stays put.
LEMMA ConsumerLeavesOutbox ==
  ASSUME ATInv, UNCHANGED outboxVars, topic' = topic, faults' \in Nat
  PROVE  LMInv' /\ RecordsOfMessages'
<1>1. UNCHANGED <<topic, op, txn, table, applied, outbox, batch, reply, failedSends>>
  BY DEF outboxVars, senderVars
<1>2. LMTypeOK' /\ NothingBeforeCommit'
  BY <1>1 DEF ATInv, LMInv, LMTypeOK, NothingBeforeCommit
<1>3. LMInv'
  BY <1>1, <1>2, NoChangeStep, QuietStep DEF ATInv, LMInv
<1>4. RecordsOfMessages'
  BY <1>1 DEF ATInv, RecordsOfMessages, Records, Stored
<1> QED
  BY <1>3, <1>4

\* Going on to the next record: what was at hand is handled.
LEMMA NextRecord ==
  ASSUME ATInv, Delivered, position' = position + 1, topic' = topic,
         \A i \in MsgId : Handled(i) => Handled(i)',
         Record \in MsgId => auditLog'[Record] > 0 \/ Record \in interrupted'
  PROVE  ReadHandled'
<1>1. position \in Nat
  BY DEF ATInv, ACTypeOK
<1>2. \A k \in 1..position' : k \in 1..position \/ k = position + 1
  BY <1>1
<1>3. ReadHandled
  BY DEF ATInv
<1> SUFFICES ASSUME NEW k \in 1..position', topic[k] \in MsgId
             PROVE  Handled(topic[k])'
  BY DEF ReadHandled, Handled
<1>4. CASE k \in 1..position
  BY <1>4, <1>3 DEF ReadHandled
<1>5. CASE k = position + 1
  BY <1>5 DEF Record, Handled
<1> QED
  BY <1>2, <1>4, <1>5

\* The numbers and the record at hand.
LEMMA ConsumerFacts ==
  ASSUME ATInv
  PROVE  /\ committed \in Nat /\ marked \in Nat /\ position \in Nat
         /\ Len(topic) \in Nat /\ faults \in Nat
         /\ committed <= marked /\ marked <= position /\ position <= Len(topic)
         /\ Delivered => position + 1 <= Len(topic) /\ Record \in MsgId \cup {Malformed}
  BY DEF ATInv, LMInv, LMTypeOK, ACTypeOK, Offsets, Delivered, Record

\* Receive skips a record that is no audit message, or takes it on.
LEMMA ReceiveInv ==
  ASSUME ATInv, Receive, UNCHANGED outboxVars
  PROVE  ATInv'
<1>1. /\ UNCHANGED <<topic, faults, committed, consumedKey, auditLog, interrupted>>
      /\ stage = "idle" /\ Delivered
  BY DEF Receive
<1>2. LMInv' /\ RecordsOfMessages'
  BY <1>1, ConsumerFacts, ConsumerLeavesOutbox
<1>3. RowsOfMessages' /\ AuditAtMostOnce'
  <2>1. Stored' = Stored
    BY DEF outboxVars, Stored
  <2> QED
    BY <1>1, <2>1 DEF ATInv, RowsOfMessages, AuditAtMostOnce
<1>4. \A i \in consumedKey : Handled(i)
  BY <1>1 DEF ATInv, KeyHandled
<1>5. CASE Record = Malformed
  <2>1. marked' = position + 1 /\ position' = position + 1 /\ stage' = "idle"
    BY <1>5 DEF Receive, MarkMessage
  <2>2. ACTypeOK' /\ Offsets' /\ AtRecord' /\ NowHandled'
    BY <1>1, <2>1, ConsumerFacts DEF ATInv, ACTypeOK, Offsets, AtRecord, NowHandled
  <2>3. KeyHandled'
    BY <1>1, <1>4 DEF KeyHandled, Handled
  <2>4. ReadHandled'
    BY <1>1, <1>5, <2>1, NextRecord, MalformedAssumption DEF Handled
  <2> QED
    BY <1>2, <1>3, <2>2, <2>3, <2>4 DEF ATInv
<1>6. CASE Record # Malformed
  <2>1. marked' = marked /\ position' = position /\ stage' = "received"
    BY <1>6 DEF Receive
  <2>2. Record' = Record /\ (Delivered' <=> Delivered)
    BY <1>1, <2>1 DEF Record, Delivered
  <2>3. ACTypeOK' /\ Offsets' /\ AtRecord' /\ NowHandled'
    BY <1>1, <1>6, <2>1, <2>2, ConsumerFacts
       DEF ATInv, ACTypeOK, Offsets, AtRecord, NowHandled
  <2>4. KeyHandled' /\ ReadHandled'
    BY <1>1, <1>4, <2>1 DEF ATInv, KeyHandled, ReadHandled, Handled
  <2> QED
    BY <1>2, <1>3, <2>3, <2>4 DEF ATInv
<1> QED
  BY <1>5, <1>6

\* Giving up on the record at hand: it counts as interrupted.
LEMMA AbandonInv ==
  ASSUME ATInv, stage # "idle", Abandon, Fault, UNCHANGED outboxVars,
         UNCHANGED <<topic, committed>>,
         consumedKey' \in {consumedKey, consumedKey \cup {Record}},
         auditLog' \in [MsgId -> Nat],
         \A i \in MsgId : auditLog[i] <= auditLog'[i] /\ auditLog'[i] <= 1,
         \A i \in MsgId : auditLog'[i] > 0 => i \in Stored
  PROVE  ATInv'
<1>1. Delivered /\ Record \in MsgId
  BY DEF ATInv, AtRecord
<1>2. faults' \in Nat
  BY ConsumerFacts DEF Fault
<1>3. LMInv' /\ RecordsOfMessages'
  BY <1>2, ConsumerLeavesOutbox
<1>4. /\ position' = position + 1 /\ marked' = marked /\ stage' = "idle"
      /\ interrupted' = interrupted \cup {Record}
  BY DEF Abandon
<1>5. RowsOfMessages' /\ AuditAtMostOnce'
  BY DEF outboxVars, Stored, RowsOfMessages, AuditAtMostOnce
<1>6. ACTypeOK' /\ Offsets' /\ AtRecord' /\ NowHandled'
  BY <1>1, <1>4, ConsumerFacts DEF ATInv, ACTypeOK, Offsets, AtRecord, NowHandled
<1>7. \A i \in MsgId : Handled(i) \/ i = Record => Handled(i)'
  <2>1. \A i \in MsgId : auditLog[i] \in Nat /\ auditLog'[i] \in Nat
    BY DEF ATInv, ACTypeOK
  <2> QED
    BY <1>4, <2>1 DEF Handled
<1>8. KeyHandled'
  <2>1. \A i \in consumedKey' : i \in MsgId /\ (Handled(i) \/ i = Record)
    BY <1>1 DEF ATInv, ACTypeOK, KeyHandled
  <2> QED
    BY <2>1, <1>7 DEF KeyHandled
<1>9. ReadHandled'
  BY <1>1, <1>4, <1>7, NextRecord
<1> QED
  BY <1>3, <1>5, <1>6, <1>8, <1>9 DEF ATInv

\* SetNX takes the key, finds it (then the trace id is handled) or fails.
LEMMA ClaimInv ==
  ASSUME ATInv, ClaimTraceID, UNCHANGED outboxVars
  PROVE  ATInv'
<1>1. UNCHANGED <<topic, committed, auditLog>> /\ stage = "received"
  BY DEF ClaimTraceID
<1>2. Delivered /\ Record \in MsgId
  BY <1>1 DEF ATInv, AtRecord
<1>3. Stored' = Stored
  BY DEF outboxVars, Stored
<1>4. auditLog \in [MsgId -> Nat] /\ RowsOfMessages /\ AuditAtMostOnce /\ KeyHandled
  BY DEF ATInv, ACTypeOK
<1>5. ASSUME UNCHANGED <<faults, marked, position, interrupted>>,
             \/ /\ consumedKey' = consumedKey \cup {Record}
                /\ stage' = "claimed"
             \/ /\ consumedKey' = consumedKey
                /\ stage' = "duplicate"
                /\ Record \in consumedKey
      PROVE  ATInv'
  <2>1. LMInv' /\ RecordsOfMessages'
    BY <1>1, <1>5, ConsumerFacts, ConsumerLeavesOutbox
  <2>2. Record' = Record /\ (Delivered' <=> Delivered)
    BY <1>1, <1>5 DEF Record, Delivered
  <2>3. \A i : Handled(i)' <=> Handled(i)
    BY <1>1, <1>5 DEF Handled
  <2>4. ACTypeOK' /\ Offsets' /\ AtRecord'
    BY <1>1, <1>2, <1>5, <2>2 DEF ATInv, ACTypeOK, Offsets, AtRecord
  <2>5. RowsOfMessages' /\ AuditAtMostOnce' /\ ReadHandled'
    BY <1>1, <1>3, <1>4, <1>5 DEF ATInv, RowsOfMessages, AuditAtMostOnce, ReadHandled, Handled
  <2>6. \A i \in consumedKey : Handled(i)
    BY <1>1, <1>4 DEF KeyHandled
  <2>7. KeyHandled'
    BY <1>5, <2>2, <2>3, <2>6 DEF KeyHandled
  <2>8. NowHandled'
    <3>1. stage' = "duplicate" => auditLog'[Record'] > 0 \/ Record' \in interrupted'
      BY <1>1, <1>5, <2>2, <2>6 DEF Handled
    <3> QED
      BY <1>5, <3>1 DEF NowHandled, Handled
  <2> QED
    BY <2>1, <2>4, <2>5, <2>7, <2>8 DEF ATInv
<1>6. ASSUME Fault, Abandon, consumedKey' \in {consumedKey, consumedKey \cup {Record}}
      PROVE  ATInv'
  BY <1>1, <1>4, <1>6, AbandonInv DEF RowsOfMessages, AuditAtMostOnce
<1> QED
  BY <1>5, <1>6 DEF ClaimTraceID

\* What Insert does to the audit table under the unique index.
LEMMA InsertRow ==
  ASSUME ATInv, NEW i \in Stored, i \in MsgId,
         Insert(i) \/ UNCHANGED auditLog
  PROVE  /\ auditLog' \in [MsgId -> Nat]
         /\ \A j \in MsgId : auditLog[j] <= auditLog'[j] /\ auditLog'[j] <= 1
         /\ \A j \in MsgId : auditLog'[j] > 0 => j \in Stored
         /\ \A j \in MsgId \ {i} : auditLog'[j] = auditLog[j]
         /\ Insert(i) => auditLog'[i] > 0
  BY DEF ATInv, ACTypeOK, RowsOfMessages, AuditAtMostOnce, Insert, AddRow

\* The insert succeeds, finds the row there, or fails.
LEMMA CreateInv ==
  ASSUME ATInv, CreateAuditLog, UNCHANGED outboxVars
  PROVE  ATInv'
<1>1. UNCHANGED <<topic, committed, consumedKey>> /\ stage = "claimed"
  BY DEF CreateAuditLog
<1>2. Delivered /\ Record \in MsgId
  BY <1>1 DEF ATInv, AtRecord
<1>3. Record \in Stored
  <2>1. Record \in Records
    BY <1>2, ConsumerFacts DEF Records, Range, Record, ATInv, LMInv, LMTypeOK
  <2> QED
    BY <1>2, <2>1, MalformedAssumption DEF ATInv, RecordsOfMessages
<1>4. Insert(Record) \/ UNCHANGED auditLog
  BY DEF CreateAuditLog
<1>5. /\ auditLog' \in [MsgId -> Nat]
      /\ \A j \in MsgId : auditLog[j] <= auditLog'[j] /\ auditLog'[j] <= 1
      /\ \A j \in MsgId : auditLog'[j] > 0 => j \in Stored
      /\ \A j \in MsgId \ {Record} : auditLog'[j] = auditLog[j]
      /\ Insert(Record) => auditLog'[Record] > 0
  BY <1>2, <1>3, <1>4, InsertRow
<1>6. ASSUME Insert(Record), stage' = "handled",
             UNCHANGED <<faults, marked, position, interrupted>>
      PROVE  ATInv'
  <2>1. LMInv' /\ RecordsOfMessages'
    BY <1>1, <1>6, ConsumerFacts, ConsumerLeavesOutbox
  <2>2. Record' = Record /\ (Delivered' <=> Delivered)
    BY <1>1, <1>6 DEF Record, Delivered
  <2>3. \A i \in MsgId : Handled(i) \/ i = Record => auditLog'[i] > 0 \/ i \in interrupted'
    BY <1>5, <1>6 DEF Handled
  <2>4. ACTypeOK' /\ Offsets' /\ AtRecord'
    BY <1>1, <1>2, <1>5, <1>6, <2>2 DEF ATInv, ACTypeOK, Offsets, AtRecord
  <2>5. RowsOfMessages' /\ AuditAtMostOnce'
    BY <1>5 DEF outboxVars, Stored, RowsOfMessages, AuditAtMostOnce
  <2>6. KeyHandled'
    <3>1. \A i \in consumedKey : i \in MsgId /\ (Handled(i) \/ i = Record)
      BY DEF ATInv, ACTypeOK, KeyHandled
    <3> QED
      BY <1>1, <2>3, <3>1 DEF KeyHandled, Handled
  <2>7. ReadHandled'
    BY <1>1, <1>6, <2>3 DEF ATInv, ReadHandled, Handled
  <2>8. NowHandled'
    BY <1>2, <2>2, <2>3 DEF NowHandled, Handled
  <2> QED
    BY <2>1, <2>4, <2>5, <2>6, <2>7, <2>8 DEF ATInv
<1>7. ASSUME Fault, Abandon
      PROVE  ATInv'
  BY <1>1, <1>5, <1>7, AbandonInv
<1> QED
  BY <1>6, <1>7 DEF CreateAuditLog

\* The record at hand is handled when it is marked.
LEMMA FinishInv ==
  ASSUME ATInv, Finish, UNCHANGED outboxVars
  PROVE  ATInv'
<1>1. /\ UNCHANGED <<topic, faults, committed, consumedKey, auditLog, interrupted>>
      /\ stage \in {"duplicate", "handled"}
      /\ marked' = position + 1 /\ position' = position + 1 /\ stage' = "idle"
  BY DEF Finish, MarkMessage
<1>2. Delivered /\ Record \in MsgId /\ Handled(Record)
  BY <1>1 DEF ATInv, AtRecord, NowHandled
<1>3. LMInv' /\ RecordsOfMessages'
  BY <1>1, ConsumerFacts, ConsumerLeavesOutbox
<1>4. ACTypeOK' /\ Offsets' /\ AtRecord' /\ NowHandled'
  BY <1>1, <1>2, ConsumerFacts DEF ATInv, ACTypeOK, Offsets, AtRecord, NowHandled
<1>5. RowsOfMessages' /\ AuditAtMostOnce' /\ KeyHandled'
  BY <1>1 DEF outboxVars, Stored, ATInv, RowsOfMessages, AuditAtMostOnce, KeyHandled, Handled
<1>6. ReadHandled'
  <2>1. auditLog'[Record] > 0 \/ Record \in interrupted'
    BY <1>1, <1>2 DEF Handled
  <2>2. \A i \in MsgId : Handled(i) => Handled(i)'
    BY <1>1 DEF Handled
  <2> QED
    BY <1>1, <1>2, <2>1, <2>2, NextRecord
<1> QED
  BY <1>3, <1>4, <1>5, <1>6 DEF ATInv

\* The commit of the marked offset, and the start of the next session.
LEMMA OffsetInv ==
  ASSUME ATInv, AutoCommit \/ Rebalance, UNCHANGED outboxVars
  PROVE  ATInv'
<1>1. /\ UNCHANGED <<topic, stage, consumedKey, auditLog, interrupted>>
      /\ faults' \in Nat
      /\ committed' \in Nat /\ marked' \in Nat /\ position' \in Nat
      /\ committed' <= marked' /\ marked' <= position' /\ position' <= position
      /\ stage # "idle" => position' = position
  BY ConsumerFacts DEF AutoCommit, Rebalance, Fault
<1>2. LMInv' /\ RecordsOfMessages'
  BY <1>1, ConsumerLeavesOutbox
<1>3. ACTypeOK' /\ Offsets'
  BY <1>1, ConsumerFacts DEF ATInv, ACTypeOK, Offsets
<1>4. stage # "idle" => Record' = Record /\ (Delivered' <=> Delivered)
  BY <1>1 DEF Record, Delivered
<1>5. AtRecord' /\ KeyHandled' /\ NowHandled'
  BY <1>1, <1>4 DEF ATInv, AtRecord, KeyHandled, NowHandled, Handled
<1>6. RowsOfMessages' /\ AuditAtMostOnce'
  BY <1>1 DEF outboxVars, Stored, ATInv, RowsOfMessages, AuditAtMostOnce
<1>7. ReadHandled'
  <2>1. 1..position' \subseteq 1..position
    BY <1>1, ConsumerFacts
  <2> QED
    BY <1>1, <2>1 DEF ATInv, ReadHandled, Handled
<1> QED
  BY <1>2, <1>3, <1>5, <1>6, <1>7 DEF ATInv

\* An expired key takes nothing from what is known of the other keys.
LEMMA ExpireInv ==
  ASSUME ATInv, ExpireKey, UNCHANGED outboxVars
  PROVE  ATInv'
<1>1. /\ UNCHANGED <<topic, faults, committed, marked, position, stage, auditLog, interrupted>>
      /\ consumedKey' \subseteq consumedKey
  BY DEF ExpireKey
<1>2. LMInv' /\ RecordsOfMessages'
  BY <1>1, ConsumerFacts, ConsumerLeavesOutbox
<1>3. Record' = Record /\ (Delivered' <=> Delivered)
  BY <1>1 DEF Record, Delivered
<1>4. ACTypeOK' /\ Offsets' /\ AtRecord' /\ KeyHandled'
  BY <1>1, <1>3 DEF ATInv, ACTypeOK, Offsets, AtRecord, KeyHandled, Handled
<1>5. RowsOfMessages' /\ AuditAtMostOnce' /\ ReadHandled' /\ NowHandled'
  BY <1>1, <1>3 DEF outboxVars, Stored, ATInv, RowsOfMessages, AuditAtMostOnce, ReadHandled,
     NowHandled, Handled
<1> QED
  BY <1>2, <1>4, <1>5 DEF ATInv

\* A crash: a trace id claimed but not inserted becomes an interrupted one.
LEMMA CrashInv ==
  ASSUME ATInv, ProcessCrash
  PROVE  ATInv'
<1>1. faults' \in Nat /\ Stop /\ StopConsumer
  BY ConsumerFacts DEF ProcessCrash, Fault
<1>2. LMInv' /\ UNCHANGED <<topic, Stored>>
  BY <1>1, StopInv DEF ATInv, Stop, Stored
<1>3. /\ marked' = committed /\ position' = committed /\ stage' = "idle"
      /\ UNCHANGED <<committed, consumedKey, auditLog>>
      /\ interrupted \subseteq interrupted'
      /\ interrupted' \subseteq interrupted \cup (IF stage = "claimed" THEN {Record} ELSE {})
      /\ stage = "claimed" => Record \in interrupted'
  BY <1>1 DEF StopConsumer
<1>4. stage = "claimed" => Record \in MsgId
  BY DEF ATInv, AtRecord
<1>5. ACTypeOK'
  BY <1>3, <1>4, ConsumerFacts DEF ATInv, ACTypeOK
<1>6. Offsets' /\ AtRecord' /\ NowHandled'
  BY <1>2, <1>3, ConsumerFacts DEF Offsets, AtRecord, NowHandled
<1>7. KeyHandled'
  BY <1>3 DEF ATInv, KeyHandled, Handled
<1>8. ReadHandled'
  <2>1. 1..position' \subseteq 1..position
    BY <1>3, ConsumerFacts
  <2> QED
    BY <1>2, <1>3, <2>1 DEF ATInv, ReadHandled, Handled
<1>9. RecordsOfMessages' /\ RowsOfMessages' /\ AuditAtMostOnce'
  BY <1>2, <1>3 DEF ATInv, RecordsOfMessages, Records, RowsOfMessages, AuditAtMostOnce
<1> QED
  BY <1>2, <1>5, <1>6, <1>7, <1>8, <1>9 DEF ATInv
-----------------------------------------------------------------------------
(* The theorems                                                            *)

\* ATInv is an invariant of the audit trail.
LEMMA ATInvariant == Spec => []ATInv
<1>1. Init => ATInv
  <2> SUFFICES ASSUME Init PROVE ATInv
    OBVIOUS
  <2>1. LMInv /\ topic = <<>>
    BY LMInitInv DEF Init, LMInit
  <2> QED
    BY <2>1 DEF Init, ACInit, ATInv, ACTypeOK, RecordsOfMessages, Records, Range,
       Offsets, AtRecord, RowsOfMessages, AuditAtMostOnce, KeyHandled, ReadHandled,
       NowHandled
<1>2. ATInv /\ [Next]_vars => ATInv'
  <2> SUFFICES ASSUME ATInv, [Next]_vars PROVE ATInv'
    OBVIOUS
  <2>1. CASE LMStep /\ UNCHANGED consumerVars
    <3>1. LMInv'
      BY <2>1, LMStepInv DEF ATInv
    <3>2. Stored \subseteq Stored'
      BY <2>1, MessagesStay DEF ATInv
    <3>3. \E x \in Stored' \cup {Malformed} : topic' \in {topic, Append(topic, x)}
      BY <2>1, <3>2, OutboxExtendsTopic
    <3> QED
      BY <2>1, <3>1, <3>2, <3>3, TopicGrows
  <2>2. CASE ACStep /\ UNCHANGED outboxVars
    BY <2>2, ReceiveInv, ClaimInv, CreateInv, FinishInv, OffsetInv, ExpireInv
       DEF ACStep, Consume
  <2>3. CASE ForeignRecord
    <3>1. /\ topic' = Append(topic, Malformed)
          /\ UNCHANGED consumerVars /\ faults' \in Nat
          /\ UNCHANGED <<op, txn, table, applied, outbox, batch, reply, failedSends>>
      BY <2>3, ConsumerFacts DEF ForeignRecord, Fault, outboxVars, senderVars
    <3>2. topic' \in Seq(MsgId \cup {Malformed}) /\ Records \subseteq Records'
      <4> DEFINE S == MsgId \cup {Malformed}
      <4>1. topic \in Seq(S) /\ Malformed \in S
        BY DEF ATInv, LMInv, LMTypeOK
      <4> HIDE DEF S
      <4>2. Append(topic, Malformed) \in Seq(S)
            /\ Range(Append(topic, Malformed)) = Range(topic) \cup {Malformed}
        BY <4>1, AppendRecords
      <4> QED
        BY <4>2, <3>1 DEF S, Records
    <3>3. Stored' = Stored
      BY <3>1 DEF Stored
    <3>4. TxnMatchesOp' /\ GoneByOther' /\ ChangeHasMessage'
      BY <3>1, <3>3, NoChangeStep, SameMessages DEF ATInv, LMInv
    <3>5. LMTypeOK' /\ NothingBeforeCommit'
      BY <3>1, <3>2 DEF ATInv, LMInv, LMTypeOK, NothingBeforeCommit
    <3>6. BatchExists' /\ ReplyNeedsBatch' /\ GivenUpAfterMaxRetry'
      BY <3>1 DEF ATInv, LMInv, BatchExists, ReplyNeedsBatch, GivenUpAfterMaxRetry
    <3>7. ReplyMeans' /\ SentWasPublished'
      BY <3>1, <3>2 DEF ATInv, LMInv, ReplyMeans, Current, SentWasPublished
    <3>8. LMInv'
      BY <3>4, <3>5, <3>6, <3>7 DEF LMInv
    <3> QED
      BY <3>1, <3>3, <3>8, TopicGrows
  <2>4. CASE ProcessCrash
    BY <2>4, CrashInv
  <2>5. CASE UNCHANGED vars
    <3>1. UNCHANGED outboxVars /\ UNCHANGED consumerVars /\ topic' = topic /\ faults' = faults
      BY <2>5 DEF vars, lmVars
    <3>2. LMInv'
      BY <3>1, ConsumerFacts, ConsumerLeavesOutbox
    <3>3. Stored' = Stored
      BY <3>1 DEF outboxVars, Stored
    <3> QED
      BY <3>1, <3>2, <3>3, TopicGrows
  <2> QED
    BY <2>1, <2>2, <2>3, <2>4, <2>5 DEF Next
<1> QED
  BY <1>1, <1>2, PTL DEF Spec

\* Both halves of the trail stay well formed.
THEOREM TrailTypes == Spec => []TypeOK
<1>1. ATInv => TypeOK
  BY DEF ATInv, LMInv, TypeOK
<1> QED
  BY <1>1, ATInvariant, PTL

\* No audit row without its durable change, whatever fails, but for an update
\* or a deletion that a durable deletion of the same student overtook.
THEOREM AuditRowsAreTrue == Spec => []AuditSound
<1>1. ATInv => AuditSound
  BY DEF ATInv, LMInv, RowsOfMessages, AuditSound, ChangeHasMessage
<1> QED
  BY <1>1, ATInvariant, PTL

\* At most one audit row per change, whatever is sent or delivered again.
THEOREM OneAuditRow == Spec => []AuditAtMostOnce
  BY ATInvariant, PTL DEF ATInv

\* A committed record is audited unless its handling was interrupted.
THEOREM LossNeedsInterruption == Spec => []OnlyInterruptedLost
<1>1. ATInv => OnlyInterruptedLost
  <2> SUFFICES ASSUME ATInv, NEW k \in 1..committed, topic[k] \in MsgId
               PROVE  auditLog[topic[k]] > 0 \/ topic[k] \in interrupted
    BY DEF OnlyInterruptedLost
  <2>1. k \in 1..position
    BY ConsumerFacts
  <2> QED
    BY <2>1 DEF ATInv, ReadHandled, Handled
<1> QED
  BY <1>1, ATInvariant, PTL

\* What the branch "duplicate message" may say of a record it skips: its row
\* exists, or the one who set the key was interrupted.
THEOREM DuplicateWasHandled ==
  Spec => [](stage = "duplicate" => auditLog[Record] > 0 \/ Record \in interrupted)
<1>1. ATInv => (stage = "duplicate" => auditLog[Record] > 0 \/ Record \in interrupted)
  BY DEF ATInv, NowHandled, Handled
<1> QED
  BY <1>1, ATInvariant, PTL

\* A commit of the outbox is one of the ledger.
LEMMA CommitIsLedgerCommit ==
  ASSUME LMInv, NEW i \in MsgId, CommitChange(i), auditLog' = auditLog
  PROVE  \/ Ledger!Commit(i) \/ Ledger!CommitVoid(i)
         \/ UNCHANGED <<applied, Stored, auditLog>>
<1>1. /\ op[i] = "saved" /\ "message" \in txn[i]
      /\ outbox[i] = Absent /\ i \notin applied
      /\ "student" \notin txn[i] => DeletedByOther(i)
  BY DEF CommitChange, LMInv, TxnMatchesOp, NothingBeforeCommit, InTransaction
<1>2. i \notin Stored
  BY <1>1 DEF Stored, Absent
<1>3. CASE UNCHANGED <<applied, outbox>>
  BY <1>3 DEF Stored
<1>4. CASE Publish(i)
  <2>1. outbox' = [outbox EXCEPT ![i] = NewRow] /\ outbox \in [MsgId -> Row]
    BY <1>1, <1>4 DEF Publish, LMInv, LMTypeOK
  <2>2. Stored' = Stored \cup {i}
    BY <2>1 DEF Stored, NewRow
  <2>3. CASE "student" \in txn[i]
    <3>1. applied' = applied \cup {i}
      BY <1>4, <2>3 DEF Publish
    <3> QED
      BY <1>1, <1>2, <2>2, <3>1 DEF Ledger!Commit
  <2>4. CASE "student" \notin txn[i]
    <3>1. applied' = applied /\ DeletedByOther(i)
      BY <1>1, <1>4, <2>4 DEF Publish
    <3> QED
      BY <1>1, <1>2, <2>2, <3>1 DEF Ledger!CommitVoid, DeletedByOther
  <2> QED
    BY <2>3, <2>4
<1> QED
  BY <1>3, <1>4 DEF CommitChange

\* A step of the outbox that commits nothing is none of the ledger's business.
LEMMA OtherStepsKeepLedger ==
  ASSUME LMInv, LMStep, ~ \E i \in MsgId : CommitChange(i)
  PROVE  UNCHANGED <<applied, Stored>>
<1>1. applied' = applied
  BY DEF LMStep, Change, BeginChange, WriteStudent, SaveAuditMessage, ReviveStudent,
     Scan, Process, Send, MarkMessageSent, HandleSendFailure, Elapse
<1>2. outbox \in [MsgId -> Row]
  BY DEF LMInv, LMTypeOK
<1>3. CASE \/ \E i \in MsgId : Change(i)
           \/ \E s \in Student : ReviveStudent(s)
           \/ \E s \in Sender : Scan(s)
  BY <1>1, <1>3 DEF Change, BeginChange, WriteStudent, SaveAuditMessage, ReviveStudent,
     Scan, Stored
<1>4. CASE \E s \in Sender : \E m \in batch[s] : Process(s, m)
  <2>0. PICK s \in Sender : \E m \in batch[s] : Process(s, m)
    BY <1>4
  <2>1. PICK m \in batch[s] : Process(s, m)
    BY <2>0
  <2>2. m.id \in Stored
    BY BatchRows DEF LMInv, BatchExists, Stored
  <2>3. \A j \in MsgId \ {m.id} : outbox'[j] = outbox[j]
    BY <1>2, <2>1 DEF Process, Send, MarkMessageSent, HandleSendFailure, UpdateRow
  <2>4. Stored \subseteq Stored'
    BY MessagesStay
  <2> QED
    BY <1>1, <2>2, <2>3, <2>4 DEF Stored
<1>5. CASE Elapse
  BY <1>1, <1>2, <1>5 DEF Elapse, Row, Stored
<1> QED
  BY <1>3, <1>4, <1>5 DEF LMStep

\* A step of the trail commits one transaction, audits one that is committed,
\* or is none of the ledger's business.
LEMMA StepIsLedgerStep ==
  ASSUME ATInv, [Next]_vars
  PROVE  [Ledger!Next]_<<applied, Stored \ applied, auditLog>>
<1>1. CASE LMStep /\ UNCHANGED consumerVars
  <2>1. auditLog' = auditLog
    BY <1>1 DEF consumerVars
  <2>2. ASSUME NEW i \in MsgId, CommitChange(i)
        PROVE  \/ Ledger!Commit(i) \/ Ledger!CommitVoid(i)
               \/ UNCHANGED <<applied, Stored, auditLog>>
    BY <2>1, <2>2, CommitIsLedgerCommit DEF ATInv
  <2>3. CASE ~ \E i \in MsgId : CommitChange(i)
    BY <1>1, <2>1, <2>3, OtherStepsKeepLedger DEF ATInv
  <2> QED
    BY <2>2, <2>3 DEF Ledger!Next
<1>2. CASE ACStep /\ UNCHANGED outboxVars
  <2>1. UNCHANGED <<applied, Stored>>
    BY <1>2 DEF outboxVars, Stored
  <2>2. CASE CreateAuditLog
    <3>1. Delivered /\ Record \in MsgId
      BY <2>2 DEF CreateAuditLog, ATInv, AtRecord
    <3>2. Record \in Records
      BY <3>1, ConsumerFacts DEF Records, Range, Record, ATInv, LMInv, LMTypeOK
    <3>3. Record \in applied \cup (Stored \ applied)
      BY <3>1, <3>2, MalformedAssumption DEF ATInv, RecordsOfMessages
    <3>4. \/ auditLog' = auditLog
          \/ auditLog[Record] = 0 /\ auditLog' = [auditLog EXCEPT ![Record] = 1]
      BY <2>2, <3>1 DEF CreateAuditLog, Insert, AddRow
    <3> QED
      BY <2>1, <3>1, <3>3, <3>4 DEF Ledger!Next, Ledger!Audit
  <2>3. CASE ~CreateAuditLog
    <3>1. auditLog' = auditLog
      BY <1>2, <2>3 DEF ACStep, Consume, Receive, ClaimTraceID, Finish,
         AutoCommit, Rebalance, ExpireKey
    <3> QED
      BY <2>1, <3>1
  <2> QED
    BY <2>2, <2>3
<1>3. CASE ForeignRecord
  BY <1>3 DEF ForeignRecord, outboxVars, consumerVars, Stored
<1>4. CASE ProcessCrash
  BY <1>4 DEF ProcessCrash, Stop, StopConsumer, Stored
<1>5. CASE UNCHANGED vars
  BY <1>5 DEF vars, lmVars, outboxVars, consumerVars, Stored
<1> QED
  BY <1>1, <1>2, <1>3, <1>4, <1>5 DEF Next

\* The audit trail implements the ledger: rows are only ever added, one per
\* transaction, after it was committed; and a transaction is committed without
\* its change only after another one has deleted the student.
THEOREM TrailImplementsLedger == Spec => LedgerSpec
<1>1. Init => Ledger!Init
  BY DEF Init, LMInit, ACInit, Ledger!Init, Stored, Absent
<1> QED
  BY <1>1, StepIsLedgerStep, ATInvariant, PTL DEF Spec, LedgerSpec, Ledger!Spec
=============================================================================
