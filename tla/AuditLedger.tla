----------------------------- MODULE AuditLedger ----------------------------
(***************************************************************************)
(* What the audit trail promises: audit rows appear only for transactions  *)
(* that were committed, each gets at most one, and a transaction commits   *)
(* without a change only if a committed deletion of the same student had   *)
(* overtaken it.                                                           *)
(***************************************************************************)
EXTENDS Naturals

CONSTANTS
  MsgId,     \* requests that change a student
  Target,    \* the student of each
  Addition,  \* those that insert it
  Deletion   \* those that delete it

VARIABLES
  changes,   \* requests whose change is committed
  void,      \* requests that were committed and changed nothing
  rows       \* number of audit rows per request

Init == changes = {} /\ void = {} /\ rows = [i \in MsgId |-> 0]

Commit(i) ==
  /\ i \notin changes \cup void
  /\ changes' = changes \cup {i}
  /\ UNCHANGED <<void, rows>>

CommitVoid(i) ==
  /\ i \notin changes \cup void
  /\ i \notin Addition
  /\ \E d \in changes \cap Deletion : d # i /\ Target[d] = Target[i]
  /\ void' = void \cup {i}
  /\ UNCHANGED <<changes, rows>>

Audit(i) ==
  /\ i \in changes \cup void
  /\ rows[i] = 0
  /\ rows' = [rows EXCEPT ![i] = 1]
  /\ UNCHANGED <<changes, void>>

Next == \E i \in MsgId : Commit(i) \/ CommitVoid(i) \/ Audit(i)

Spec == Init /\ [][Next]_<<changes, void, rows>>
=============================================================================
