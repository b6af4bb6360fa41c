---------------------------- MODULE MCAuditTrail ----------------------------
(* Model checking of the audit trail end to end.                           *)
EXTENDS AuditTrail

MCMsgId == 1..2
MCTarget == [i \in MCMsgId |-> "s1"]
MCStudent == {"s1"}
MCAddition == {}
MCDeletion == {2}

\* A single change, an addition.
MCOneMsg == {1}
MCOneTarget == [i \in MCOneMsg |-> "s1"]
MCNone == {}
=============================================================================
