--------------------------- MODULE MCLocalMessage ---------------------------
(* Model checking of the outbox: an update and a deletion of one student.  *)
EXTENDS LocalMessage

MCMsgId == 1..2
MCTarget == [i \in MCMsgId |-> "s1"]
MCStudent == {"s1"}
MCAddition == {}
MCDeletion == {2}
=============================================================================
