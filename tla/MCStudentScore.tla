--------------------------- MODULE MCStudentScore ---------------------------
(* Model checking of the requests to one student row.  Requests are numbers *)
(* and 0 stands for an unlocked row; requests 3 and 4 take points away.     *)
EXTENDS StudentScore

MCNone == {}
MCOptimist == {1, 2, 3}
MCPair == {1, 2}
MCPessimist == {4}
MCUpdater == {5}
MCDeleter == {6}
MCAddScore == [r \in Req |-> IF r \in {3, 4} THEN -2 ELSE r]
=============================================================================
