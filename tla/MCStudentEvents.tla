--------------------------- MODULE MCStudentEvents --------------------------
(* Model checking of the student events end to end.                         *)
EXTENDS StudentEvents
=============================================================================
