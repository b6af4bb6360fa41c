--------------------------- MODULE MCStudentCache ---------------------------
(* Model checking of the student cache.                                    *)
EXTENDS StudentCache
=============================================================================
