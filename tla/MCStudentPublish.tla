-------------------------- MODULE MCStudentPublish --------------------------
(* Model checking of the pool, its tasks and the circuit breaker.           *)
EXTENDS StudentPublish
=============================================================================
