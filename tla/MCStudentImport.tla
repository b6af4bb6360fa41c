-------------------------- MODULE MCStudentImport ---------------------------
(* Model checking of the student import: two partitions, and 0 for a record *)
(* that is no student.                                                      *)
EXTENDS StudentImport

MCHash == [s \in Student |-> IF s = 2 THEN 2 ELSE 1]
=============================================================================
