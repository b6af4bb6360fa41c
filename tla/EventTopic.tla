----------------------------- MODULE EventTopic -----------------------------
(***************************************************************************)
(* What the two ends of the student events share: the topic                *)
(* "student_event", with one partition, and a budget for faults.  An event *)
(* is named by its EventID.                                                *)
(***************************************************************************)
EXTENDS Naturals, Sequences, Functions

CONSTANTS
  Event,      \* the events pubilshStudentEvent builds
  Malformed,  \* a record that does not parse as an event
  MaxFaults   \* bound: crashes, rebalances and failed calls of the consumer

ASSUME MalformedEventAssumption == Malformed \notin Event
ASSUME MaxEventFaultsAssumption == MaxFaults \in Nat

VARIABLES
  topic,      \* the records of the partition, in offset order
  faults      \* faults so far

Published == Range(topic)

\* A step that spends one unit of the fault budget.
Fault == faults < MaxFaults /\ faults' = faults + 1
=============================================================================
