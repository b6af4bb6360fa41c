----------------------------- MODULE AuditTopic -----------------------------
(***************************************************************************)
(* What the two halves of the audit trail share: the Kafka topic           *)
(* "audit.log" that carries audit messages from the local_message table to *)
(* the audit consumer, and a budget for the faults a behaviour may contain.*)
(*                                                                         *)
(* A message is named by the auto-increment id of its local_message row    *)
(* (model/local_message.go:6); the trace id that the code puts in the      *)
(* record's key and value is in one-to-one correspondence with it.  The    *)
(* topic has one partition, which is what the broker creates by default.   *)
(***************************************************************************)
EXTENDS Naturals, Sequences, Functions

CONSTANTS
  MsgId,      \* ids of local_message rows, one per student change
  Malformed,  \* a record that does not parse as an AuditMessage
  MaxFaults   \* bound: crashes, failed calls and rebalances in a behaviour

ASSUME MsgIdAssumption == MsgId \subseteq Nat
ASSUME MalformedAssumption == Malformed \notin MsgId
ASSUME MaxFaultsAssumption == MaxFaults \in Nat

VARIABLES
  topic,      \* the records of the partition, in offset order
  faults      \* faults so far

Records == Range(topic)

\* A step that spends one unit of the fault budget.
Fault == faults < MaxFaults /\ faults' = faults + 1
=============================================================================
