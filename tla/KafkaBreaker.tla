---------------------------- MODULE KafkaBreaker ----------------------------
(***************************************************************************)
(* The circuit breaker of the producer, gobreaker with the settings of     *)
(* InitBreaker, as functions of its state: what Execute asks before a      *)
(* request and what it records after one.                                  *)
(***************************************************************************)
EXTENDS Naturals

States == {"closed", "open", "halfOpen"}

Breaker == [state : States, generation : Nat, requests : Nat, failures : Nat,
            expired : BOOLEAN]

NewBreaker ==
  [state |-> "closed", generation |-> 0, requests |-> 0, failures |-> 0,
   expired |-> FALSE]

\* A change of state starts a new generation with new counts.  Interval is 0,
\* so nothing else clears them.
Enter(b, s) ==
  [state |-> s, generation |-> b.generation + 1, requests |-> 0, failures |-> 0,
   expired |-> FALSE]

\* An open breaker whose Timeout has passed is half-open.
Current(b) == IF b.state = "open" /\ b.expired THEN Enter(b, "halfOpen") ELSE b

\* MaxRequests = 1: one probe at a time.
MaxRequests == 1

\* Mutant: the half-open breaker lets one more through.
MutAdmits(b) == b.state = "closed" \/ (b.state = "halfOpen" /\ b.requests <= MaxRequests)

Admits(b) == b.state = "closed" \/ (b.state = "halfOpen" /\ b.requests < MaxRequests)

\* Execute, before the request.
Before(b) == [b EXCEPT !.requests = @ + 1]

\* Mutant: one request later.
MutReadyToTrip(b) == b.requests > 3 /\ 2 * b.failures >= b.requests

ReadyToTrip(b) == b.requests >= 3 /\ 2 * b.failures >= b.requests

Failed(b) ==
  LET c == [b EXCEPT !.failures = @ + 1]
  IN IF b.state = "halfOpen" \/ ReadyToTrip(c) THEN Enter(b, "open") ELSE c

Succeeded(b) == IF b.state = "halfOpen" THEN Enter(b, "closed") ELSE b

\* Execute, after the request: a result of an earlier generation is ignored.
After(b, generation, ok) ==
  IF b.generation # generation THEN b ELSE IF ok THEN Succeeded(b) ELSE Failed(b)
=============================================================================
