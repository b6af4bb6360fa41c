---------------------------- MODULE ScoreAccount ----------------------------
(***************************************************************************)
(* What adding to a student's score promises: every addition that takes    *)
(* effect takes effect once, on top of all the others, and the score is    *)
(* never negative.  Requests of other kinds may overwrite the score; from  *)
(* then on nothing is promised.                                            *)
(***************************************************************************)
EXTENDS Integers

CONSTANTS Req, Other, AddScore, InitScore

VARIABLES
  score,   \* the student's score
  done     \* requests that have taken effect

Init == score = InitScore /\ done = {}

Overwritten == done \cap Other # {}

Add(r) ==
  /\ r \notin done
  /\ score + AddScore[r] >= 0
  /\ score' = score + AddScore[r]
  /\ done' = done \cup {r}

Overwrite(r) == done' = done \cup {r} /\ score' \in Int

Next ==
  \/ \E r \in Req : Add(r)
  \/ \E r \in Other : Overwrite(r)
  \/ Overwritten /\ score' \in Int /\ done' \subseteq Req \cup Other

Spec == Init /\ [][Next]_<<score, done>>
=============================================================================
