----------------------------- MODULE ClassCache -----------------------------
(***************************************************************************)
(* GetClassByID for one class: a read looks into Redis, then into MySQL,   *)
(* and leaves it to a goroutine to cache what it found, or that it found   *)
(* nothing.                                                                *)
(***************************************************************************)
EXTENDS Naturals

CONSTANT Reader   \* the requests that may look the class up

VARIABLES
  classLive,   \* is there a row for the class?
  classCache,  \* the entry class:info:<id>
  lookup,      \* progress of a reader's GetClassByID
  fill         \* what a reader's goroutine is about to cache

classVars == <<classLive, classCache, lookup, fill>>

BeginLookup(r) ==
  /\ lookup' = [lookup EXCEPT ![r] = "cache"]
  /\ UNCHANGED <<classLive, classCache, fill>>

\* Get: an entry is the answer, "nil" included; an error counts as a miss.
ReadClassCache(r) ==
  /\ lookup[r] = "cache"
  /\ \/ classCache # "absent" /\ lookup' = [lookup EXCEPT ![r] = "done"]
     \/ lookup' = [lookup EXCEPT ![r] = "query"]
  /\ UNCHANGED <<classLive, classCache, fill>>

\* dao.GetClassByID finds the class or not, or fails and caches nothing.
QueryClass(r) ==
  /\ lookup[r] = "query"
  /\ lookup' = [lookup EXCEPT ![r] = "done"]
  /\ \/ fill' = [fill EXCEPT ![r] = IF classLive THEN "class" ELSE "nil"]
     \/ UNCHANGED fill
  /\ UNCHANGED <<classLive, classCache>>

\* The goroutine's Set, whose error nobody looks at.
FillClassCache(r) ==
  /\ fill[r] # "none"
  /\ fill' = [fill EXCEPT ![r] = "none"]
  /\ classCache' \in {classCache, fill[r]}
  /\ UNCHANGED <<classLive, lookup>>

\* Mutant: the negative entry has no expiry.
MutExpires == classCache = "class"

Expires == classCache # "absent"

\* Two minutes for "nil", half an hour and up to five minutes for a class.
ExpireClass ==
  /\ Expires
  /\ classCache' = "absent"
  /\ UNCHANGED <<classLive, lookup, fill>>

CCInit ==
  /\ classLive = FALSE
  /\ classCache = "absent"
  /\ lookup = [r \in Reader |-> "idle"]
  /\ fill = [r \in Reader |-> "none"]

CCStep ==
  \/ \E r \in Reader : ReadClassCache(r) \/ QueryClass(r) \/ FillClassCache(r)
  \/ ExpireClass

CCTypeOK ==
  /\ classLive \in BOOLEAN
  /\ classCache \in {"absent", "nil", "class"}
  /\ lookup \in [Reader -> {"idle", "cache", "query", "done"}]
  /\ fill \in [Reader -> {"none", "nil", "class"}]

\* Once the class exists, readers are not told for ever that it does not:
\* also a negative entry that is written after the class was made expires.
MissingClassHeals == classLive ~> [](classCache # "nil")
=============================================================================
