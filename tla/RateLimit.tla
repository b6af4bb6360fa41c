------------------------------ MODULE RateLimit -----------------------------
(***************************************************************************)
(* RateLimitMiddleware: one token bucket per client address, found or made *)
(* under the mutex of the map and then asked without it.  A tick is the    *)
(* time in which a bucket gains one token.                                 *)
(***************************************************************************)
EXTENDS Naturals

CONSTANTS
  Request,    \* the requests that are served, each in a goroutine of its own
  Ip,         \* the addresses they come from
  Burst,      \* capacity of a bucket, 20
  MaxTicks,   \* bound: ticks
  NoLimiter   \* no limiter for this address yet

ASSUME NoLimiterAssumption == NoLimiter \notin Request
ASSUME BurstAssumption == Burst \in Nat \ {0}
ASSUME MaxTicksAssumption == MaxTicks \in Nat

VARIABLES
  limiterMap,  \* the limiter of each address, named by the request that made it
  held,        \* the limiter getLimiter returned to a request
  tokens,      \* tokens in each limiter's bucket
  ticks,       \* ticks so far
  admitted     \* history: requests each address got through

limitVars == <<limiterMap, held, tokens, ticks, admitted>>

\* Mutant: a limiter is made for every request.
MutKnown(ip) == FALSE

Known(ip) == limiterMap[ip] # NoLimiter

\* Lookup and insertion are one critical section; a new bucket is full.
GetLimiter(r, ip) ==
  /\ \/ Known(ip) /\ held' = [held EXCEPT ![r] = limiterMap[ip]]
                  /\ UNCHANGED <<limiterMap, tokens>>
     \/ ~Known(ip) /\ held' = [held EXCEPT ![r] = r]
                   /\ limiterMap' = [limiterMap EXCEPT ![ip] = r]
                   /\ tokens' = [tokens EXCEPT ![r] = Burst]
  /\ UNCHANGED <<ticks, admitted>>

Allowed(r) == tokens[held[r]] > 0

\* l.Allow() takes a token, if there is one.
TakeToken(r, ip) ==
  /\ Allowed(r)
  /\ tokens' = [tokens EXCEPT ![held[r]] = @ - 1]
  /\ admitted' = [admitted EXCEPT ![ip] = @ + 1]
  /\ UNCHANGED <<limiterMap, held, ticks>>

Refill ==
  /\ ticks < MaxTicks
  /\ ticks' = ticks + 1
  /\ tokens' = [r \in Request |-> IF tokens[r] < Burst THEN tokens[r] + 1 ELSE Burst]
  /\ UNCHANGED <<limiterMap, held, admitted>>

RLInit ==
  /\ limiterMap = [ip \in Ip |-> NoLimiter]
  /\ held = [r \in Request |-> NoLimiter]
  /\ tokens = [r \in Request |-> 0]
  /\ ticks = 0
  /\ admitted = [ip \in Ip |-> 0]

RLTypeOK ==
  /\ limiterMap \in [Ip -> Request \cup {NoLimiter}]
  /\ held \in [Request -> Request \cup {NoLimiter}]
  /\ tokens \in [Request -> 0..Burst]
  /\ ticks \in 0..MaxTicks
  /\ admitted \in [Ip -> Nat]

\* However many requests of one address arrive at once, the first ones of all
\* included, it gets no more through than the burst and one per tick.
AdmittedWithinRate == \A ip \in Ip : admitted[ip] <= Burst + ticks
=============================================================================
