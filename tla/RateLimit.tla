----------------------------- MODULE RateLimit -----------------------------
(***************************************************************************)
(* The rate limits of the API: a middleware that counts the requests of an *)
(* IP address and lets them through when Redis fails, and a dependency of  *)
(* single routes that counts those of a user and fails with Redis.  Both   *)
(* count with one script, INCRBY and EXPIRE, so a window begins with the   *)
(* first request and ends when the key expires.                            *)
(*                                                                         *)
(* A client stands for an address and a user.  Counters live in Redis and  *)
(* outlive the server; they are kept up to one above the limit, beyond     *)
(* which nothing changes.  Time passes in ticks.                           *)
(***************************************************************************)
EXTENDS Naturals

CONSTANTS
  Caller,     \* clients of the API
  Limit,      \* Limit[g]: requests per window that guard g lets through
  Window,     \* ticks until a counter expires
  RateFaults  \* what the environment may do

Guard == {"middleware", "route"}

ASSUME RateAssumption ==
  /\ Limit \in [Guard -> Nat \ {0}]
  /\ Window \in Nat \ {0}
  /\ RateFaults \subseteq {"error"}

VARIABLES
  count,     \* count[g][c]: the counter of guard g for caller c, 0 if there is none
  ttl,       \* ttl[g][c]: ticks until it expires
  admitted,  \* admitted[g][c]: requests let through on the strength of that counter
  asking     \* the callers whose request has passed the middleware, to a limited route

rateVars == <<count, ttl, admitted, asking>>

-----------------------------------------------------------------------------
(* Variants the code might have had, used only to show that the properties *)
(* depend on the code they are about.                                      *)

OffByOne(g, n) == n > Limit[g] + 1

EveryTime(n) == TRUE

NeverExpires(n) == FALSE

-----------------------------------------------------------------------------

None0 == [g \in Guard |-> [c \in Caller |-> 0]]

RateInit == count = None0 /\ ttl = None0 /\ admitted = None0 /\ asking = {}

Counted(g, c) == IF count[g][c] > Limit[g] THEN count[g][c] ELSE count[g][c] + 1

\* INCRBY returned the increment itself: the key is new.
StartsWindow(n) == n = 1

Refuses(g, n) == n > Limit[g]

IncrementWithTtl(g, c) ==
  /\ count' = [count EXCEPT ![g][c] = Counted(g, c)]
  /\ ttl' = [ttl EXCEPT ![g][c] = IF StartsWindow(Counted(g, c)) THEN Window ELSE @]

Admit(g, c) == admitted' = [admitted EXCEPT ![g][c] = @ + 1]

\* RateLimitMiddleware.dispatch of a request that goes on to a limited route, or not.
Dispatch(c) ==
  /\ c \notin asking
  /\ IncrementWithTtl("middleware", c)
  /\ IF Refuses("middleware", Counted("middleware", c))
       THEN UNCHANGED <<admitted, asking>>
       ELSE /\ Admit("middleware", c)
            /\ asking' \in {asking, asking \cup {c}}

\* The script raises, executed or not, and the request is let through.
DispatchUnchecked(c) ==
  /\ "error" \in RateFaults
  /\ c \notin asking
  /\ IncrementWithTtl("middleware", c) \/ UNCHANGED <<count, ttl>>
  /\ asking' \in {asking, asking \cup {c}}
  /\ UNCHANGED admitted

\* _check of rate_limiter.
CheckRoute(c) ==
  /\ c \in asking
  /\ IncrementWithTtl("route", c)
  /\ IF Refuses("route", Counted("route", c)) THEN UNCHANGED admitted
                                             ELSE Admit("route", c)
  /\ asking' = asking \ {c}

\* The script raises, executed or not, and the request is answered 500.
CheckRouteFails(c) ==
  /\ "error" \in RateFaults
  /\ c \in asking
  /\ IncrementWithTtl("route", c) \/ UNCHANGED <<count, ttl>>
  /\ asking' = asking \ {c}
  /\ UNCHANGED admitted

Tick ==
  LET expires(g, c) == ttl[g][c] = 1
      fresh(f) == [g \in Guard |-> [c \in Caller |-> IF expires(g, c) THEN 0 ELSE f[g][c]]]
  IN /\ \E g \in Guard, c \in Caller : ttl[g][c] > 0
     /\ ttl' = [g \in Guard |-> [c \in Caller |-> IF ttl[g][c] = 0 THEN 0 ELSE ttl[g][c] - 1]]
     /\ count' = fresh(count)
     /\ admitted' = fresh(admitted)
     /\ UNCHANGED asking

RequestStep(c) ==
  Dispatch(c) \/ DispatchUnchecked(c) \/ CheckRoute(c) \/ CheckRouteFails(c)

-----------------------------------------------------------------------------
(* Properties.                                                             *)

\* A counter without a TTL would lock its client out for good: there is none.
RateTypeOK ==
  /\ asking \subseteq Caller
  /\ \A g \in Guard, c \in Caller :
       /\ count[g][c] \in 0 .. Limit[g] + 1
       /\ ttl[g][c] \in 0 .. Window
       /\ admitted[g][c] \in Nat
       /\ count[g][c] > 0 <=> ttl[g][c] > 0

\* In one window a guard lets through no more than its limit, also when the server
\* restarts in the middle of it, except what the middleware could not count
\* (redis.py 23-29, core/rate_limit.py 9-29, middleware/rate_limit.py 27-35).
WindowRespected ==
  \A g \in Guard, c \in Caller : admitted[g][c] <= Limit[g]

\* A client over its limit is not locked out, however often it tries: its counter
\* expires a window after the first request, not after the last (redis.py 23-29).
NobodyLockedOut ==
  \A g \in Guard, c \in Caller : Refuses(g, count[g][c]) ~> count[g][c] = 0

=============================================================================
