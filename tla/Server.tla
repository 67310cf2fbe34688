------------------------------- MODULE Server -------------------------------
(***************************************************************************)
(* A server process with its rate limits: requests are taken between       *)
(* startup and shutdown only, a shutdown waits for them, a crash drops     *)
(* them, and the counters live on in Redis.                                *)
(***************************************************************************)
EXTENDS Lifespan, RateLimit

serverVars == <<lifeVars, rateVars>>

ServerInit == LifeInit /\ RateInit

Serve == phase = "serving" /\ (\E c \in Caller : RequestStep(c)) /\ UNCHANGED lifeVars

\* The lifespan goes on; uvicorn ends it when no request is in progress.
Live ==
  /\ LifeNext
  /\ phase' = FirstStop => asking = {}
  /\ asking' = IF phase' = "down" THEN {} ELSE asking
  /\ UNCHANGED <<count, ttl, admitted>>

Pass == Tick /\ UNCHANGED lifeVars

ServerNext == Serve \/ Live \/ Pass

\* Only time has to pass.
ServerSpec == ServerInit /\ [][ServerNext]_serverVars /\ WF_serverVars(Pass)

\* Every variable of the two keeps its type, and every counter has a TTL: counting
\* and setting it are one script (redis.py 23-29; __init__.py 40-119).
ServerTypeOK == LifeTypeOK /\ RateTypeOK

=============================================================================
