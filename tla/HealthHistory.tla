--------------------------- MODULE HealthHistory ----------------------------
(***************************************************************************)
(* Balancer with a record of when each ejected backend was last given a    *)
(* trial.                                                                  *)
(***************************************************************************)
EXTENDS Balancer

VARIABLES
    tried       \* tried[b]: when b was last sent a trial since; -1 if never

healthVars == <<vars, tried>>

Ejected(b) == healthy[b] /\ ~healthy'[b]
Promoted(b) == ~healthy[b] /\ healthy'[b]

(* Thread t commits to sending a half-open trial to b.                     *)
RoutesTrial(t, b) ==
    arg[t] = b /\ pc[t] = "route" /\ pc'[t] # "route" /\ ~healthy[b]

HealthInit ==
    /\ Init
    /\ tried = [b \in Backend |-> -1]

Record ==
    tried' = [b \in Backend |->
                IF Promoted(b) \/ Ejected(b) THEN -1
                ELSE IF \E t \in Thread : RoutesTrial(t, b) THEN now
                ELSE tried[b]]

HealthNext == Next /\ Record

HealthSpec == HealthInit /\ [][HealthNext]_healthVars

-----------------------------------------------------------------------------
(* An ejected backend is sent at most one trial per window: a trial is     *)
(* routed to it only when a whole cooldown has passed since the one before *)
(* (upstream.rs arm_cooldown: "an unhealthy backend receives at most one   *)
(* trial per window until it is promoted").                                *)
Elapsed(since) == since = -1 \/ now >= since + Cooldown

OneTrialPerWindow ==
    [][\A t \in Thread, b \in Backend :
          RoutesTrial(t, b) => Elapsed(tried[b])]_healthVars

=============================================================================
