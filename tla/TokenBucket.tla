---------------------------- MODULE TokenBucket -----------------------------
(***************************************************************************)
(* What a rate limiter promises each client address: a bucket of Burst     *)
(* tokens that gains one every Period ticks.  A request takes a token; it  *)
(* is refused exactly when there is not a whole one.  The level is counted *)
(* in ticks, Period of them to a token.                                    *)
(***************************************************************************)
EXTENDS Naturals

CONSTANTS Ip, Period, Burst

VARIABLES
    level,      \* level[a]: the fill of the bucket of address a, in ticks
    verdict     \* verdict[a]: what the last request from a was told

vars == <<level, verdict>>

Full == Burst * Period

Init ==
    /\ level = [a \in Ip |-> Full]
    /\ verdict = [a \in Ip |-> "none"]

Tick ==
    /\ level' = [a \in Ip |-> IF level[a] < Full THEN level[a] + 1 ELSE Full]
    /\ UNCHANGED verdict

Admit(a) ==
    /\ level[a] >= Period
    /\ level' = [level EXCEPT ![a] = @ - Period]
    /\ verdict' = [verdict EXCEPT ![a] = "allowed"]

Refuse(a) ==
    /\ level[a] < Period
    /\ verdict' = [verdict EXCEPT ![a] = "refused"]
    /\ UNCHANGED level

Next == Tick \/ \E a \in Ip : Admit(a) \/ Refuse(a)

Spec == Init /\ [][Next]_vars

=============================================================================
