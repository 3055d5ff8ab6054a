------------------------------ MODULE Balancer ------------------------------
(***************************************************************************)
(* LoadBalancer::next (src/src/balancer.rs) running over the health state  *)
(* of Upstream, by concurrent request handlers and the health checker.     *)
(*                                                                         *)
(* A request handler selects a backend with next(), sends the request and  *)
(* records what came of it; the health checker walks the pool and records  *)
(* the outcome of each probe.  Neither holds a lock at any point, so each  *)
(* action is one atomic operation, as in Upstream.                         *)
(***************************************************************************)
EXTENDS Upstream, Sums

CONSTANTS
    Weight,         \* Weight[b]: the configured weight of backend b
    ActiveChecks    \* whether the health checker runs

(* validate_upstream rejects a zero weight.                                *)
ASSUME WeightAssumption == Weight \in [Backend -> Nat \ {0}]
ASSUME CheckerAssumption == ActiveChecks \in BOOLEAN

(* The last thread is the health checker, if there is one.                 *)
Checker == IF ActiveChecks THEN {NumThreads} ELSE {}
Handler == Thread \ Checker

VARIABLES
    current,        \* current_weights
    total, best, bestWeight,    \* locals of next(); best = 0 is None
    probe           \* the backend the health checker looks at next

scan == <<total, best, bestWeight>>
vars == <<upstreamVars, current, scan, probe>>

Init ==
    /\ InitUpstream
    /\ current = [b \in Backend |-> 0]
    /\ total = [t \in Thread |-> 0]
    /\ best = [t \in Thread |-> 0]
    /\ bestWeight = [t \in Thread |-> 0]
    /\ probe = 1

-----------------------------------------------------------------------------
(* next(): during the scan arg[t] is the index of the loop.                *)
ResetScan(t) ==
    /\ total' = [total EXCEPT ![t] = 0]
    /\ best' = [best EXCEPT ![t] = 0]
    /\ bestWeight' = [bestWeight EXCEPT ![t] = 0]

NextCall(t) ==
    /\ t \in Handler
    /\ pc[t] = "idle"
    /\ Call(t, 1, "eligible", "idle")
    /\ ResetScan(t)
    /\ UNCHANGED <<cells, now, current, probe>>

(* The end of an iteration: the next backend; or, after the last one,      *)
(* NoHealthyUpstream when no backend was a candidate, else the winner b.   *)
Advance(t, b) ==
    IF arg[t] < NumBackends
      THEN GotoOn(t, "eligible", arg[t] + 1)
      ELSE IF b = 0 THEN Goto(t, "idle") ELSE GotoOn(t, "charge", b)

(* is_eligible: the flag; if it was down trial_ready, which loads the flag *)
(* again, then the clock, then the deadline.                               *)
EligibleHealthy(t) ==
    /\ pc[t] = "eligible"
    /\ Goto(t, IF healthy[arg[t]] THEN "accrue" ELSE "trial_healthy")
    /\ UNCHANGED <<cells, now, loc, ret, current, scan, probe>>

TrialHealthy(t) ==
    /\ pc[t] = "trial_healthy"
    /\ IF healthy[arg[t]]
         THEN Advance(t, best[t])
         ELSE Goto(t, "trial_now")
    /\ UNCHANGED <<cells, now, loc, ret, current, scan, probe>>

TrialNow(t) ==
    /\ pc[t] = "trial_now"
    /\ loc' = [loc EXCEPT ![t] = now]
    /\ Goto(t, "trial_until")
    /\ UNCHANGED <<cells, now, ret, current, scan, probe>>

TrialUntilIgnored(t) ==
    /\ pc[t] = "trial_until"
    /\ Goto(t, "accrue")
    /\ loc' = [loc EXCEPT ![t] = 0]
    /\ UNCHANGED <<cells, now, ret, current, scan, probe>>

TrialUntil(t) ==
    /\ pc[t] = "trial_until"
    /\ IF loc[t] >= until[arg[t]]
         THEN Goto(t, "accrue")
         ELSE Advance(t, best[t])
    /\ loc' = [loc EXCEPT ![t] = 0]
    /\ UNCHANGED <<cells, now, ret, current, scan, probe>>

(* The candidate's weight is added, and it leads if strictly greater.      *)
AccrueLastWins(t) ==
    LET b == arg[t]
        new == current[b] + Weight[b]
        leads == best[t] = 0 \/ new >= bestWeight[t]
    IN  /\ pc[t] = "accrue"
        /\ current' = [current EXCEPT ![b] = new]
        /\ total' = [total EXCEPT ![t] = @ + Weight[b]]
        /\ best' = [best EXCEPT ![t] = IF leads THEN b ELSE @]
        /\ bestWeight' = [bestWeight EXCEPT ![t] = IF leads THEN new ELSE @]
        /\ Advance(t, IF leads THEN b ELSE best[t])
        /\ UNCHANGED <<cells, now, loc, ret, probe>>

Accrue(t) ==
    LET b == arg[t]
        new == current[b] + Weight[b]
        leads == best[t] = 0 \/ new > bestWeight[t]
    IN  /\ pc[t] = "accrue"
        /\ current' = [current EXCEPT ![b] = new]
        /\ total' = [total EXCEPT ![t] = @ + Weight[b]]
        /\ best' = [best EXCEPT ![t] = IF leads THEN b ELSE @]
        /\ bestWeight' = [bestWeight EXCEPT ![t] = IF leads THEN new ELSE @]
        /\ Advance(t, IF leads THEN b ELSE best[t])
        /\ UNCHANGED <<cells, now, loc, ret, probe>>

(* The winner is charged the total of the backends that took part; the     *)
(* locals of the scan are dead from here on.                               *)
ChargeWholePool(t) ==
    /\ pc[t] = "charge"
    /\ current' = [current EXCEPT ![arg[t]] = @ - SumTo(Weight, NumBackends)]
    /\ ResetScan(t)
    /\ Goto(t, "route")
    /\ UNCHANGED <<cells, now, loc, ret, probe>>

ChargeNothing(t) ==
    /\ pc[t] = "charge"
    /\ ResetScan(t)
    /\ Goto(t, "route")
    /\ UNCHANGED <<cells, now, loc, ret, current, probe>>

Charge(t) ==
    /\ pc[t] = "charge"
    /\ current' = [current EXCEPT ![arg[t]] = @ - total[t]]
    /\ ResetScan(t)
    /\ Goto(t, "route")
    /\ UNCHANGED <<cells, now, loc, ret, probe>>

(* Routing to a backend that is down is a half-open trial: it arms the     *)
(* cooldown before the request is sent.                                    *)
Route(t) ==
    /\ pc[t] = "route"
    /\ Goto(t, IF healthy[arg[t]] THEN "sent" ELSE "arm_now")
    /\ ret' = [ret EXCEPT ![t] = "sent"]
    /\ UNCHANGED <<cells, now, loc, current, scan, probe>>

-----------------------------------------------------------------------------
(* handle_request: a response of any status is a success, a transport      *)
(* error or a timeout a failure; nothing is recorded when the body limit   *)
(* is hit, the URI cannot be rewritten or the client goes away.            *)
Respond(t) ==
    /\ pc[t] = "sent"
    /\ \/ RecordSuccess(t, arg[t])
       \/ RecordFailure(t, arg[t])
       \/ Call(t, arg[t], "idle", "idle") /\ UNCHANGED <<cells, now>>
    /\ UNCHANGED <<current, scan, probe>>

(* The health checker: one backend after the other, healthy or not, and    *)
(* without regard to the cooldown.  It passes over a backend for which it  *)
(* cannot build the URI of the probe.                                      *)
Probe(t) ==
    /\ t \in Checker
    /\ pc[t] = "idle"
    /\ \/ RecordSuccess(t, probe)
       \/ RecordFailure(t, probe)
       \/ UNCHANGED <<cells, now, threads>>
    /\ probe' = IF probe < NumBackends THEN probe + 1 ELSE 1
    /\ UNCHANGED <<current, scan>>

Step(t) ==
    \/ NextCall(t) \/ EligibleHealthy(t) \/ TrialHealthy(t) \/ TrialNow(t)
    \/ TrialUntil(t) \/ Accrue(t) \/ Charge(t) \/ Route(t)
    \/ Respond(t) \/ Probe(t)
    \/ RecordStep(t) /\ UNCHANGED <<current, scan, probe>>

Next ==
    \/ \E t \in Thread : Step(t)
    \/ Tick /\ UNCHANGED <<current, scan, probe>>

Spec == Init /\ [][Next]_vars

-----------------------------------------------------------------------------
ScanLabel == {"eligible", "trial_healthy", "trial_now", "trial_until", "accrue"}
SelectLabel == ScanLabel \cup {"charge", "route", "sent"}

(* Every cell and every local of the handlers and the checker has its type. *)
TypeOK ==
    /\ CellsTypeOK
    /\ pc \in [Thread -> RecordLabel \cup SelectLabel \cup {"idle"}]
    /\ ret \in [Thread -> {"idle", "sent"}]
    /\ current \in [Backend -> Int]
    /\ total \in [Thread -> Nat]
    /\ best \in [Thread -> Backend \cup {0}]
    /\ bestWeight \in [Thread -> Int]
    /\ probe \in Backend

(* No weight is created or lost: whatever the interleaving of the handlers *)
(* and the changes of eligibility under their scans, the running weights   *)
(* add up to what the scans in progress have added and not yet charged to  *)
(* a winner, so to zero whenever no selection is under way.                *)
WeightConserved == SumTo(current, NumBackends) = SumTo(total, NumThreads)

(* Selections that overlap never make the weights drift: however often     *)
(* the handlers add to the weights and charge a winner that other handlers *)
(* have charged since it was chosen (the fetch_sub of next), no running    *)
(* weight leaves a range set by the size of the pool, the number of        *)
(* threads and the heaviest weight.                                        *)
NoDrift ==
    \A b \in Backend : \E c \in Backend :
        LET range == NumThreads * NumBackends * NumBackends * Weight[c]
        IN  current[b] <= range /\ current[b] >= -range

=============================================================================
