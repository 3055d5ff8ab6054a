------------------------- MODULE BalancerRefinement -------------------------
(***************************************************************************)
(* Balancer implements SmoothWRR.  The running weights between selections  *)
(* are current with the additions of the scans in progress taken back; a   *)
(* selection takes effect at the fetch_sub that charges the winner.        *)
(***************************************************************************)
EXTENDS Balancer, FiniteSets

VARIABLE taken      \* taken[t]: backends that t's scan in progress has added to

refinementVars == <<vars, taken>>

RefinementInit == Init /\ taken = [t \in Thread |-> {}]

RefinementNext ==
    /\ Next
    /\ taken' = [t \in Thread |->
                   IF pc[t] = "accrue" /\ pc'[t] # pc[t] THEN taken[t] \cup {arg[t]}
                   ELSE IF pc[t] = "charge" /\ pc'[t] # pc[t] THEN {}
                   ELSE taken[t]]

RefinementSpec == RefinementInit /\ [][RefinementNext]_refinementVars

-----------------------------------------------------------------------------
Settled ==
    [b \in Backend |->
        current[b] - Weight[b] * Cardinality({t \in Thread : b \in taken[t]})]

WRR == INSTANCE SmoothWRR WITH
    MaxWeight <- SumTo(Weight, NumBackends), weight <- Weight, cw <- Settled

(* With one handler at a time next() is smooth weighted round-robin, even  *)
(* though the health checker ejects and promotes backends between the      *)
(* atomic operations of a scan (balancer.rs next).                         *)
ImplementsSmoothWRR == WRR!Spec

(* With handlers that overlap it still selects, atomically at the charge,  *)
(* one of the backends it found eligible, and charges it exactly what it   *)
(* gave to them (balancer.rs: "selection stays correct").                  *)
ImplementsSelection == WRR!SpecAny

=============================================================================
