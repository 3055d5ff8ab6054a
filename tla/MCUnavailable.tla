--------------------------- MODULE MCUnavailable ----------------------------
(***************************************************************************)
(* Balancer with a record, for each call of next() in progress, of which   *)
(* backends have been eligible at every instant of the call: what          *)
(* is_eligible is worth when it says no.                                   *)
(***************************************************************************)
EXTENDS SelectionHistory

VARIABLE always     \* always[t]: backends eligible throughout t's scan so far

unavailableVars == <<selectionVars, always>>

MCWeight == [b \in Backend |-> 1]

UnavailableInit == SelectionInit /\ always = [t \in Thread |-> {}]

UnavailableNext ==
    /\ SelectionNext
    /\ always' = [t \in Thread |->
                    IF pc'[t] \notin Selecting THEN {}
                    ELSE IF pc[t] = "idle" THEN EligibleNow'
                    ELSE always[t] \cap EligibleNow']

UnavailableSpec == UnavailableInit /\ [][UnavailableNext]_unavailableVars

(* next() gives up only if no backend was eligible throughout the call     *)
(* (balancer.rs: "Returns NoHealthyUpstream when no backend is eligible"). *)
GivesUp(t) == pc[t] \in ScanLabel /\ pc'[t] = "idle"

UnavailableOnlyIfNoneEligible ==
    [][\A t \in Thread : GivesUp(t) => always[t] = {}]_unavailableVars

=============================================================================
