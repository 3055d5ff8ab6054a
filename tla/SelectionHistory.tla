-------------------------- MODULE SelectionHistory --------------------------
(***************************************************************************)
(* Balancer with a record, for each call of next() in progress, of which   *)
(* backends were eligible at some instant of the call.  is_eligible reads  *)
(* the flag twice, then the clock, then the deadline, and the property     *)
(* below says what its answer is worth when it is yes.                     *)
(***************************************************************************)
EXTENDS Balancer

VARIABLE seen       \* seen[t]: backends eligible at some instant of t's scan

selectionVars == <<vars, seen>>

Selecting == ScanLabel \cup {"charge"}

(* Healthy, or out of its cooldown: what is_eligible means to report.      *)
Eligible(b) == healthy[b] \/ now >= until[b]
EligibleNow == {b \in Backend : Eligible(b)}

SelectionInit ==
    /\ Init
    /\ seen = [t \in Thread |-> {}]

Observe ==
    seen' = [t \in Thread |->
               IF pc'[t] \in Selecting THEN seen[t] \cup EligibleNow' ELSE {}]

SelectionNext == Next /\ Observe

SelectionSpec == SelectionInit /\ [][SelectionNext]_selectionVars

-----------------------------------------------------------------------------
(* A backend that next() selects was eligible at some instant of that call *)
(* (balancer.rs: "Selects the next eligible upstream backend"), although   *)
(* its flag, the clock and its deadline are read at different instants and *)
(* other threads eject, arm and promote it in between.                     *)
SelectedWasEligible ==
    \A t \in Thread :
        /\ best[t] # 0 => best[t] \in seen[t]
        /\ pc[t] = "charge" => arg[t] \in seen[t]

=============================================================================
