--------------------------- MODULE SmoothWRRCycle ---------------------------
(***************************************************************************)
(* SmoothWRR with the selections of each backend counted over cycles of as *)
(* many selections as the total weight, for as long as every backend stays *)
(* eligible; then, from any point, under every history of eligibility.     *)
(***************************************************************************)
EXTENDS SmoothWRR

VARIABLES
    steady,     \* every backend has been eligible at every selection so far
    picks       \* picks[b]: selections of b since the cycle began

cycleVars == <<vars, steady, picks>>

Rounds == SumTo(picks, NumBackends)
Total == TotalOf(Backend)
NoPicks == [b \in Backend |-> 0]

CycleInit == Init /\ steady = TRUE /\ picks = NoPicks

CycleSelect ==
    /\ steady /\ Rounds < Total
    /\ Select(Backend)
    /\ picks' = [picks EXCEPT ![Winner(Backend)] = @ + 1]
    /\ UNCHANGED steady

CycleRestart ==
    /\ steady /\ Rounds = Total
    /\ picks' = NoPicks
    /\ UNCHANGED <<vars, steady>>

(* From the first selection with a backend missing nothing is counted.     *)
UnsteadySelect ==
    /\ Next
    /\ steady' = FALSE
    /\ picks' = NoPicks

CycleSpec ==
    CycleInit /\ [][CycleSelect \/ CycleRestart \/ UnsteadySelect]_cycleVars

-----------------------------------------------------------------------------
(* Over a cycle each backend is selected exactly as often as its weight    *)
(* says, and the running weights are back where they began.                *)
Proportional ==
    Rounds = Total => picks = weight /\ \A b \in Backend : cw[b] = 0

(* At every point of the cycle no backend is a whole selection ahead of    *)
(* its share of the selections so far, and none is behind it by more than  *)
(* the heaviest weight times the number of the others, in units of a       *)
(* Total-th of a selection: the heavy backend's selections are spread over *)
(* the cycle, not made in a run (balancer.rs: the "smooth" of the          *)
(* round-robin).                                                           *)
Smooth ==
    \A b \in Backend :
        LET ahead == picks[b] * Total - Rounds * weight[b]
        IN  ahead < Total /\ -ahead <= Heaviest * (NumBackends - 1)

=============================================================================
