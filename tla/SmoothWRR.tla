----------------------------- MODULE SmoothWRR ------------------------------
(***************************************************************************)
(* Smooth weighted round-robin as one atomic selection: what               *)
(* LoadBalancer::next (src/src/balancer.rs) computes when nothing runs     *)
(* beside it.  Eligibility is the caller's: any non-empty set of backends  *)
(* may be the eligible one at a selection.                                 *)
(***************************************************************************)
EXTENDS Sums

CONSTANTS NumBackends, MaxWeight

ASSUME SelectionAssumption == NumBackends \in Nat \ {0} /\ MaxWeight \in Nat

Backend == 1..NumBackends

VARIABLES
    weight,     \* the configured weights, which never change
    cw          \* the running current weights between two selections

vars == <<weight, cw>>

(* The sum of f over the backends in S; the total weight of those in E.    *)
SumOver(f, S) ==
    SumTo([b \in Backend |-> IF b \in S THEN f[b] ELSE 0], NumBackends)

TotalOf(E) == SumOver(weight, E)

(* The weights once every eligible backend has been added its own, and the *)
(* first of the greatest among them.                                       *)
Accrued(E) == [b \in Backend |-> IF b \in E THEN cw[b] + weight[b] ELSE cw[b]]

WinnerHeaviest(E) == CHOOSE b \in E : \A c \in E : weight[c] <= weight[b]

Winner(E) ==
    CHOOSE b \in E : \A c \in E \ {b} :
        Accrued(E)[c] < Accrued(E)[b] \/ (Accrued(E)[c] = Accrued(E)[b] /\ b < c)

(* Selecting b among E, which is then charged the total of E.              *)
SelectChargingPool(E, b) ==
    /\ cw' = [Accrued(E) EXCEPT ![b] = @ - TotalOf(Backend)]
    /\ UNCHANGED weight

SelectChargingOthers(E, b) ==
    /\ cw' = [Accrued(E) EXCEPT ![b] = @ - TotalOf(E \ {b})]
    /\ UNCHANGED weight

SelectAs(E, b) ==
    /\ cw' = [Accrued(E) EXCEPT ![b] = @ - TotalOf(E)]
    /\ UNCHANGED weight

Select(E) == SelectAs(E, Winner(E))

Init ==
    /\ weight \in [Backend -> 1..MaxWeight]
    /\ cw = [b \in Backend |-> 0]

Next == \E E \in (SUBSET Backend) \ {{}} : Select(E)
Spec == Init /\ [][Next]_vars

(* The promise that is left when selections overlap: some eligible backend *)
(* is selected, and charged what the eligible ones were given.             *)
NextAny == \E E \in (SUBSET Backend) \ {{}} : \E b \in E : SelectAs(E, b)
SpecAny == Init /\ [][NextAny]_vars

-----------------------------------------------------------------------------
(* The number of backends in S, and the greatest weight of the pool.       *)
Size(S) == SumOver([b \in Backend |-> 1], S)

Heaviest == CHOOSE w \in {weight[b] : b \in Backend} : \A b \in Backend : weight[b] <= w

(* However eligibility comes and goes (LoadBalancer::next skips what is    *)
(* not eligible), no group of backends is owed more selections than        *)
(* s * (n - s) times the heaviest weight, s of the n being in the group.   *)
GroupBounded ==
    \A S \in SUBSET Backend :
        SumOver(cw, S) <= Heaviest * (Size(S) * (NumBackends - Size(S)))

(* So no running weight ever leaves +/- the heaviest weight times the      *)
(* number of the other backends: a backend that has been away cannot       *)
(* return to a debt or a credit that grew with the time it was away        *)
(* (LoadBalancer::current_weights "oscillates around zero").               *)
WithinBound ==
    \A b \in Backend : /\ cw[b] <= Heaviest * (NumBackends - 1)
                       /\ cw[b] >= -(Heaviest * (NumBackends - 1))

=============================================================================
