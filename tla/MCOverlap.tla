----------------------------- MODULE MCOverlap ------------------------------
(* Handlers that overlap, seen by the refinement and by the history of     *)
(* eligibility at once.                                                    *)
EXTENDS BalancerRefinement, SelectionHistory

MCWeight == [b \in Backend |-> IF b = 1 THEN 2 ELSE 1]

OverlapInit == RefinementInit /\ SelectionInit
OverlapNext == RefinementNext /\ Observe
OverlapSpec == OverlapInit /\ [][OverlapNext]_<<refinementVars, selectionVars>>
=============================================================================
