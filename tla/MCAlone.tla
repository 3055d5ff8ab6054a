------------------------------ MODULE MCAlone ------------------------------
(* Weights under which both the weights and their ties decide.             *)
EXTENDS BalancerRefinement

MCWeight == [b \in Backend |-> IF b = 1 THEN 1 ELSE 3]
=============================================================================
