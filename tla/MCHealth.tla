------------------------------ MODULE MCHealth ------------------------------
(* Values of the constants of HealthHistory for model checking.            *)
EXTENDS HealthHistory

MCWeight == [b \in Backend |-> 1]
=============================================================================
