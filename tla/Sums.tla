-------------------------------- MODULE Sums --------------------------------
(***************************************************************************)
(* Finite sums of integers indexed from 1, written as a recursive function *)
(* so that both TLC and the provers can use them.                          *)
(***************************************************************************)
EXTENDS Integers

(* f[1] + ... + f[n] *)
SumTo(f, n) ==
    LET s[i \in 0..n] == IF i = 0 THEN 0 ELSE s[i-1] + f[i]
    IN  s[n]

=============================================================================
