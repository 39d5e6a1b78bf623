------------------------------ MODULE MCDefUse ------------------------------
(* Instances of DefUse for TLC: instructions are alike among themselves.    *)
EXTENDS DefUse, TLC

Interchangeable == Permutations(Instructions)
=============================================================================
