------------------------------ MODULE MCHiLo ------------------------------
(* Instances of HiLoIdGenerator for TLC. *)
EXTENDS HiLoIdGenerator, TLC

\* goroutines are interchangeable
Symmetry == Permutations(Goroutines)
===========================================================================
