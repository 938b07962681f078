----------------------------- MODULE CheckPassMC -----------------------------
(* Passes run the same code, so they may be exchanged. *)
EXTENDS CheckPass, TLC

Symmetry == Permutations(Passes)
=============================================================================
