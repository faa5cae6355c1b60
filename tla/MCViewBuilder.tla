----------------------------- MODULE MCViewBuilder -----------------------------
(* Small instances of ViewBuilder for TLC.                                 *)
EXTENDS ViewBuilder, TLC

(* Processes differ in nothing but their name.  Used for safety only.      *)
Symmetry == Permutations(Builder)
================================================================================
