--------------------------- MODULE MCCorrections ---------------------------
(* One delivery, two trees, two plans and up to four verification runs. *)
EXTENDS Corrections, TLC

TreeSymmetry == Permutations(Tree)
=============================================================================
