--------------------------- MODULE MCGraphCollab ---------------------------
(* Model values for the runs of GraphCollab. *)
EXTENDS GraphCollab, TLC

Symmetry == Permutations(Tabs)
=============================================================================
