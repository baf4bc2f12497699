--------------------------- MODULE MCRunFollower ---------------------------
(* Model values for the runs of RunFollower. *)
EXTENDS RunFollower

QuietFaults == {"observer"}
=============================================================================
