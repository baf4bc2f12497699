--------------------------- MODULE MCComposerSync ---------------------------
(* Model values for the runs of ComposerSync. *)
EXTENDS ComposerSync
=============================================================================
