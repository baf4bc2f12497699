---------------------------- MODULE RunLifecycle ----------------------------
(***************************************************************************)
(* What the run API of dify-agent promises about each run: it is admitted  *)
(* as running, and the first of success, failure and an accepted           *)
(* cancellation decides how it ends. A run whose cancellation has been     *)
(* accepted never ends in anything but "cancelled".                        *)
(***************************************************************************)
CONSTANT Runs

VARIABLE phase      \* the public status, and "cancelling" in between

Moves == {<<"absent", "running">>,
          <<"running", "succeeded">>, <<"running", "failed">>,
          <<"running", "cancelling">>, <<"cancelling", "cancelled">>}

LifecycleInit == phase = [r \in Runs |-> "absent"]

Move(r) == \E m \in Moves : /\ phase[r] = m[1]
                            /\ phase' = [phase EXCEPT ![r] = m[2]]

LifecycleSpec == LifecycleInit /\ [][\E r \in Runs : Move(r)]_phase
=============================================================================
