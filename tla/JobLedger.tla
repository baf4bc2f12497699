----------------------------- MODULE JobLedger -----------------------------
(***************************************************************************)
(* What the jobs table of the sandbox server (dify-agent-runtime) promises *)
(* about one job, whoever writes the row: it is inserted once, its status  *)
(* only moves forward, an exit code appears together with the terminal     *)
(* status and is never rewritten, and the one terminal status that may     *)
(* still change is "exited", which a termination request may override.     *)
(***************************************************************************)
EXTENDS Integers

CONSTANTS
    Codes,      \* exit codes a runner can report
    NoCode      \* the SQL NULL of the exit_code column

VARIABLES
    status,     \* the status column, "absent" while there is no row
    exit        \* the exit_code column

ledger == <<status, exit>>

Active == {"created", "starting", "running"}
Terminal == {"exited", "terminated", "failed", "lost"}
Statuses == Active \cup Terminal \cup {"absent"}

\* How a live row may move; it never goes back.
Forward == {<<"created", "starting">>, <<"created", "running">>,
            <<"starting", "running">>}

LedgerInit == status = "absent" /\ exit = NoCode

Insert == /\ status = "absent"
          /\ status' = "created"
          /\ UNCHANGED exit

Advance == /\ \E move \in Forward : status = move[1] /\ status' = move[2]
           /\ UNCHANGED exit

\* The job ends; the code is the runner's for "exited" and 0 otherwise.
Finish == /\ status \in Active
          /\ \/ status' = "exited" /\ exit' \in Codes
             \/ status' \in Terminal \ {"exited"} /\ exit' = 0

Override == /\ status = "exited"
            /\ status' = "terminated"
            /\ UNCHANGED exit

Remove == /\ status # "absent"
          /\ status' = "absent"
          /\ exit' = NoCode

LedgerNext == Insert \/ Advance \/ Finish \/ Override \/ Remove

LedgerSpec == LedgerInit /\ [][LedgerNext]_ledger
=============================================================================
