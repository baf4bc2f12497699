---------------------------- MODULE ShellctlJob ----------------------------
(***************************************************************************)
(* The lifecycle of one sandbox job of dify-agent-runtime, across the      *)
(* processes that share it:                                                *)
(*                                                                         *)
(*   - the goroutine of RunJob, which inserts the row and starts the job;  *)
(*   - Callers: request handlers, the pipe monitor, the collector and the  *)
(*     start-up reconciliation, each of which reads the row, tmux and the  *)
(*     job directory one after the other and then writes the row;          *)
(*   - the tmux session and the runner in its pane;                        *)
(*   - the output pipe (sanitizer and finalizer) of a PTY job;             *)
(*   - crashes of the server and of the whole sandbox, failing tmux        *)
(*     queries, and deaths of the runner and the pipe, MaxFaults in all.   *)
(*                                                                         *)
(* A step is one SQL statement, tmux command, lock section or file check.  *)
(* Checks that commute with everybody else's steps are merged.  The job's  *)
(* output, the wording of errors and the values of timestamps are left     *)
(* out; a timestamp column is a flag that says whether it is set.          *)
(***************************************************************************)
EXTENDS Integers, FiniteSets

CONSTANTS
    Callers,    \* concurrent executions of the operations below
    Codes,      \* exit codes of scripts
    NoCode,     \* SQL NULL, and "no such file"
    Modes,      \* the modes a job may be run in
    Ops,        \* operations the callers perform
    EarlyCalls, \* may a client address a job whose RunJob has not returned?
    Faults,     \* kinds of faults that may happen
    MaxFaults   \* bound on the number of faults

AllOps == {"status", "monitor", "terminate", "delete", "force", "gc"}
AllFaults == {"server", "sandbox", "tmux", "runner", "pipe", "finalizer"}

ASSUME ConstantsAssumption ==
    /\ 0 \in Codes /\ NoCode \notin Codes
    /\ Modes \subseteq {"pty", "stdio"}
    /\ Ops \subseteq AllOps
    /\ EarlyCalls \in BOOLEAN
    /\ Faults \subseteq AllFaults
    /\ MaxFaults \in Nat

VARIABLES
    mode,       \* the mode of the job
    row,        \* the job's row in SQLite
    starting,   \* startingJobs[jobID], in the server's memory
    server,     \* "up", "down", or "booting" (before Reconcile has returned)
    start,      \* where RunJob is
    files,      \* the job directory: which files it holds, "dir" for itself
    exitFile,   \* the content of runner-exit-code
    session,    \* the tmux session: "none", "live", "gone"
    runner,     \* the runner in the pane
    childCode,  \* the code the script ended with
    pipe,       \* the pipe-pane command
    pc, op,     \* where each caller is and what it performs
    snap,       \* the row a caller holds
    seen,       \* what a caller saw of tmux: "missing", "active", "inactive"
    faults      \* faults so far

jobVars == <<mode, row, starting, files, exitFile>>
procVars == <<session, runner, childCode, pipe>>
callVars == <<pc, op, snap, seen>>
vars == <<mode, row, starting, server, start, files, exitFile, session, runner,
          childCode, pipe, pc, op, snap, seen, faults>>

-----------------------------------------------------------------------------
(* The row: db.go and runner_exit.go *)

Active == {"created", "starting", "running"}
Terminal == {"exited", "terminated", "failed", "lost"}
Statuses == Active \cup Terminal \cup {"absent"}

NoRow == [status |-> "absent", exit |-> NoCode, started |-> FALSE, ended |-> FALSE]
NewRow == [NoRow EXCEPT !.status = "created"]
Rows == [status : Statuses, exit : Codes \cup {NoCode},
         started : BOOLEAN, ended : BOOLEAN]

\* Mutant: the write does not compare the status.
TransitionUnchecked(r, from, target) ==
    [status |-> target,
     exit |-> IF target \in Terminal /\ r.exit = NoCode THEN 0 ELSE r.exit,
     started |-> r.started \/ target \in {"starting", "running"},
     ended |-> r.ended \/ target \in Terminal]

\* Mutant: a final status is written without a default for exit_code.
TransitionWithoutDefault(r, from, target) ==
    IF r.status \notin from THEN r
    ELSE [r EXCEPT !.status = target,
                   !.started = @ \/ target \in {"starting", "running"},
                   !.ended = @ \/ target \in Terminal]

\* TransitionStatus: a compare-and-set on the status column.
Transition(r, from, target) ==
    IF r.status \notin from THEN r
    ELSE [status |-> target,
          exit |-> IF target \in Terminal /\ r.exit = NoCode THEN 0 ELSE r.exit,
          started |-> r.started \/ target \in {"starting", "running"},
          ended |-> r.ended \/ target \in Terminal]

\* TransitionStatus with RequireExitCodeNull.
TransitionIfNoExit(r, from, target) ==
    IF r.exit # NoCode THEN r ELSE Transition(r, from, target)

\* Mutant: a status that the rest of the program does not know.
RecordRunnerExitMisspelled(r, code) ==
    IF r.status \notin Active THEN r
    ELSE [r EXCEPT !.status = "exit", !.exit = code, !.ended = TRUE]

\* RecordRunnerExit, of the server and of shellctl-runner-exit alike.
RecordRunnerExit(r, code) ==
    IF r.status \notin Active THEN r
    ELSE [r EXCEPT !.status = "exited", !.exit = code, !.ended = TRUE]

-----------------------------------------------------------------------------
(* Files, tmux *)

FileNames == {"dir", "gate", "ready", "exit-code", "ended-at", "drained", "failed"}

\* A write into the job directory, which fails once it has been removed.
Put(f) == IF "dir" \in files THEN files \cup {f} ELSE files

Artifacts == {"exit-code", "ended-at"} \subseteq files

\* Mutants: the drain marker of a PTY job is not awaited; it is awaited of a
\* stdio job too, which has no pipe.
CompletedExitUndrained == Artifacts
CompletedExitDrained == Artifacts /\ "drained" \in files

\* completedExitMetadata: may the exit be recorded from the artifacts?
CompletedExit == Artifacts /\ (mode = "pty" => "drained" \in files)

\* Mutant: the failure marker of the pipe is ignored.
CommitPendingAfterFailure == mode = "pty" /\ Artifacts /\ "drained" \notin files

\* normalExitCommitPending: is the finalizer of the pipe about to commit?
CommitPending == /\ mode = "pty" /\ Artifacts
                 /\ "drained" \notin files /\ "failed" \notin files

\* kill-session: the pane gets a hangup, which a runner that has not started
\* the script dies of and another one forwards to the script.
KillSession == /\ session' = IF session = "live" THEN "gone" ELSE session
               /\ runner' = IF session = "live" /\ runner = "waiting"
                            THEN "dead" ELSE runner
               /\ UNCHANGED <<childCode, pipe>>

-----------------------------------------------------------------------------
Init == /\ mode \in Modes
        /\ row = NoRow
        /\ starting = FALSE
        /\ server = "up"
        /\ start = "idle"
        /\ files = {}
        /\ exitFile = NoCode
        /\ session = "none"
        /\ runner = "none"
        /\ childCode = NoCode
        /\ pipe = "off"
        /\ pc = [p \in Callers |-> "idle"]
        /\ op = [p \in Callers |-> "none"]
        /\ snap = [p \in Callers |-> NoRow]
        /\ seen = [p \in Callers |-> "missing"]
        /\ faults = 0

-----------------------------------------------------------------------------
(* RunJob *)

\* A step of RunJob that only moves it on.
GoTo(from, to) == start = from /\ start' = to /\ UNCHANGED <<server, faults, callVars>>

\* allocateJobDir, and the mark in startingJobs.
AllocateJobDir ==
    /\ server = "up"
    /\ GoTo("idle", "insert")
    /\ files' = {"dir"}
    /\ starting' = TRUE
    /\ UNCHANGED <<mode, row, exitFile, procVars>>

\* A file cannot be written or the row cannot be inserted: cleanupStarting.
AbortAllocation ==
    /\ GoTo("insert", "aborted")
    /\ files' = {}
    /\ starting' = FALSE
    /\ UNCHANGED <<mode, row, exitFile, procVars>>

InsertJob ==
    /\ GoTo("insert", "mark")
    /\ row' = NewRow
    /\ UNCHANGED <<mode, starting, files, exitFile, procVars>>

\* The result of the compare-and-set is ignored.
MarkStarting ==
    /\ GoTo("mark", "session")
    /\ row' = Transition(row, {"created"}, "starting")
    /\ UNCHANGED <<mode, starting, files, exitFile, procVars>>

CreateJobSession ==
    /\ GoTo("session", IF mode = "pty" THEN "pipe" ELSE "gate")
    /\ session' = "live"
    /\ runner' = "waiting"
    /\ UNCHANGED <<childCode, pipe, jobVars>>

CreateJobSessionFails ==
    /\ GoTo("session", "fail")
    /\ UNCHANGED <<jobVars, procVars>>

EnableOutputPipe ==
    /\ session = "live"
    /\ GoTo("pipe", "ready")
    /\ pipe' = "on"
    /\ UNCHANGED <<session, runner, childCode, jobVars>>

EnableOutputPipeFails ==
    /\ session # "live"
    /\ GoTo("pipe", "fail")
    /\ UNCHANGED <<jobVars, procVars>>

\* waitForPipeReady: the ready file exists and pane_pipe is 1.
PipeIsReady ==
    /\ "ready" \in files /\ session = "live" /\ pipe \in {"on", "ready"}
    /\ GoTo("ready", "gate")
    /\ UNCHANGED <<jobVars, procVars>>

\* The pane is missing, or PipeReadyTimeout has passed.
PipeReadyTimeout ==
    /\ GoTo("ready", "fail")
    /\ UNCHANGED <<jobVars, procVars>>

OpenStartGate ==
    /\ GoTo("gate", IF "dir" \in files THEN "running" ELSE "fail")
    /\ files' = Put("gate")
    /\ UNCHANGED <<mode, row, starting, exitFile, procVars>>

MarkRunning ==
    /\ GoTo("running", "finish")
    /\ row' = TransitionIfNoExit(row, {"starting"}, "running")
    /\ UNCHANGED <<mode, starting, files, exitFile, procVars>>

\* startJob removes the ready file and RunJob forgets that the job starts.
FinishStart ==
    /\ GoTo("finish", "done")
    /\ files' = files \ {"ready"}
    /\ starting' = FALSE
    /\ UNCHANGED <<mode, row, exitFile, procVars>>

MarkStartFailed ==
    /\ GoTo("fail", "cleanup")
    /\ row' = Transition(row, Active, "failed")
    /\ UNCHANGED <<mode, starting, files, exitFile, procVars>>

CleanupFailedStart ==
    /\ GoTo("cleanup", "done")
    /\ KillSession
    /\ starting' = FALSE
    /\ UNCHANGED <<mode, row, files, exitFile>>

RunJob ==
    \/ AllocateJobDir \/ AbortAllocation \/ InsertJob \/ MarkStarting
    \/ CreateJobSession \/ CreateJobSessionFails
    \/ EnableOutputPipe \/ EnableOutputPipeFails
    \/ PipeIsReady \/ PipeReadyTimeout \/ OpenStartGate
    \/ MarkRunning \/ FinishStart \/ MarkStartFailed \/ CleanupFailedStart

-----------------------------------------------------------------------------
(* The runner in the pane: cmd/runner *)

RunnerFrame == UNCHANGED <<mode, row, starting, server, start, pipe, callVars, faults>>

StartScript ==
    /\ runner = "waiting" /\ "gate" \in files
    /\ runner' = "script"
    /\ UNCHANGED <<session, childCode, files, exitFile>> /\ RunnerFrame

\* The script ends, of itself, of an interrupt or of a hangup; in stdio mode
\* both of its streams have reached their end too.
ScriptEnds ==
    /\ runner = "script"
    /\ runner' = "ended"
    /\ childCode' \in Codes
    /\ UNCHANGED <<session, files, exitFile>> /\ RunnerFrame

WriteExitCode ==
    /\ runner = "ended"
    /\ runner' = "coded"
    /\ files' = Put("exit-code")
    /\ exitFile' = IF "dir" \in files THEN childCode ELSE exitFile
    /\ UNCHANGED <<session, childCode>> /\ RunnerFrame

WriteEndedAt ==
    /\ runner = "coded"
    /\ runner' = "stamped"
    /\ files' = Put("ended-at")
    /\ UNCHANGED <<session, childCode, exitFile>> /\ RunnerFrame

\* The runner exits, and its pane and session go with it.
RunnerExits ==
    /\ runner = "stamped"
    /\ runner' = "exited"
    /\ session' = "gone"
    /\ UNCHANGED <<childCode, files, exitFile>> /\ RunnerFrame

Runner == StartScript \/ ScriptEnds \/ WriteExitCode \/ WriteEndedAt \/ RunnerExits

-----------------------------------------------------------------------------
(* The pipe-pane command: sanitizer, drain marker, shellctl-runner-exit *)

PipeFrame == UNCHANGED <<mode, starting, server, start, exitFile, session,
                         runner, childCode, callVars, faults>>

\* The sanitizer touches the ready file before it reads; it cannot start
\* without the job directory its output is redirected into.
SanitizerStarts ==
    /\ pipe = "on"
    /\ pipe' = IF "dir" \in files THEN "ready" ELSE "failed"
    /\ files' = Put("ready")
    /\ UNCHANGED row /\ PipeFrame

\* The pane is gone: the sanitizer has flushed all output and ends with 0.
PipeDrained ==
    /\ pipe = "ready" /\ session # "live"
    /\ pipe' = "drained"
    /\ files' = Put("drained")
    /\ UNCHANGED row /\ PipeFrame

\* test -s on both artifacts, then the exit is recorded.
FinalizerChecks ==
    /\ pipe = "drained"
    /\ pipe' = IF Artifacts THEN "recording" ELSE "closed"
    /\ UNCHANGED <<files, row>> /\ PipeFrame

FinalizerRecords ==
    /\ pipe = "recording"
    /\ pipe' = "closed"
    /\ row' = IF "exit-code" \in files THEN RecordRunnerExit(row, exitFile) ELSE row
    /\ UNCHANGED files /\ PipeFrame

Pipe == SanitizerStarts \/ PipeDrained \/ FinalizerChecks \/ FinalizerRecords

-----------------------------------------------------------------------------
(* GetJobStatus and the operations built on it *)

CallFrame == UNCHANGED <<mode, starting, server, start, exitFile, session,
                         runner, childCode, pipe, faults>>

\* A step of caller p from one program counter to the next.
Step(p, from, to) == pc[p] = from /\ pc' = [pc EXCEPT ![p] = to]

Idle(p) == /\ pc' = [pc EXCEPT ![p] = "idle"]
           /\ op' = [op EXCEPT ![p] = "none"]
           /\ snap' = [snap EXCEPT ![p] = NoRow]
           /\ seen' = [seen EXCEPT ![p] = "missing"]

\* Who may call when: the monitor lists running rows only; a client knows the
\* id from RunJob's answer, or from ListJobs while the job is being started.
MayCall(o) ==
    CASE o = "monitor" -> row.status = "running"
      [] o = "gc" -> TRUE
      [] OTHER -> EarlyCalls \/ start \in {"done", "dead"}

\* An operation begins with GetJob; an unknown id is answered with 404.
Begin(p, o) ==
    /\ pc[p] = "idle"
    /\ row.status # "absent"
    /\ \/ server = "up" /\ o \in Ops /\ MayCall(o)
       \/ server = "booting" /\ o = "reconcile" /\ \A q \in Callers : pc[q] = "idle"
    /\ pc' = [pc EXCEPT ![p] = "session"]
    /\ op' = [op EXCEPT ![p] = o]
    /\ snap' = [snap EXCEPT ![p] = row]
    /\ UNCHANGED <<seen, row, files>> /\ CallFrame

\* GetJobStatus inside TerminateJob and DeleteJob. TerminateJob's error is
\* returned to the client, or dropped by DeleteJob.
GetJob(p) ==
    /\ pc[p] = "row"
    /\ IF row.status # "absent"
       THEN /\ Step(p, "row", "session")
            /\ snap' = [snap EXCEPT ![p] = row]
            /\ UNCHANGED <<op, seen>>
       ELSE IF op[p] \in {"force-terminate", "force-confirm"}
            THEN Step(p, "row", "cleanup") /\ UNCHANGED <<op, snap, seen>>
            ELSE Idle(p)
    /\ UNCHANGED <<row, files>> /\ CallFrame

\* liveRuntimeState: list-sessions, then pane_pipe for a PTY job.
ListSessions(p) ==
    /\ Step(p, "session", IF session = "live" /\ mode = "pty"
                          THEN "pane" ELSE "artifacts")
    /\ seen' = [seen EXCEPT ![p] = IF session = "live" THEN "active" ELSE "missing"]
    /\ UNCHANGED <<op, snap, row, files>> /\ CallFrame

\* Mutant: a session whose pipe has stopped is taken for a missing one.
IsOutputPipeActiveOrMissing(p) ==
    /\ Step(p, "pane", "artifacts")
    /\ seen' = [seen EXCEPT ![p] =
                   IF session = "live" /\ pipe \in {"on", "ready"}
                   THEN "active" ELSE "missing"]
    /\ UNCHANGED <<op, snap, row, files>> /\ CallFrame

IsOutputPipeActive(p) ==
    /\ Step(p, "pane", "artifacts")
    /\ seen' = [seen EXCEPT ![p] =
                   IF session # "live" THEN "missing"
                   ELSE IF pipe \in {"on", "ready"} THEN "active" ELSE "inactive"]
    /\ UNCHANGED <<op, snap, row, files>> /\ CallFrame

\* The view is built from the row as it is after the write, if it still exists.
WriteRow(p, r) == /\ row' = r
                  /\ snap' = [snap EXCEPT ![p] = IF r.status # "absent" THEN r ELSE @]

\* materializeStatusView up to the exit artifacts.
Materialize(p) ==
    /\ pc[p] = "artifacts"
    /\ \/ /\ snap[p].status \in Terminal \/ snap[p].exit # NoCode \/ CompletedExit
          /\ Step(p, "artifacts", "view")
          /\ IF snap[p].status \in Terminal
             THEN IF snap[p].ended THEN UNCHANGED <<row, snap>>
                  ELSE WriteRow(p, Transition(row, {snap[p].status}, snap[p].status))
             ELSE IF snap[p].exit # NoCode
                  THEN WriteRow(p, Transition(row, Active, "exited"))
                  ELSE WriteRow(p, RecordRunnerExit(row, exitFile))
       \/ /\ snap[p].status \in Active /\ snap[p].exit = NoCode /\ ~CompletedExit
          /\ Step(p, "artifacts", IF seen[p] = "missing" THEN "pending" ELSE "live")
          /\ UNCHANGED <<row, snap>>
    /\ UNCHANGED <<op, seen, files>> /\ CallFrame

\* Mutant: a job that RunJob is still starting is reported as running.
MaterializeLiveWhileStarting(p) ==
    /\ Step(p, "live", "view")
    /\ IF seen[p] = "inactive" THEN WriteRow(p, Transition(row, Active, "failed"))
       ELSE IF snap[p].status = "running" THEN UNCHANGED <<row, snap>>
       ELSE WriteRow(p, TransitionIfNoExit(row, {"created", "starting"}, "running"))
    /\ UNCHANGED <<op, seen, files>> /\ CallFrame

\* There is a session: its pipe has stopped, or the job is running by now.
MaterializeLive(p) ==
    /\ Step(p, "live", "view")
    /\ IF starting THEN UNCHANGED <<row, snap>>
       ELSE IF seen[p] = "inactive" THEN WriteRow(p, Transition(row, Active, "failed"))
       ELSE IF snap[p].status = "running" THEN UNCHANGED <<row, snap>>
       ELSE WriteRow(p, TransitionIfNoExit(row, {"created", "starting"}, "running"))
    /\ UNCHANGED <<op, seen, files>> /\ CallFrame

\* There is none: the finalizer of the pipe may still be about to commit.
CheckPending(p) ==
    /\ Step(p, "pending", IF CommitPending THEN "view" ELSE "gone")
    /\ UNCHANGED <<op, snap, seen, row, files>> /\ CallFrame

MaterializeLost(p) ==
    /\ Step(p, "gone", "view")
    /\ IF starting /\ snap[p].status \in {"created", "starting"}
       THEN UNCHANGED <<row, snap>>
       ELSE WriteRow(p, Transition(row, Active, "lost"))
    /\ UNCHANGED <<op, seen, files>> /\ CallFrame

\* Mutant: started_at is taken for ended_at.
DoneOnceStarted(p) == snap[p].started

Done(p) == snap[p].status \in Terminal

\* The operation has its view and is finished with it.
ReturnView(p) ==
    /\ pc[p] = "view"
    /\ \/ op[p] \in {"status", "monitor", "confirm"}
       \/ op[p] = "delete" /\ ~Done(p)                  \* 409 job_running
       \/ op[p] = "gc"                                  \* running, or not expired
    /\ Idle(p)
    /\ UNCHANGED <<row, files>> /\ CallFrame

\* The operation goes on: DeleteJob and GCOnce remove a finished job, and a
\* forced DeleteJob calls TerminateJob before, which asks for the view again.
ContinueWithView(p) ==
    /\ pc[p] = "view"
    /\ \/ /\ \/ op[p] \in {"delete", "force", "gc"} /\ Done(p)
             \/ op[p] = "force-confirm"
          /\ Step(p, "view", "cleanup")
          /\ UNCHANGED op
       \/ /\ op[p] = "force" /\ ~Done(p)
          /\ Step(p, "view", "row")
          /\ op' = [op EXCEPT ![p] = "force-terminate"]
       \/ /\ op[p] \in {"terminate", "force-terminate"} /\ ~Done(p)
          /\ Step(p, "view", "mark")
          /\ UNCHANGED op
    /\ UNCHANGED <<snap, seen, row, files>> /\ CallFrame

\* TerminateJob and Reconcile kill what is left of a finished job.
KillFinished(p) ==
    /\ pc[p] = "view"
    /\ op[p] \in {"terminate", "force-terminate", "reconcile"}
    /\ op[p] = "reconcile" \/ Done(p)
    /\ IF Done(p) THEN KillSession ELSE UNCHANGED procVars
    /\ server' = IF op[p] = "reconcile" THEN "up" ELSE server
    /\ IF op[p] = "force-terminate"
       THEN Step(p, "view", "cleanup") /\ UNCHANGED <<op, snap, seen>>
       ELSE Idle(p)
    /\ UNCHANGED <<jobVars, start, faults>>

\* TerminateJob: the mark, then interrupt, grace period and kill-session.
MarkTerminated(p) ==
    /\ Step(p, "mark", "kill")
    /\ row' = Transition(row, Active \cup {"exited"}, "terminated")
    /\ UNCHANGED <<op, snap, seen, files>> /\ CallFrame

KillTerminated(p) ==
    /\ Step(p, "kill", "row")
    /\ KillSession
    /\ op' = [op EXCEPT ![p] = IF @ = "terminate" THEN "confirm" ELSE "force-confirm"]
    /\ UNCHANGED <<snap, seen, jobVars, server, start, faults>>

\* Mutant: a finished job is trusted to have no session.
CleanupJobWithoutKill(p) ==
    /\ Step(p, "cleanup", "delete")
    /\ UNCHANGED <<op, snap, seen, procVars, jobVars, server, start, faults>>

\* DeleteJob and GCOnce: kill-session, DELETE, RemoveAll. DeleteJob stops
\* when the row is gone already.
CleanupJob(p) ==
    /\ Step(p, "cleanup", "delete")
    /\ KillSession
    /\ UNCHANGED <<op, snap, seen, jobVars, server, start, faults>>

DeleteRow(p) ==
    /\ pc[p] = "delete"
    /\ row' = NoRow
    /\ IF row.status = "absent" /\ op[p] # "gc" THEN Idle(p)
       ELSE Step(p, "delete", "remove") /\ UNCHANGED <<op, snap, seen>>
    /\ UNCHANGED files /\ CallFrame

RemoveJobDir(p) ==
    /\ pc[p] = "remove"
    /\ files' = {}
    /\ Idle(p)
    /\ UNCHANGED row /\ CallFrame

Call(p) ==
    \/ \E o \in Ops \cup {"reconcile"} : Begin(p, o)
    \/ GetJob(p) \/ ListSessions(p) \/ IsOutputPipeActive(p)
    \/ Materialize(p) \/ MaterializeLive(p) \/ CheckPending(p) \/ MaterializeLost(p)
    \/ ReturnView(p) \/ ContinueWithView(p) \/ KillFinished(p)
    \/ MarkTerminated(p) \/ KillTerminated(p)
    \/ CleanupJob(p) \/ DeleteRow(p) \/ RemoveJobDir(p)

\* Mutant: the server does not reconcile when it starts.
RestartUnreconciled ==
    /\ server = "down"
    /\ server' = "up"
    /\ UNCHANGED <<jobVars, procVars, callVars, start, faults>>

\* PrepareRuntime of a restarted server; with a row, Reconcile comes first.
Restart ==
    /\ server = "down"
    /\ server' = IF row.status = "absent" THEN "up" ELSE "booting"
    /\ UNCHANGED <<jobVars, procVars, callVars, start, faults>>

-----------------------------------------------------------------------------
(* Faults *)

Fault(kind) == kind \in Faults /\ faults < MaxFaults /\ faults' = faults + 1

\* The server forgets its goroutines and startingJobs; SQLite, the job
\* directory and tmux stay.
ServerStops ==
    /\ server' = "down"
    /\ start' = IF start \in {"idle", "aborted", "done"} THEN start ELSE "dead"
    /\ starting' = FALSE
    /\ pc' = [p \in Callers |-> "idle"]
    /\ op' = [p \in Callers |-> "none"]
    /\ snap' = [p \in Callers |-> NoRow]
    /\ seen' = [p \in Callers |-> "missing"]
    /\ UNCHANGED <<mode, row, files, exitFile>>

ServerCrash ==
    /\ Fault("server")
    /\ server # "down"
    /\ ServerStops
    /\ UNCHANGED procVars

\* Every process of the sandbox dies; its disk stays.
SandboxCrash ==
    /\ Fault("sandbox")
    /\ server # "down"
    /\ ServerStops
    /\ session' = IF session = "live" THEN "gone" ELSE session
    /\ runner' = IF runner \in {"none", "exited"} THEN runner ELSE "dead"
    /\ pipe' = IF pipe \in {"off", "failed", "closed"} THEN pipe ELSE "killed"
    /\ UNCHANGED childCode

\* A tmux query of liveRuntimeState fails: the operation returns its error,
\* except that DeleteJob drops the one of TerminateJob; the server does not
\* start when Reconcile fails.
TmuxQueryFails(p) ==
    /\ Fault("tmux")
    /\ pc[p] \in {"session", "pane"}
    /\ IF op[p] \in {"force-terminate", "force-confirm"}
       THEN pc' = [pc EXCEPT ![p] = "cleanup"] /\ UNCHANGED <<op, snap, seen>>
       ELSE Idle(p)
    /\ server' = IF op[p] = "reconcile" THEN "down" ELSE server
    /\ UNCHANGED <<jobVars, procVars, start>>

\* The runner is killed, and its pane and session go with it.
RunnerDies ==
    /\ Fault("runner")
    /\ runner \in {"waiting", "script", "ended", "coded", "stamped"}
    /\ runner' = "dead"
    /\ session' = "gone"
    /\ UNCHANGED <<childCode, pipe, jobVars, server, start, callVars>>

\* The sanitizer ends with an error: the failure marker.
PipeFails ==
    /\ Fault("pipe")
    /\ pipe \in {"on", "ready"}
    /\ pipe' = "failed"
    /\ files' = Put("failed")
    /\ UNCHANGED <<mode, row, starting, exitFile, session, runner, childCode,
                   server, start, callVars>>

\* shellctl-runner-exit fails (SQLite stays busy): only logged.
FinalizerFails ==
    /\ Fault("finalizer")
    /\ pipe = "recording"
    /\ pipe' = "closed"
    /\ UNCHANGED <<jobVars, session, runner, childCode, server, start, callVars>>

Environment ==
    \/ ServerCrash \/ SandboxCrash \/ RunnerDies \/ PipeFails \/ FinalizerFails
    \/ \E p \in Callers : TmuxQueryFails(p)

-----------------------------------------------------------------------------
Next == RunJob \/ Runner \/ Pipe \/ Restart \/ Environment \/ \E p \in Callers : Call(p)

Spec == Init /\ [][Next]_vars

\* What an operation does once it has begun.
Proceed(p) == pc[p] # "idle" /\ Call(p)

\* Goroutines and processes are scheduled; a script may run for ever, and
\* nobody has to call the server. The monitor's own goroutine has its turn
\* among the callers again and again, and a server that is down is restarted.
Fairness ==
    /\ WF_vars(start # "idle" /\ RunJob)
    /\ WF_vars(Runner /\ runner # "script")
    /\ WF_vars(Pipe)
    /\ WF_vars(Restart)
    /\ \A p \in Callers : WF_vars(Proceed(p))
    /\ SF_vars(\E p \in Callers : Begin(p, "monitor"))
    /\ WF_vars(\E p \in Callers : Begin(p, "reconcile"))

FairSpec == Spec /\ Fairness

-----------------------------------------------------------------------------
(* Properties *)

\* Every variable has its type.
TypeOK ==
    /\ mode \in Modes
    /\ row \in Rows
    /\ starting \in BOOLEAN
    /\ server \in {"up", "down", "booting"}
    /\ start \in {"idle", "insert", "mark", "session", "pipe", "ready", "gate",
                  "running", "finish", "fail", "cleanup", "done", "aborted", "dead"}
    /\ files \subseteq FileNames
    /\ exitFile \in Codes \cup {NoCode}
    /\ session \in {"none", "live", "gone"}
    /\ runner \in {"none", "waiting", "script", "ended", "coded", "stamped",
                   "exited", "dead"}
    /\ childCode \in Codes \cup {NoCode}
    /\ pipe \in {"off", "on", "ready", "drained", "recording", "closed",
                 "failed", "killed"}
    /\ pc \in [Callers -> {"idle", "row", "session", "pane", "artifacts", "live",
                           "pending", "gone", "view", "mark", "kill", "cleanup",
                           "delete", "remove"}]
    /\ op \in [Callers -> AllOps \cup {"none", "reconcile", "confirm",
                                       "force-terminate", "force-confirm"}]
    /\ snap \in [Callers -> Rows]
    /\ seen \in [Callers -> {"missing", "active", "inactive"}]
    /\ faults \in 0 .. MaxFaults

\* The columns of the row agree, whichever of the three writers of a final
\* status (TransitionStatus and the two RecordRunnerExit) came first: there is
\* an exit code and an end time exactly when the job is finished.
Consistent(r) ==
    /\ r.exit # NoCode <=> r.status \in Terminal
    /\ r.ended <=> r.status \in Terminal
    /\ r.status \in {"starting", "running"} => r.started

RowConsistent == Consistent(row)

\* "exited" is only ever recorded with the code the script really ended with,
\* and for a PTY job only after all of its output has been flushed, so a
\* client that is told "done" reads the whole output.
ExitedIsGenuine ==
    row.status = "exited" =>
        /\ row.exit = childCode
        /\ mode = "pty" /\ "dir" \in files => "drained" \in files

\* Why it is genuine, as an inductive invariant: before RunJob creates the
\* session nothing of a runner exists; the exit-code file holds the code of a
\* script that has ended; a finalizer past the drain has left its marker; and
\* every row a caller holds is one the table has held.
ScriptEnded == runner \notin {"none", "waiting", "script"}

ExitEvidence ==
    /\ start \in {"idle", "insert", "mark", "session"} =>
           runner = "none" /\ session = "none" /\ pipe = "off"
    /\ start \in {"idle", "insert"} => row = NoRow
    /\ runner \in {"ended", "coded", "stamped", "exited"} => childCode \in Codes
    /\ "exit-code" \in files =>
           ScriptEnded /\ exitFile = childCode /\ childCode \in Codes
    /\ row.status = "exited" => ScriptEnded /\ row.exit = childCode
    /\ mode = "pty" /\ "dir" \in files =>
           (row.status = "exited" \/ pipe \in {"drained", "recording"}
            => "drained" \in files)
    /\ \A p \in Callers : Consistent(snap[p])

\* A job that is reported as running, by its starter or by a poll that finds
\* its session, has had its gate opened, unless the server crashed during its
\* start.
RunningMeansGateOpen ==
    row.status = "running" /\ "dir" \in files /\ start # "dead" => "gate" \in files

\* A job whose script ended normally and left its exit artifacts is not
\* reported as lost, however the polls interleave with the exit.
ExitNotLost == row.status = "lost" => runner # "exited"

\* In stdio mode, where no pipe has to be drained, this holds.
StdioExitNotLost == mode = "stdio" => ExitNotLost

\* A job is reported as lost only if its tmux session is really gone.
LostMeansGone == row.status = "lost" => session # "live"

\* Once TerminateJob is past its kill, a terminated job has no session, also
\* when the server crashed between the mark and the kill and came back.
TerminatedMeansStopped ==
    /\ server = "up"
    /\ row.status = "terminated"
    /\ \A p \in Callers : pc[p] # "kill"
    => session # "live"

\* When the row has been deleted and no deletion is under way, nothing of the
\* job is left: no session, and no directory unless a process died.
DeletedLeavesNothing ==
    /\ start \in {"done", "dead"}
    /\ row.status = "absent"
    /\ \A p \in Callers : pc[p] # "remove"
    => session # "live" /\ (files = {} \/ faults > 0)

\* DeleteJob and GCOnce never remove the row of a job that is not finished.
OnlyFinishedRowsRemoved ==
    [][row.status # "absent" /\ row'.status = "absent"
       => row.status \in Terminal]_vars

Ledger == INSTANCE JobLedger WITH status <- row.status, exit <- row.exit

\* Whatever interleaves, the row behaves as the jobs table promises: a
\* terminal status sticks (but for exited -> terminated), a code is final.
LedgerRefined == Ledger!LedgerSpec

\* A job whose runner has exited is eventually reported as finished, also if
\* shellctl-runner-exit fails or the server is restarted meanwhile.
ExitEventuallyRecorded ==
    runner = "exited" /\ row.status \in Active ~> row.status \notin Active

\* A job marked as terminated is eventually stopped, crashes included.
TerminatedEventuallyStops == row.status = "terminated" ~> session # "live"
=============================================================================
