------------------------ MODULE ShellctlSafetyProofs ------------------------
(* The safety invariants of ShellctlJob beyond the row itself: how the row  *)
(* relates to the start gate, the tmux session, the runner and the job      *)
(* directory. They need a second inductive invariant, over where RunJob,    *)
(* the server and each caller are, and some of them need a hypothesis on    *)
(* the constants, without which TLC shows them violated.                    *)
EXTENDS ShellctlJobProofs

(* What the steps of each process do, as the lemmas below need it. *)

LEMMA RunnerEffect ==
    ASSUME Runner
    PROVE  /\ UNCHANGED <<mode, row, starting, server, start, pipe, pc, op, snap, seen, faults>>
           /\ files \subseteq files'
           /\ "dir" \notin files => files' = files
           /\ runner # "none" /\ runner' # "none" /\ runner \notin {"dead", "exited"}
           /\ UNCHANGED session \/ (runner' = "exited" /\ session' = "gone")
BY DEF Runner, StartScript, ScriptEnds, WriteExitCode, WriteEndedAt, RunnerExits,
       RunnerFrame, callVars, Put

LEMMA PipeEffect ==
    ASSUME Inv, Pipe
    PROVE  /\ UNCHANGED <<mode, starting, server, start, session, runner, pc, op,
                          snap, seen, faults>>
           /\ files \subseteq files'
           /\ "dir" \notin files => files' = files
           /\ row' = row \/ (row.status \in Active /\ row'.status = "exited")
           /\ pipe # "off"
<1>1. row \in Rows
    BY DEF Inv, TypeOK
<1>2. RecordRunnerExit(row, exitFile) = row
      \/ (row.status \in Active /\ RecordRunnerExit(row, exitFile).status = "exited")
    BY <1>1 DEF RecordRunnerExit, Rows
<1> QED BY <1>2
    DEF Pipe, SanitizerStarts, PipeDrained, FinalizerChecks, FinalizerRecords,
        PipeFrame, callVars, Put

\* What TransitionStatus does to the status alone.
LEMMA TransitionStatus ==
    ASSUME NEW r \in Rows, NEW from, NEW target
    PROVE  /\ \/ Transition(r, from, target) = r /\ r.status \notin from
              \/ r.status \in from /\ Transition(r, from, target).status = target
           /\ \/ TransitionIfNoExit(r, from, target) = r
              \/ r.status \in from /\ TransitionIfNoExit(r, from, target).status = target
BY DEF Transition, TransitionIfNoExit

\* What a step of RunJob does to the row.
RunJobRow ==
    \/ row' = row
    \/ InsertJob
    \/ MarkStarting /\ row.status = "created" /\ row'.status = "starting"
    \/ MarkRunning /\ row.status = "starting" /\ row'.status = "running"
    \/ MarkStartFailed /\ row.status \in Active /\ row'.status = "failed"

LEMMA RunJobRowEffect ==
    ASSUME Inv, RunJob
    PROVE  RunJobRow
<1>1. row \in Rows
    BY DEF Inv, TypeOK
<1>2. CASE MarkStarting
    BY <1>1, <1>2, TransitionStatus DEF MarkStarting, RunJobRow
<1>3. CASE MarkRunning
    BY <1>1, <1>3, TransitionStatus DEF MarkRunning, RunJobRow
<1>4. CASE MarkStartFailed
    BY <1>1, <1>4, TransitionStatus DEF MarkStartFailed, RunJobRow
<1> QED BY <1>2, <1>3, <1>4
    DEF RunJob, AllocateJobDir, AbortAllocation, CreateJobSession,
        CreateJobSessionFails, EnableOutputPipe, EnableOutputPipeFails, PipeIsReady,
        PipeReadyTimeout, OpenStartGate, FinishStart, CleanupFailedStart, jobVars, RunJobRow

\* What a caller's step does to the row, and from where.
CallRow(p) ==
    \/ row' = row
    \/ pc[p] = "artifacts" /\ row.status \in Active /\ row'.status = "exited"
    \/ pc[p] = "live" /\ row.status \in Active /\ row'.status = "failed"
    \/ pc[p] = "live" /\ row.status \in {"created", "starting"}
       /\ row'.status = "running" /\ ~starting
    \/ MaterializeLost(p) /\ row.status \in Active /\ row'.status = "lost"
       /\ ~(starting /\ snap[p].status \in {"created", "starting"})
    \/ MarkTerminated(p) /\ row'.status = "terminated"
    \/ pc[p] = "delete" /\ row' = NoRow

LEMMA CallRowEffect ==
    ASSUME Inv, NEW p \in Callers, Call(p)
    PROVE  CallRow(p)
<1>0. row \in Rows /\ Consistent(snap[p])
    BY DEF Inv, TypeOK, ExitEvidence
<1>1. CASE Materialize(p)
    <2>1. /\ snap[p].status \in Terminal => snap[p].ended
          /\ snap[p].status \notin Terminal => snap[p].exit = NoCode
        BY <1>0 DEF Consistent
    <2>2. row' = row \/ row' = RecordRunnerExit(row, exitFile)
        BY <1>1, <2>1 DEF Materialize, WriteRow
    <2> QED BY <1>0, <1>1, <2>2 DEF Materialize, RecordRunnerExit, Rows, CallRow
<1>2. CASE MaterializeLive(p)
    <2>1. \/ row' = row
          \/ row' = Transition(row, Active, "failed")
          \/ row' = TransitionIfNoExit(row, {"created", "starting"}, "running") /\ ~starting
        BY <1>2 DEF MaterializeLive, WriteRow
    <2>2. pc[p] = "live"
        BY <1>2 DEF MaterializeLive, Step
    <2> QED BY <1>0, <2>1, <2>2, TransitionStatus DEF CallRow
<1>3. CASE MaterializeLost(p)
    BY <1>0, <1>3, TransitionStatus DEF MaterializeLost, WriteRow, CallRow
<1>4. CASE MarkTerminated(p)
    BY <1>0, <1>4, TransitionStatus DEF MarkTerminated, CallRow
<1>5. CASE DeleteRow(p)
    BY <1>5 DEF DeleteRow, CallRow
<1>6. ASSUME row' = row PROVE CallRow(p)
    BY <1>6 DEF CallRow
<1> QED BY <1>1, <1>2, <1>3, <1>4, <1>5, <1>6
    DEF Call, Begin, GetJob, ListSessions, IsOutputPipeActive, CheckPending, ReturnView,
        ContinueWithView, KillFinished, KillTerminated, CleanupJob, RemoveJobDir, jobVars

\* The rest of what a caller's step does: to the processes, the directory and
\* the other callers.
LEMMA CallEffect ==
    ASSUME TypeOK, NEW p \in Callers, Call(p)
    PROVE  /\ UNCHANGED <<mode, starting, start, faults>>
           /\ files' = files \/ (RemoveJobDir(p) /\ files' = {})
           /\ server' = server \/ (KillFinished(p) /\ op[p] = "reconcile")
           /\ \/ UNCHANGED <<session, runner>>
              \/ KillSession /\ \/ KillFinished(p) /\ Done(p)
                                \/ KillTerminated(p)
                                \/ CleanupJob(p)
           /\ \A q \in Callers : q # p =>
                  pc'[q] = pc[q] /\ op'[q] = op[q] /\ snap'[q] = snap[q] /\ seen'[q] = seen[q]
<1> USE DEF TypeOK, CallFrame, jobVars, procVars, Step, Idle
<1>1. ASSUME NEW o \in Ops \cup {"reconcile"}, Begin(p, o)
      PROVE  /\ UNCHANGED <<mode, starting, start, faults, files, server, session, runner>>
             /\ \A q \in Callers : q # p =>
                    pc'[q] = pc[q] /\ op'[q] = op[q] /\ snap'[q] = snap[q] /\ seen'[q] = seen[q]
    BY <1>1 DEF Begin
<1>2. CASE GetJob(p) BY <1>2 DEF GetJob
<1>3. CASE ListSessions(p) BY <1>3 DEF ListSessions
<1>4. CASE IsOutputPipeActive(p) BY <1>4 DEF IsOutputPipeActive
<1>5. CASE Materialize(p) BY <1>5 DEF Materialize, WriteRow
<1>6. CASE MaterializeLive(p) BY <1>6 DEF MaterializeLive, WriteRow
<1>7. CASE CheckPending(p) BY <1>7 DEF CheckPending
<1>8. CASE MaterializeLost(p) BY <1>8 DEF MaterializeLost, WriteRow
<1>9. CASE ReturnView(p) BY <1>9 DEF ReturnView
<1>10. CASE ContinueWithView(p) BY <1>10 DEF ContinueWithView
<1>11. CASE KillFinished(p) BY <1>11 DEF KillFinished
<1>12. CASE MarkTerminated(p) BY <1>12 DEF MarkTerminated
<1>13. CASE KillTerminated(p) BY <1>13 DEF KillTerminated
<1>14. CASE CleanupJob(p) BY <1>14 DEF CleanupJob
<1>15. CASE DeleteRow(p) BY <1>15 DEF DeleteRow
<1>16. CASE RemoveJobDir(p) BY <1>16 DEF RemoveJobDir
<1> QED BY <1>1, <1>2, <1>3, <1>4, <1>5, <1>6, <1>7, <1>8, <1>9, <1>10, <1>11,
           <1>12, <1>13, <1>14, <1>15, <1>16 DEF Call

\* What a fault does to the callers: nothing, one gives up, or all are gone.
LEMMA EnvironmentEffect ==
    ASSUME TypeOK, Environment
    PROVE  /\ UNCHANGED <<mode, row>>
           /\ faults' = faults + 1 /\ faults \in Nat
           /\ files \subseteq files'
           /\ "dir" \notin files => files' = files
           /\ \/ UNCHANGED <<starting, start, server, pc, op, snap, seen>>
              \/ ServerStops
              \/ (\E p \in Callers : TmuxQueryFails(p)) /\ "tmux" \in Faults
                 /\ UNCHANGED <<starting, start, session, runner>>
           /\ \/ UNCHANGED <<session, runner>>
              \/ /\ session' = IF session = "live" THEN "gone" ELSE session
                 /\ runner' = IF runner \in {"none", "exited"} THEN runner ELSE "dead"
              \/ runner \notin {"none", "exited"} /\ runner' = "dead" /\ session' = "gone"
<1> USE DEF TypeOK, Fault, jobVars, procVars, callVars, Put
<1>0. faults \in Nat
    BY ConstantsAssumption
<1>1. CASE ServerCrash BY <1>0, <1>1 DEF ServerCrash, ServerStops
<1>2. CASE SandboxCrash BY <1>0, <1>2 DEF SandboxCrash, ServerStops
<1>3. CASE RunnerDies BY <1>0, <1>3 DEF RunnerDies
<1>4. CASE PipeFails BY <1>0, <1>4 DEF PipeFails
<1>5. CASE FinalizerFails BY <1>0, <1>5 DEF FinalizerFails
<1>6. ASSUME NEW p \in Callers, TmuxQueryFails(p)
      PROVE  /\ "tmux" \in Faults /\ faults' = faults + 1
             /\ UNCHANGED <<mode, row, files, starting, start, session, runner>>
    BY <1>6 DEF TmuxQueryFails
<1> QED BY <1>0, <1>1, <1>2, <1>3, <1>4, <1>5, <1>6 DEF Environment

-----------------------------------------------------------------------------
(* The inductive invariant *)

\* RunJob has inserted the row.
Started == start \notin {"idle", "insert", "aborted"}

\* The gate is opened before RunJob returns a running job; startingJobs
\* brackets the start, so no poll reports the job as running before that.
GateInv ==
    /\ starting <=> start \notin {"idle", "aborted", "done", "dead"}
    /\ ~Started => row = NoRow
    /\ start = "cleanup" => row.status \notin Active
    /\ "dir" \in files =>
           /\ start \in {"running", "finish"} => "gate" \in files
           /\ start = "done" /\ row.status \in Active => "gate" \in files
    /\ row.status = "running" => start \in {"finish", "done", "dead"}

\* A caller is idle exactly when it performs nothing; one that is not holds a
\* row, which is active as long as the table's is. While the row is active,
\* nobody is past a kill, and DeleteJob only if it lost TerminateJob's error.
CallerOK(p) ==
    /\ pc[p] = "idle" => snap[p] = NoRow
    /\ pc[p] = "idle" <=> op[p] = "none"
    /\ pc[p] # "idle" => snap[p].status # "absent" /\ Started
    /\ row.status \in Active =>
           /\ snap[p].status \in Active \cup {"absent"}
           /\ op[p] \notin {"confirm", "force-confirm"}
           /\ pc[p] # "kill"
           /\ "tmux" \notin Faults => pc[p] \notin {"cleanup", "delete", "remove"}

CallerInv == \A p \in Callers : CallerOK(p)

\* Only Reconcile runs before the server is up, alone, and ends with it.
ServerOK(p) ==
    /\ server = "down" => pc[p] = "idle"
    /\ (pc[p] # "idle" /\ server # "up") <=> op[p] = "reconcile"
    /\ pc[p] \in {"mark", "kill"} => op[p] \in {"terminate", "force-terminate"}
    /\ op[p] = "reconcile" => pc[p] \in {"session", "pane", "artifacts", "live",
                                         "pending", "gone", "view"}
    /\ op[p] = "gc" => "gc" \in Ops

ServerInv ==
    /\ server # "up" => start \in {"idle", "aborted", "done", "dead"}
    /\ server # "up" => \A p, q \in Callers : pc[p] # "idle" /\ pc[q] # "idle" => p = q
    /\ \A p \in Callers : ServerOK(p)

Base == Inv /\ GateInv /\ CallerInv /\ ServerInv

-----------------------------------------------------------------------------
(* RunJob and the gate *)

LEMMA RunJobGate == Base /\ RunJob => GateInv'
<1> SUFFICES ASSUME Base, RunJob PROVE GateInv'
    OBVIOUS
<1>0. RunJobRow
    BY RunJobRowEffect DEF Base
<1>a. row' = row \/ InsertJob \/ MarkStarting \/ MarkRunning \/ MarkStartFailed
    BY <1>0 DEF RunJobRow
<1> USE DEF Base, GateInv, GoTo, Started, Put, jobVars, procVars, callVars
<1>1. CASE AllocateJobDir BY <1>1 DEF AllocateJobDir, NoRow
<1>2. CASE AbortAllocation BY <1>2 DEF AbortAllocation, NoRow
<1>3. CASE InsertJob BY <1>3 DEF InsertJob, NewRow
<1>4. CASE MarkStarting
    <2>1. row'.status # "running"
        BY <1>0, <1>4 DEF RunJobRow, MarkStarting, InsertJob, MarkRunning, MarkStartFailed
    <2> QED BY <1>4, <2>1 DEF MarkStarting
<1>5. CASE CreateJobSession BY <1>5 DEF CreateJobSession
<1>6. CASE CreateJobSessionFails BY <1>6 DEF CreateJobSessionFails
<1>7. CASE EnableOutputPipe BY <1>7 DEF EnableOutputPipe
<1>8. CASE EnableOutputPipeFails BY <1>8 DEF EnableOutputPipeFails
<1>9. CASE PipeIsReady BY <1>9 DEF PipeIsReady
<1>10. CASE PipeReadyTimeout BY <1>10 DEF PipeReadyTimeout
<1>11. CASE OpenStartGate BY <1>11 DEF OpenStartGate
<1>12. CASE MarkRunning BY <1>12 DEF MarkRunning
<1>13. CASE FinishStart BY <1>13 DEF FinishStart
<1>14. CASE MarkStartFailed
    <2>1. row'.status \notin Active
        BY <1>14, TransitionStatus DEF MarkStartFailed, Inv, TypeOK, Active
    <2> QED BY <1>14, <2>1 DEF MarkStartFailed, Active
<1>15. CASE CleanupFailedStart BY <1>15 DEF CleanupFailedStart, Active
<1> QED BY <1>1, <1>2, <1>3, <1>4, <1>5, <1>6, <1>7, <1>8, <1>9, <1>10,
           <1>11, <1>12, <1>13, <1>14, <1>15 DEF RunJob

\* The gate under a step that leaves RunJob alone: the row becomes running only
\* when the job is not being started, and active never.
LEMMA OthersGate ==
    ASSUME GateInv, UNCHANGED <<start, starting>>,
           files \subseteq files' \/ files' = {},
           "dir" \notin files => "dir" \notin files',
           row = NoRow => row' = NoRow,
           row'.status \in Active => row.status \in Active,
           row'.status = "running" => row.status = "running" \/ (row # NoRow /\ ~starting)
    PROVE  GateInv'
BY DEF GateInv, Started, Active

LEMMA CallGate ==
    ASSUME Base, NEW p \in Callers, Call(p)
    PROVE  GateInv'
<1>1. CallRow(p)
    BY CallRowEffect DEF Base
<1>2. /\ UNCHANGED <<start, starting>>
      /\ files' = files \/ files' = {}
    BY CallEffect DEF Base, Inv
<1>3. row = NoRow => row' = NoRow
    BY <1>1 DEF CallRow, NoRow, Active, MarkTerminated, Transition
<1>4. row'.status \in Active => row.status \in Active
    BY <1>1 DEF CallRow, NoRow, Active
<1>5. row'.status = "running" => row.status = "running" \/ (row # NoRow /\ ~starting)
    BY <1>1 DEF CallRow, NoRow
<1> QED BY <1>2, <1>3, <1>4, <1>5, OthersGate DEF Base

LEMMA StopGate == GateInv /\ ServerStops => GateInv'
BY DEF GateInv, ServerStops, Started

LEMMA NextGate == Base /\ [Next]_vars => GateInv'
<1> SUFFICES ASSUME Base, [Next]_vars PROVE GateInv'
    OBVIOUS
<1>0. GateInv /\ Inv /\ TypeOK
    BY DEF Base, Inv
<1>1. CASE Runner BY <1>0, <1>1, RunnerEffect, OthersGate DEF Active
<1>2. CASE Pipe
    BY <1>0, <1>2, PipeEffect, OthersGate DEF Active, NoRow
<1>3. CASE Environment
    BY <1>0, <1>3, EnvironmentEffect, OthersGate, StopGate
<1>4. CASE Restart
    BY <1>0, <1>4 DEF Restart, jobVars, GateInv, Started
<1>5. CASE UNCHANGED vars
    BY <1>0, <1>5 DEF vars, GateInv, Started
<1> QED BY <1>1, <1>2, <1>3, <1>4, <1>5, RunJobGate, CallGate DEF Next

-----------------------------------------------------------------------------
(* The callers and the server *)

LEMMA RunJobFrame ==
    ASSUME RunJob
    PROVE  /\ UNCHANGED <<mode, server, faults, pc, op, snap, seen>>
           /\ start \notin {"dead", "done", "aborted"} /\ start' # "dead"
           /\ Started => Started'
           /\ start = "idle" => server = "up"
<1>1. /\ UNCHANGED <<server, faults, callVars>>
      /\ \/ start = "idle" /\ start' = "insert" /\ server = "up"
         \/ start = "insert" /\ start' \in {"aborted", "mark"}
         \/ /\ start \in {"mark", "session", "pipe", "ready", "gate", "running",
                          "finish", "fail", "cleanup"}
            /\ start' \in {"session", "pipe", "ready", "gate", "running", "finish",
                           "fail", "cleanup", "done"}
    BY DEF RunJob, AllocateJobDir, AbortAllocation, InsertJob, MarkStarting,
           CreateJobSession, CreateJobSessionFails, EnableOutputPipe,
           EnableOutputPipeFails, PipeIsReady, PipeReadyTimeout, OpenStartGate,
           MarkRunning, FinishStart, MarkStartFailed, CleanupFailedStart, GoTo
<1>2. mode' = mode
    BY DEF RunJob, AllocateJobDir, AbortAllocation, InsertJob, MarkStarting,
           CreateJobSession, CreateJobSessionFails, EnableOutputPipe,
           EnableOutputPipeFails, PipeIsReady, PipeReadyTimeout, OpenStartGate,
           MarkRunning, FinishStart, MarkStartFailed, CleanupFailedStart, jobVars
<1> QED BY <1>1, <1>2 DEF callVars, Started

LEMMA RunJobCaller == Base /\ RunJob => CallerInv' /\ ServerInv'
<1> SUFFICES ASSUME Base, RunJob PROVE CallerInv' /\ ServerInv'
    OBVIOUS
<1>0. RunJobRow
    BY RunJobRowEffect DEF Base
<1>1. CallerInv'
    <2>1. CASE InsertJob
        <3>1. \A p \in Callers : pc[p] = "idle" /\ op[p] = "none" /\ snap[p] = NoRow
            BY <2>1 DEF InsertJob, GoTo, Base, CallerInv, CallerOK, Started
        <3>2. NoRow.status = "absent"
            BY DEF NoRow
        <3> QED BY <3>1, <3>2, RunJobFrame DEF CallerInv, CallerOK
    <2>2. CASE ~InsertJob
        <3>1. row'.status \in Active => row.status \in Active
            BY <1>0, <2>2 DEF RunJobRow, Active
        <3> QED BY <3>1, RunJobFrame DEF Base, CallerInv, CallerOK
    <2> QED BY <2>1, <2>2
<1>2. ServerInv'
    BY RunJobFrame DEF Base, ServerInv, ServerOK
<1> QED BY <1>1, <1>2

LEMMA CallCaller ==
    ASSUME Base, NEW p \in Callers, Call(p)
    PROVE  CallerInv'
<1>0. TypeOK /\ CallerInv /\ GateInv
    BY DEF Base, Inv
<1>1. row'.status \in Active => row.status \in Active
    BY CallRowEffect DEF Base, CallRow, NoRow, Active
<1>2. ASSUME NEW q \in Callers, q # p PROVE CallerOK(q)'
    BY <1>0, <1>1, <1>2, CallEffect DEF CallerInv, CallerOK, Started
<1>3. Started' <=> Started
    BY <1>0, CallEffect DEF Started
<1>4. pc[p] # "idle" => snap[p].status # "absent"
    BY <1>0 DEF CallerInv, CallerOK
<1>5. CallerOK(p)'
    <2> USE <1>0, <1>1, <1>3, <1>4 DEF TypeOK, CallerInv, CallerOK, Step, NoRow
    <2>1. ASSUME NEW o \in Ops \cup {"reconcile"}, Begin(p, o) PROVE CallerOK(p)'
        <3>1. o # "none" /\ o \notin {"confirm", "force-confirm"} /\ Started
            BY <2>1, ConstantsAssumption DEF AllOps, Begin, GateInv
        <3> QED BY <2>1, <3>1 DEF Begin
    <2>2. CASE GetJob(p) BY <2>2 DEF GetJob, Idle, Active
    <2>3. CASE ListSessions(p) BY <2>3 DEF ListSessions
    <2>4. CASE IsOutputPipeActive(p) BY <2>4 DEF IsOutputPipeActive
    <2>5. CASE Materialize(p) BY <2>5 DEF Materialize, WriteRow
    <2>6. CASE MaterializeLive(p) BY <2>6 DEF MaterializeLive, WriteRow
    <2>7. CASE CheckPending(p) BY <2>7 DEF CheckPending
    <2>8. CASE MaterializeLost(p) BY <2>8 DEF MaterializeLost, WriteRow
    <2>9. CASE ReturnView(p) BY <2>9 DEF ReturnView, Idle
    <2>10. CASE ContinueWithView(p)
        BY <2>10 DEF ContinueWithView, Done, Active, Terminal
    <2>11. CASE KillFinished(p)
        <3>1. CASE op[p] = "force-terminate"
            <4>1. Done(p) /\ pc[p] = "view" /\ Step(p, "view", "cleanup")
                  /\ UNCHANGED <<op, snap, row>>
                BY <2>11, <3>1 DEF KillFinished, jobVars
            <4>2. row.status \notin Active
                BY <4>1 DEF Done, Active, Terminal
            <4> QED BY <3>1, <4>1, <4>2
        <3>2. CASE Idle(p)
            BY <2>11, <3>2 DEF Idle
        <3> QED BY <2>11, <3>1, <3>2 DEF KillFinished
    <2>12. CASE MarkTerminated(p)
        <3>1. row'.status \notin Active
            BY <2>12, TransitionStatus DEF MarkTerminated, Active
        <3> QED BY <2>12, <3>1 DEF MarkTerminated
    <2>13. CASE KillTerminated(p) BY <2>13 DEF KillTerminated, jobVars
    <2>14. CASE CleanupJob(p) BY <2>14 DEF CleanupJob, jobVars
    <2>15. CASE DeleteRow(p) BY <2>15 DEF DeleteRow, Idle, Active
    <2>16. CASE RemoveJobDir(p) BY <2>16 DEF RemoveJobDir, Idle
    <2> QED BY <2>1, <2>2, <2>3, <2>4, <2>5, <2>6, <2>7, <2>8, <2>9, <2>10, <2>11,
               <2>12, <2>13, <2>14, <2>15, <2>16 DEF Call
<1> QED BY <1>2, <1>5 DEF CallerInv

LEMMA CallServer ==
    ASSUME Base, NEW p \in Callers, Call(p)
    PROVE  ServerInv'
<1>0. TypeOK /\ CallerInv /\ ServerInv
    BY DEF Base, Inv
<1>1. /\ server' = server \/ (KillFinished(p) /\ op[p] = "reconcile")
      /\ start' = start
      /\ \A q \in Callers : q # p => pc'[q] = pc[q] /\ op'[q] = op[q]
    BY <1>0, CallEffect
<1>2. \/ pc[p] # "idle"
      \/ pc[p] = "idle" /\ (server # "up" => \A q \in Callers : pc[q] = "idle")
    BY <1>0, ConstantsAssumption
    DEF Call, Begin, GetJob, ListSessions, IsOutputPipeActive, Materialize,
        MaterializeLive, CheckPending, MaterializeLost, ReturnView, ContinueWithView,
        KillFinished, MarkTerminated, KillTerminated, CleanupJob, DeleteRow, RemoveJobDir,
        Step, AllOps
<1>3. server' # "up" => \A q, r \in Callers : pc'[q] # "idle" /\ pc'[r] # "idle" => q = r
    BY <1>0, <1>1, <1>2 DEF ServerInv, KillFinished
<1>4. CASE KillFinished(p) /\ op[p] = "reconcile"
    <2>1. \A q \in Callers : q # p => pc[q] = "idle" /\ op[q] = "none"
        BY <1>0, <1>4 DEF ServerInv, ServerOK, CallerInv, CallerOK, KillFinished
    <2>2. pc'[p] = "idle" /\ op'[p] = "none" /\ server' = "up"
        BY <1>0, <1>4 DEF KillFinished, Idle, TypeOK
    <2> QED BY <1>0, <1>1, <2>1, <2>2 DEF ServerInv, ServerOK
<1>5. CASE server' = server
    <2>1. ASSUME NEW q \in Callers, q # p PROVE ServerOK(q)'
        BY <1>0, <1>1, <1>5, <2>1 DEF ServerInv, ServerOK
    <2>2. ServerOK(p)'
        <3> USE <1>0, <1>5 DEF TypeOK, ServerInv, ServerOK, Step
        <3>0. pc[p] = "idle" <=> op[p] = "none"
            BY DEF CallerInv, CallerOK
        <3>1. ASSUME NEW o \in Ops \cup {"reconcile"}, Begin(p, o) PROVE ServerOK(p)'
            BY <3>1, ConstantsAssumption DEF Begin, AllOps
        <3>2. CASE GetJob(p) BY <3>2 DEF GetJob, Idle
        <3>3. CASE ListSessions(p) BY <3>3 DEF ListSessions
        <3>4. CASE IsOutputPipeActive(p) BY <3>4 DEF IsOutputPipeActive
        <3>5. CASE Materialize(p) BY <3>5 DEF Materialize
        <3>6. CASE MaterializeLive(p) BY <3>6 DEF MaterializeLive
        <3>7. CASE CheckPending(p) BY <3>7 DEF CheckPending
        <3>8. CASE MaterializeLost(p) BY <3>8 DEF MaterializeLost
        <3>9. CASE ReturnView(p) BY <3>9 DEF ReturnView, Idle
        <3>10. CASE ContinueWithView(p) BY <3>10 DEF ContinueWithView
        <3>11. CASE KillFinished(p) BY <3>11, <3>0 DEF KillFinished, Idle
        <3>12. CASE MarkTerminated(p) BY <3>12 DEF MarkTerminated
        <3>13. CASE KillTerminated(p) BY <3>13 DEF KillTerminated
        <3>14. CASE CleanupJob(p) BY <3>14 DEF CleanupJob
        <3>15. CASE DeleteRow(p) BY <3>15 DEF DeleteRow, Idle
        <3>16. CASE RemoveJobDir(p) BY <3>16 DEF RemoveJobDir, Idle
        <3> QED BY <3>1, <3>2, <3>3, <3>4, <3>5, <3>6, <3>7, <3>8, <3>9, <3>10, <3>11,
                   <3>12, <3>13, <3>14, <3>15, <3>16 DEF Call
    <2> QED BY <1>0, <1>1, <1>3, <1>5, <2>1, <2>2 DEF ServerInv
<1> QED BY <1>1, <1>4, <1>5

LEMMA EnvironmentCaller == Base /\ Environment => CallerInv' /\ ServerInv'
<1> SUFFICES ASSUME Base, Environment PROVE CallerInv' /\ ServerInv'
    OBVIOUS
<1>0. TypeOK /\ CallerInv /\ ServerInv /\ UNCHANGED row
    BY EnvironmentEffect DEF Base, Inv
<1>1. CASE UNCHANGED <<start, server, pc, op, snap>>
    BY <1>0, <1>1 DEF CallerInv, CallerOK, ServerInv, ServerOK, Started
<1>2. CASE ServerStops
    BY <1>0, <1>2 DEF ServerStops, CallerInv, CallerOK, ServerInv, ServerOK, NoRow, Active
<1>3. ASSUME NEW p \in Callers, TmuxQueryFails(p) PROVE CallerInv' /\ ServerInv'
    <2>1. start' = start /\ "tmux" \in Faults /\ pc[p] \in {"session", "pane"}
        BY <1>3 DEF TmuxQueryFails, Fault
    <2>2. ASSUME NEW q \in Callers PROVE CallerOK(q)'
        <3> USE <1>0, <2>1, <2>2 DEF CallerInv, CallerOK, Started, TypeOK
        <3>1. CASE Idle(p)
            BY <3>1 DEF Idle, NoRow
        <3>2. CASE pc' = [pc EXCEPT ![p] = "cleanup"] /\ UNCHANGED <<op, snap, seen>>
            BY <3>2
        <3> QED BY <1>3, <3>1, <3>2 DEF TmuxQueryFails
    <2>3. CASE op[p] = "reconcile"
        <3>1. \A q \in Callers : pc'[q] = "idle" /\ op'[q] = "none"
            BY <1>0, <1>3, <2>3 DEF TmuxQueryFails, Idle, TypeOK, CallerInv, CallerOK,
                                    ServerInv, ServerOK
        <3>2. server' = "down" /\ server # "up"
            BY <1>0, <1>3, <2>1, <2>3 DEF TmuxQueryFails, ServerInv, ServerOK
        <3> QED BY <1>0, <2>1, <2>2, <3>1, <3>2 DEF CallerInv, ServerInv, ServerOK
    <2>4. CASE op[p] # "reconcile"
        <3>1. server' = server /\ server = "up"
            BY <1>0, <1>3, <2>1, <2>4 DEF TmuxQueryFails, ServerInv, ServerOK
        <3>2. ASSUME NEW q \in Callers PROVE ServerOK(q)'
            BY <1>0, <1>3, <2>1, <2>4, <3>1 DEF TmuxQueryFails, Idle, TypeOK, ServerInv, ServerOK
        <3> QED BY <2>2, <3>1, <3>2 DEF CallerInv, ServerInv
    <2> QED BY <2>3, <2>4
<1> QED BY <1>0, <1>1, <1>2, <1>3, EnvironmentEffect

LEMMA NextBase == Base /\ [Next]_vars => Base'
<1> SUFFICES ASSUME Base, [Next]_vars PROVE CallerInv' /\ ServerInv'
    BY NextInv, NextGate DEF Base
<1>0. CallerInv /\ ServerInv /\ Inv
    BY DEF Base
<1>1. CASE Runner BY <1>0, <1>1, RunnerEffect DEF CallerInv, CallerOK, ServerInv, ServerOK, Started
<1>2. CASE Pipe
    BY <1>0, <1>2, PipeEffect DEF CallerInv, CallerOK, ServerInv, ServerOK, Started, Active
<1>3. CASE Restart
    BY <1>0, <1>3 DEF Restart, jobVars, callVars, CallerInv, CallerOK, ServerInv, ServerOK, Started
<1>4. CASE UNCHANGED vars
    BY <1>0, <1>4 DEF vars, CallerInv, CallerOK, ServerInv, ServerOK, Started
<1> QED BY <1>1, <1>2, <1>3, <1>4, RunJobCaller, CallCaller, CallServer,
           EnvironmentCaller DEF Next

LEMMA InitBase == Init => Base
BY InitInv DEF Init, Base, GateInv, CallerInv, CallerOK, ServerInv, ServerOK, Started, NoRow, Active

THEOREM BaseCorrect == Spec => []Base
<1> QED BY InitBase, NextBase, PTL DEF Spec

\* A running job whose directory is there has had its start gate opened,
\* unless the server crashed during its start: for all callers and faults.
THEOREM GateOpenWhenRunning == Spec => []RunningMeansGateOpen
<1>1. Base => RunningMeansGateOpen
    BY DEF Base, GateInv, RunningMeansGateOpen, Active
<1> QED BY <1>1, BaseCorrect, PTL

\* No step but InsertJob makes the row active.
LEMMA ActiveOnlyInserted ==
    ASSUME Base, [Next]_vars, row'.status \in Active
    PROVE  row.status \in Active \/ InsertJob
<1> USE DEF Base, Inv
<1>1. CASE RunJob BY <1>1, RunJobRowEffect DEF RunJobRow, Active
<1>2. CASE Runner BY <1>2, RunnerEffect
<1>3. CASE Pipe BY <1>3, PipeEffect DEF Active
<1>4. ASSUME NEW p \in Callers, Call(p) PROVE row.status \in Active
    BY <1>4, CallRowEffect DEF CallRow, NoRow, Active
<1>5. CASE Environment BY <1>5, EnvironmentEffect
<1>6. CASE Restart \/ UNCHANGED vars BY <1>6 DEF Restart, jobVars, vars
<1> QED BY <1>1, <1>2, <1>3, <1>4, <1>5, <1>6 DEF Next

\* DeleteJob and GCOnce remove finished rows only, unless a tmux query fails:
\* DeleteJob drops the error of the TerminateJob it calls and goes on.
THEOREM RemovedRowsFinished ==
    ASSUME "tmux" \notin Faults PROVE Spec => OnlyFinishedRowsRemoved
<1>1. ASSUME Base, [Next]_vars, row.status # "absent", row'.status = "absent"
      PROVE  row.status \in Terminal
    <2> USE <1>1 DEF Base, Inv
    <2>1. row.status \in Statuses
        BY DEF TypeOK, Rows
    <2>2. PICK p \in Callers : Call(p)
        <3>1. CASE RunJob
            BY <3>1, RunJobRowEffect DEF RunJobRow, InsertJob, NewRow, NoRow
        <3>2. CASE Runner BY <3>2, RunnerEffect
        <3>3. CASE Pipe BY <3>3, PipeEffect
        <3>4. CASE Environment BY <3>4, EnvironmentEffect
        <3>5. CASE Restart \/ UNCHANGED vars BY <3>5 DEF Restart, jobVars, vars
        <3> QED BY <3>1, <3>2, <3>3, <3>4, <3>5 DEF Next
    <2>3. pc[p] = "delete"
        BY <2>2, CallRowEffect, TransitionStatus
        DEF CallRow, MarkTerminated, TypeOK
    <2>4. row.status \notin Active
        BY <2>3 DEF CallerInv, CallerOK
    <2> QED BY <2>1, <2>4 DEF Statuses
<1>2. Base /\ [Next]_vars =>
          [row.status # "absent" /\ row'.status = "absent" => row.status \in Terminal]_vars
    BY <1>1
<1> QED BY <1>2, BaseCorrect, PTL DEF Spec, OnlyFinishedRowsRemoved

-----------------------------------------------------------------------------
(* A start nobody disturbs *)

BeforeSession == start \in {"idle", "insert", "mark", "session"}

Harmless(p) ==
    /\ op[p] \in {"none", "gc"}
    /\ snap[p].status \in {"absent", "created", "starting"}
    /\ pc[p] \notin {"row", "mark", "kill", "cleanup", "delete", "remove"}

\* If no client addresses the job before RunJob has returned, only the
\* collector may look at it before the session is there, and changes nothing.
StartUndisturbed ==
    ~EarlyCalls /\ BeforeSession =>
        /\ start \in {"mark", "session"} => row.status \in {"created", "starting"}
        /\ \A p \in Callers : Harmless(p)

LEMMA CallUndisturbed ==
    ASSUME Base, StartUndisturbed, NEW p \in Callers, Call(p), ~EarlyCalls, BeforeSession
    PROVE  row' = row /\ Harmless(p)'
<1>0. TypeOK /\ Harmless(p) /\ CallerOK(p) /\ GateInv /\ Consistent(snap[p])
    BY DEF Base, Inv, ExitEvidence, StartUndisturbed, CallerInv
<1>1. ~CompletedExit
    BY DEF CompletedExit, Artifacts, Base, Inv, ExitEvidence, BeforeSession, ScriptEnded
<1>2. start \notin {"finish", "done", "dead"} /\ row.status # "running"
    BY <1>0 DEF BeforeSession, GateInv
<1>3. pc[p] # "idle" => /\ snap[p].status \in {"created", "starting"}
                        /\ snap[p].exit = NoCode /\ starting
    BY <1>0 DEF Harmless, CallerOK, Started, GateInv, BeforeSession, Consistent, Terminal
<1> USE <1>0 DEF Harmless, TypeOK, Step
<1>4. ASSUME NEW o \in Ops \cup {"reconcile"}, Begin(p, o)
      PROVE  row' = row /\ Harmless(p)'
    <2>1. server = "up"
        BY <1>4, <1>2 DEF Begin, Base, ServerInv, BeforeSession, GateInv, Started, NoRow
    <2>2. o = "gc"
        BY <1>4, <1>2, <2>1, ConstantsAssumption DEF Begin, MayCall, AllOps
    <2>3. row.status \in {"created", "starting"}
        BY <1>4, <1>2 DEF Begin, Rows, Statuses, GateInv, Started, NoRow, BeforeSession,
                     StartUndisturbed
    <2> QED BY <1>4, <2>2, <2>3 DEF Begin
<1>5. CASE ListSessions(p) BY <1>5 DEF ListSessions
<1>6. CASE IsOutputPipeActive(p) BY <1>6 DEF IsOutputPipeActive
<1>7. CASE Materialize(p)
    BY <1>1, <1>3, <1>7 DEF Materialize, Active, Terminal
<1>8. CASE MaterializeLive(p) BY <1>3, <1>8 DEF MaterializeLive
<1>9. CASE CheckPending(p) BY <1>9 DEF CheckPending
<1>10. CASE MaterializeLost(p) BY <1>3, <1>10 DEF MaterializeLost
<1>11. CASE ReturnView(p) BY <1>11 DEF ReturnView, Idle, NoRow
<1>12. CASE ContinueWithView(p)
    BY <1>3, <1>12 DEF ContinueWithView, Done, Terminal
<1>13. ~GetJob(p) /\ ~MarkTerminated(p) /\ ~KillTerminated(p) /\ ~CleanupJob(p)
       /\ ~DeleteRow(p) /\ ~RemoveJobDir(p) /\ ~KillFinished(p)
    BY DEF GetJob, MarkTerminated, KillTerminated, CleanupJob, DeleteRow, RemoveJobDir,
           KillFinished
<1> QED BY <1>4, <1>5, <1>6, <1>7, <1>8, <1>9, <1>10, <1>11, <1>12, <1>13 DEF Call

LEMMA NextUndisturbed ==
    ASSUME Base, StartUndisturbed, [Next]_vars
    PROVE  StartUndisturbed'
<1> SUFFICES ASSUME ~EarlyCalls, BeforeSession'
             PROVE  /\ start' \in {"mark", "session"} => row'.status \in {"created", "starting"}
                    /\ \A p \in Callers : Harmless(p)'
    BY DEF StartUndisturbed
<1>0. Inv /\ TypeOK /\ RowConsistent
    BY DEF Base, Inv
<1>1. CASE RunJob
    <2>1. BeforeSession /\ UNCHANGED <<pc, op, snap>>
        BY <1>1, RunJobFrame
        DEF RunJob, AllocateJobDir, AbortAllocation, InsertJob, MarkStarting,
            CreateJobSession, CreateJobSessionFails, EnableOutputPipe,
            EnableOutputPipeFails, PipeIsReady, PipeReadyTimeout, OpenStartGate,
            MarkRunning, FinishStart, MarkStartFailed, CleanupFailedStart, GoTo, BeforeSession
    <2>2. start' \in {"mark", "session"} => row'.status \in {"created", "starting"}
        <3>1. CASE InsertJob BY <3>1 DEF InsertJob, NewRow
        <3>2. CASE MarkStarting
            BY <2>1, <3>2 DEF MarkStarting, GoTo, Transition, StartUndisturbed
        <3> QED BY <1>1, <2>1, <3>1, <3>2
            DEF RunJob, AllocateJobDir, AbortAllocation,
                CreateJobSession, CreateJobSessionFails, EnableOutputPipe,
                EnableOutputPipeFails, PipeIsReady, PipeReadyTimeout, OpenStartGate,
                MarkRunning, FinishStart, MarkStartFailed, CleanupFailedStart, GoTo
    <2> QED BY <2>1, <2>2 DEF StartUndisturbed, Harmless
<1>2. CASE Runner
    BY <1>0, <1>2, RunnerEffect DEF Inv, ExitEvidence, BeforeSession
<1>3. CASE Pipe
    BY <1>0, <1>3, PipeEffect DEF Inv, ExitEvidence, BeforeSession
<1>4. ASSUME NEW p \in Callers, Call(p)
      PROVE  /\ start' \in {"mark", "session"} => row'.status \in {"created", "starting"}
             /\ \A q \in Callers : Harmless(q)'
    <2>1. BeforeSession /\ start' = start
        BY <1>0, <1>4, CallEffect DEF BeforeSession
    <2>2. row' = row /\ Harmless(p)'
        BY <1>4, <2>1, CallUndisturbed
    <2>3. \A q \in Callers : q # p => Harmless(q)'
        BY <1>0, <1>4, <2>1, CallEffect DEF StartUndisturbed, Harmless
    <2> QED BY <2>1, <2>2, <2>3 DEF StartUndisturbed
<1>5. CASE Environment
    <2>1. CASE UNCHANGED <<start, pc, op, snap>>
        BY <1>0, <1>5, <2>1, EnvironmentEffect DEF StartUndisturbed, Harmless, BeforeSession
    <2>2. CASE ServerStops
        BY <2>2 DEF ServerStops, Harmless, NoRow, BeforeSession
    <2>3. ASSUME NEW p \in Callers, TmuxQueryFails(p), UNCHANGED start
          PROVE  /\ start' \in {"mark", "session"} => row'.status \in {"created", "starting"}
                 /\ \A q \in Callers : Harmless(q)'
        <3>1. \A q \in Callers : Harmless(q)
            BY <2>3 DEF StartUndisturbed, BeforeSession
        <3>2. Idle(p) /\ row' = row
            BY <2>3, <3>1 DEF TmuxQueryFails, Harmless, jobVars
        <3>3. \A q \in Callers : Harmless(q)'
            BY <1>0, <3>1, <3>2 DEF Idle, Harmless, TypeOK, NoRow
        <3> QED BY <2>3, <3>2, <3>3 DEF StartUndisturbed, BeforeSession
    <2> QED BY <1>0, <1>5, <2>1, <2>2, <2>3, EnvironmentEffect
<1>6. CASE Restart \/ UNCHANGED vars
    BY <1>6 DEF Restart, jobVars, callVars, vars, StartUndisturbed, Harmless, BeforeSession
<1> QED BY <1>1, <1>2, <1>3, <1>4, <1>5, <1>6 DEF Next

Undisturbed == Base /\ StartUndisturbed

LEMMA NextUndisturbedBase == Undisturbed /\ [Next]_vars => Undisturbed'
BY NextBase, NextUndisturbed DEF Undisturbed

LEMMA InitUndisturbed == Init => Undisturbed
BY InitBase DEF Init, Undisturbed, StartUndisturbed, Harmless, NoRow

\* A session is created once, by RunJob, and then only ever goes.
LEMMA LiveOnlyCreated ==
    ASSUME Base, [Next]_vars, session' = "live", ~CreateJobSession
    PROVE  session = "live"
<1>0. TypeOK
    BY DEF Base, Inv
<1>1. CASE RunJob
    BY <1>1 DEF RunJob, AllocateJobDir, AbortAllocation, InsertJob, MarkStarting,
                CreateJobSessionFails, EnableOutputPipe, EnableOutputPipeFails,
                PipeIsReady, PipeReadyTimeout, OpenStartGate, MarkRunning, FinishStart,
                MarkStartFailed, CleanupFailedStart, KillSession, procVars, jobVars
<1>2. CASE Runner BY <1>2, RunnerEffect
<1>3. CASE Pipe BY <1>0, <1>3, PipeEffect DEF Base
<1>4. ASSUME NEW p \in Callers, Call(p) PROVE session = "live"
    BY <1>0, <1>4, CallEffect DEF KillSession
<1>5. CASE Environment BY <1>0, <1>5, EnvironmentEffect DEF ServerStops
<1>6. CASE Restart \/ UNCHANGED vars BY <1>6 DEF Restart, procVars, vars
<1> QED BY <1>1, <1>2, <1>3, <1>4, <1>5, <1>6 DEF Next

\* A caller that is not idle afterwards holds the row it held, or the present one.
LEMMA CallSnap ==
    ASSUME TypeOK, NEW p \in Callers, Call(p)
    PROVE  pc'[p] = "idle" \/ snap'[p] = snap[p] \/ snap'[p] = row'
<1> USE DEF TypeOK, WriteRow, Idle
<1>1. ASSUME NEW o \in Ops \cup {"reconcile"}, Begin(p, o) PROVE snap'[p] = row'
    BY <1>1 DEF Begin
<1>2. CASE GetJob(p) BY <1>2 DEF GetJob
<1>3. CASE Materialize(p) BY <1>3 DEF Materialize
<1>4. CASE MaterializeLive(p) BY <1>4 DEF MaterializeLive
<1>5. CASE MaterializeLost(p) BY <1>5 DEF MaterializeLost
<1>6. CASE DeleteRow(p) BY <1>6 DEF DeleteRow
<1>7. CASE KillFinished(p) BY <1>7 DEF KillFinished
<1>8. CASE ReturnView(p) \/ RemoveJobDir(p) BY <1>8 DEF ReturnView, RemoveJobDir
<1>9. CASE UNCHANGED snap BY <1>9
<1> QED BY <1>1, <1>2, <1>3, <1>4, <1>5, <1>6, <1>7, <1>8, <1>9
    DEF Call, ListSessions, IsOutputPipeActive, CheckPending, ContinueWithView,
        MarkTerminated, KillTerminated, CleanupJob

-----------------------------------------------------------------------------
(* A terminated job is stopped *)

\* As long as the session of a terminated job lives, the TerminateJob that
\* marked it is before its kill, or the server is down and the reconciliation
\* will find the job terminated.
TerminationPending ==
    ~EarlyCalls /\ row.status = "terminated" /\ session = "live" =>
        \/ \E p \in Callers : pc[p] = "kill"
        \/ server # "up" /\ \A p \in Callers : pc[p] # "idle" => snap[p].status = "terminated"

LEMMA CallTermination ==
    ASSUME Undisturbed, TerminationPending, NEW p \in Callers, Call(p)
    PROVE  TerminationPending'
<1> SUFFICES ASSUME ~EarlyCalls, row'.status = "terminated", session' = "live"
             PROVE  \/ \E q \in Callers : pc'[q] = "kill"
                    \/ server' # "up" /\ \A q \in Callers :
                                             pc'[q] # "idle" => snap'[q].status = "terminated"
    BY DEF TerminationPending
<1>0. TypeOK /\ Base /\ Inv /\ ServerInv /\ CallerInv
    BY DEF Undisturbed, Base, Inv
<1>1. /\ UNCHANGED session
      /\ ~(KillFinished(p) /\ Done(p)) /\ ~KillTerminated(p) /\ ~CleanupJob(p)
      /\ \A q \in Callers : q # p => pc'[q] = pc[q] /\ op'[q] = op[q] /\ snap'[q] = snap[q]
    <2>1. ~KillSession
        BY DEF KillSession
    <2> QED BY <1>0, <2>1, CallEffect DEF KillFinished, KillTerminated, CleanupJob
<1>2. CASE MarkTerminated(p)
    BY <1>0, <1>2 DEF MarkTerminated, Step, TypeOK
<1>3. CASE ~MarkTerminated(p)
    <2>1. row.status = "terminated" /\ session = "live"
        BY <1>0, <1>1, <1>3, CallRowEffect DEF CallRow, NoRow
    <2>2. ASSUME NEW q \in Callers, pc[q] = "kill" PROVE pc'[q] = "kill"
        <3>1. CASE q # p BY <1>1, <3>1, <2>2
        <3>2. CASE q = p
            BY <1>1, <1>3, <2>2, <3>2
            DEF Call, Begin, GetJob, ListSessions, IsOutputPipeActive, Materialize,
                MaterializeLive, CheckPending, MaterializeLost, ReturnView,
                ContinueWithView, KillFinished, MarkTerminated, DeleteRow, RemoveJobDir, Step
        <3> QED BY <3>1, <3>2
    <2>3. ASSUME server # "up", \A q \in Callers : pc[q] # "idle" => snap[q].status = "terminated"
          PROVE  server' # "up" /\ \A q \in Callers :
                                       pc'[q] # "idle" => snap'[q].status = "terminated"
        <3>1. ~(KillFinished(p) /\ op[p] = "reconcile")
            BY <1>1, <2>3 DEF KillFinished, Done, Terminal
        <3>2. server' = server
            BY <1>0, <3>1, CallEffect
        <3>3. pc'[p] # "idle" => snap'[p].status = "terminated"
            <4>1. CASE pc[p] = "idle"
                <5>1. PICK o \in Ops \cup {"reconcile"} : Begin(p, o)
                    BY <4>1 DEF Call, GetJob, ListSessions, IsOutputPipeActive, Materialize,
                                MaterializeLive, CheckPending, MaterializeLost, ReturnView,
                                ContinueWithView, KillFinished, MarkTerminated,
                                KillTerminated, CleanupJob, DeleteRow, RemoveJobDir, Step
                <5> QED BY <1>0, <2>1, <5>1 DEF Begin, TypeOK
            <4>2. CASE pc[p] # "idle"
                BY <1>0, <2>3, <4>2, CallSnap
            <4> QED BY <4>1, <4>2
        <3> QED BY <1>1, <2>3, <3>2, <3>3
    <2> QED BY <2>1, <2>2, <2>3 DEF TerminationPending
<1> QED BY <1>2, <1>3

LEMMA NextTermination ==
    ASSUME Undisturbed, TerminationPending, [Next]_vars
    PROVE  TerminationPending'
<1> SUFFICES ASSUME ~EarlyCalls, row'.status = "terminated", session' = "live",
                    ~ \E p \in Callers : Call(p)
             PROVE  \/ \E q \in Callers : pc'[q] = "kill"
                    \/ server' # "up" /\ \A q \in Callers :
                                             pc'[q] # "idle" => snap'[q].status = "terminated"
    BY CallTermination DEF TerminationPending
<1>0. TypeOK /\ Base /\ Inv /\ ServerInv /\ CallerInv /\ row \in Rows
    BY DEF Undisturbed, Base, Inv, TypeOK
<1>1. ~CreateJobSession
    BY DEF CreateJobSession, GoTo, jobVars, Undisturbed, StartUndisturbed, BeforeSession
<1>2. session = "live"
    BY <1>0, <1>1, LiveOnlyCreated
<1>3. row.status = "terminated"
    <2>1. CASE RunJob
        BY <1>0, <2>1, RunJobRowEffect DEF RunJobRow, InsertJob, NewRow, NoRow
    <2>2. CASE Runner BY <2>2, RunnerEffect
    <2>3. CASE Pipe BY <1>0, <2>3, PipeEffect
    <2>4. CASE Environment BY <1>0, <2>4, EnvironmentEffect
    <2>5. CASE Restart \/ UNCHANGED vars BY <2>5 DEF Restart, jobVars, vars
    <2> QED BY <2>1, <2>2, <2>3, <2>4, <2>5 DEF Next
<1>4. CASE UNCHANGED <<server, pc, snap>>
    BY <1>2, <1>3, <1>4 DEF TerminationPending
<1>5. CASE ServerStops
    BY <1>5 DEF ServerStops
<1>6. ASSUME NEW p \in Callers, TmuxQueryFails(p)
      PROVE  \/ \E q \in Callers : pc'[q] = "kill"
             \/ server' # "up" /\ \A q \in Callers :
                                      pc'[q] # "idle" => snap'[q].status = "terminated"
    <2>1. pc[p] \in {"session", "pane"}
          /\ \A q \in Callers : q # p => pc'[q] = pc[q] /\ snap'[q] = snap[q]
        BY <1>0, <1>6 DEF TmuxQueryFails, Idle, TypeOK
    <2>2. ASSUME server # "up"
          PROVE  server' # "up" /\ \A q \in Callers : pc'[q] = "idle"
        <3>1. op[p] = "reconcile" /\ \A q \in Callers : q # p => pc[q] = "idle"
            BY <1>0, <2>1, <2>2 DEF ServerInv, ServerOK
        <3> QED BY <1>0, <1>6, <2>1, <3>1 DEF TmuxQueryFails, Idle, TypeOK
    <2> QED BY <1>2, <1>3, <2>1, <2>2 DEF TerminationPending
<1>7. CASE Restart
    <2>1. \A p \in Callers : pc'[p] = "idle"
        BY <1>0, <1>7 DEF Restart, callVars, ServerInv, ServerOK
    <2>2. server' # "up"
        BY <1>3, <1>7 DEF Restart
    <2> QED BY <2>1, <2>2
<1>8. CASE RunJob \/ Runner \/ Pipe
    BY <1>0, <1>4, <1>8, RunJobFrame, RunnerEffect, PipeEffect
<1>9. CASE Environment
    BY <1>0, <1>4, <1>5, <1>6, <1>9, EnvironmentEffect
<1>10. CASE UNCHANGED vars
    BY <1>4, <1>10 DEF vars
<1> QED BY <1>7, <1>8, <1>9, <1>10 DEF Next

\* Once TerminateJob is past its kill, a terminated job has no session, also
\* when the server crashed in between; clients know the job from RunJob's answer.
THEOREM TerminatedIsStopped ==
    ASSUME ~EarlyCalls PROVE Spec => []TerminatedMeansStopped
<1>1. Init => Undisturbed /\ TerminationPending
    BY InitUndisturbed DEF Init, TerminationPending
<1>2. Undisturbed /\ TerminationPending /\ [Next]_vars => (Undisturbed /\ TerminationPending)'
    BY NextUndisturbedBase, NextTermination
<1>3. TerminationPending => TerminatedMeansStopped
    BY DEF TerminationPending, TerminatedMeansStopped
<1> QED BY <1>1, <1>2, <1>3, PTL DEF Spec

-----------------------------------------------------------------------------
(* A deleted job leaves nothing *)

\* A row is deleted only after the session has been killed, and the directory
\* is removed by the one that deleted the row, unless a process dies meanwhile.
DeletionComplete ==
    /\ ~EarlyCalls =>
           /\ row.status = "absent" => session # "live"
           /\ \A p \in Callers : pc[p] \in {"delete", "remove"} => session # "live"
    /\ faults = 0 /\ row.status = "absent" /\ Started =>
           files = {} \/ \E p \in Callers : pc[p] = "remove"

\* Once the directory of a started job is gone, nothing comes into it.
LEMMA EmptyStaysEmpty ==
    ASSUME Base, [Next]_vars, Started, files = {}
    PROVE  files' = {}
<1>0. TypeOK /\ "dir" \notin files
    BY DEF Base, Inv
<1>1. CASE RunJob
    BY <1>0, <1>1
    DEF RunJob, AllocateJobDir, AbortAllocation, InsertJob, MarkStarting,
        CreateJobSession, CreateJobSessionFails, EnableOutputPipe, EnableOutputPipeFails,
        PipeIsReady, PipeReadyTimeout, OpenStartGate, MarkRunning, FinishStart,
        MarkStartFailed, CleanupFailedStart, GoTo, jobVars, Started, Put
<1>2. CASE Runner BY <1>0, <1>2, RunnerEffect
<1>3. CASE Pipe BY <1>0, <1>3, PipeEffect DEF Base
<1>4. ASSUME NEW p \in Callers, Call(p) PROVE files' = {}
    BY <1>0, <1>4, CallEffect
<1>5. CASE Environment BY <1>0, <1>5, EnvironmentEffect
<1>6. CASE Restart \/ UNCHANGED vars BY <1>6 DEF Restart, jobVars, vars
<1> QED BY <1>1, <1>2, <1>3, <1>4, <1>5, <1>6 DEF Next

\* Only a deletion makes the row absent, and only the kill leads to a deletion.
LEMMA CallDeletes ==
    ASSUME Base, NEW p \in Callers, Call(p)
    PROVE  /\ row'.status = "absent" =>
                  row.status = "absent" \/ (pc[p] = "delete" /\ pc'[p] = "remove")
           /\ pc'[p] \in {"delete", "remove"} =>
                  pc[p] = "delete" \/ (CleanupJob(p) /\ session' # "live")
           /\ pc[p] = "remove" => files' = {}
<1>0. TypeOK /\ row \in Rows
    BY DEF Base, Inv, TypeOK
<1>1. ASSUME row'.status = "absent", row.status # "absent"
      PROVE  pc[p] = "delete" /\ pc'[p] = "remove"
    <2>1. pc[p] = "delete"
        BY <1>0, <1>1, CallRowEffect, TransitionStatus DEF Base, CallRow, MarkTerminated
    <2>2. DeleteRow(p)
        BY <2>1
        DEF Call, Begin, GetJob, ListSessions, IsOutputPipeActive, Materialize,
            MaterializeLive, CheckPending, MaterializeLost, ReturnView, ContinueWithView,
            KillFinished, MarkTerminated, KillTerminated, CleanupJob, RemoveJobDir, Step
    <2> QED BY <1>0, <1>1, <2>1, <2>2 DEF DeleteRow, Step, TypeOK
<1>2. ASSUME pc'[p] \in {"delete", "remove"}
      PROVE  pc[p] = "delete" \/ (CleanupJob(p) /\ session' # "live")
    BY <1>0, <1>2
    DEF Call, Begin, GetJob, ListSessions, IsOutputPipeActive, Materialize,
        MaterializeLive, CheckPending, MaterializeLost, ReturnView, ContinueWithView,
        KillFinished, MarkTerminated, KillTerminated, CleanupJob, DeleteRow, RemoveJobDir,
        KillSession, Step, Idle, TypeOK
<1>3. ASSUME pc[p] = "remove" PROVE files' = {}
    BY <1>3
    DEF Call, Begin, GetJob, ListSessions, IsOutputPipeActive, Materialize,
        MaterializeLive, CheckPending, MaterializeLost, ReturnView, ContinueWithView,
        KillFinished, MarkTerminated, KillTerminated, CleanupJob, DeleteRow, RemoveJobDir, Step
<1> QED BY <1>1, <1>2, <1>3

LEMMA AbsentOnlyDeleted ==
    ASSUME Base, [Next]_vars, row'.status = "absent", ~ \E p \in Callers : Call(p)
    PROVE  row.status = "absent"
<1> USE DEF Base, Inv
<1>1. CASE RunJob BY <1>1, RunJobRowEffect DEF RunJobRow, InsertJob, NewRow, NoRow
<1>2. CASE Runner BY <1>2, RunnerEffect
<1>3. CASE Pipe BY <1>3, PipeEffect
<1>4. CASE Environment BY <1>4, EnvironmentEffect
<1>5. CASE Restart \/ UNCHANGED vars BY <1>5 DEF Restart, jobVars, vars
<1> QED BY <1>1, <1>2, <1>3, <1>4, <1>5 DEF Next

\* Steps other than the callers' begin no deletion.
LEMMA OthersBeginNoDeletion ==
    ASSUME Base, [Next]_vars, ~ \E p \in Callers : Call(p), NEW p \in Callers
    PROVE  /\ pc'[p] = pc[p] \/ pc'[p] \in {"idle", "cleanup"}
           /\ pc'[p] = pc[p] \/ faults' # 0
<1>0. TypeOK
    BY DEF Base, Inv
<1>1. CASE RunJob BY <1>1, RunJobFrame
<1>2. CASE Runner BY <1>2, RunnerEffect
<1>3. CASE Pipe BY <1>3, PipeEffect DEF Base
<1>4. CASE Environment
    <2>1. faults' # 0
        BY <1>0, <1>4, EnvironmentEffect
    <2>2. ASSUME NEW q \in Callers, TmuxQueryFails(q)
          PROVE  pc'[p] = pc[p] \/ pc'[p] \in {"idle", "cleanup"}
        BY <1>0, <2>2 DEF TmuxQueryFails, Idle, TypeOK
    <2> QED BY <1>0, <1>4, <2>1, <2>2, EnvironmentEffect DEF ServerStops
<1>5. CASE Restart \/ UNCHANGED vars BY <1>5 DEF Restart, callVars, vars
<1> QED BY <1>1, <1>2, <1>3, <1>4, <1>5 DEF Next

LEMMA NextDeletion ==
    ASSUME Undisturbed, DeletionComplete, [Next]_vars
    PROVE  DeletionComplete'
<1>0. TypeOK /\ Base /\ GateInv
    BY DEF Undisturbed, Base, Inv
<1>1. ASSUME ~EarlyCalls
      PROVE  /\ row'.status = "absent" => session' # "live"
             /\ \A p \in Callers : pc'[p] \in {"delete", "remove"} => session' # "live"
    <2>1. CASE CreateJobSession
        BY <1>1, <2>1 DEF CreateJobSession, GoTo, jobVars, callVars,
                          Undisturbed, StartUndisturbed, Harmless, BeforeSession
    <2>2. CASE ~CreateJobSession
        <3>1. session' = "live" => session = "live"
            BY <1>0, <2>2, LiveOnlyCreated
        <3>2. CASE ~ \E p \in Callers : Call(p)
            BY <1>0, <1>1, <3>1, <3>2, AbsentOnlyDeleted, OthersBeginNoDeletion
            DEF DeletionComplete
        <3>3. ASSUME NEW p \in Callers, Call(p)
              PROVE  /\ row'.status = "absent" => session' # "live"
                     /\ \A q \in Callers : pc'[q] \in {"delete", "remove"} => session' # "live"
            <4>1. \A q \in Callers : q # p => pc'[q] = pc[q]
                BY <1>0, <3>3, CallEffect
            <4> QED BY <1>0, <1>1, <3>1, <3>3, <4>1, CallDeletes DEF DeletionComplete
        <3> QED BY <3>2, <3>3
    <2> QED BY <2>1, <2>2
<1>2. ASSUME faults' = 0, row'.status = "absent", Started'
      PROVE  files' = {} \/ \E p \in Callers : pc'[p] = "remove"
    <2>1. CASE ~ \E p \in Callers : Call(p)
        <3>1. row.status = "absent"
            BY <1>0, <1>2, <2>1, AbsentOnlyDeleted
        <3>2. Started /\ faults = 0
            <4>1. CASE RunJob
                <5>1. ~InsertJob
                    BY <1>2 DEF InsertJob, NewRow, NoRow
                <5>2. Started
                    BY <1>2, <4>1, <5>1
                    DEF RunJob, AllocateJobDir, AbortAllocation, MarkStarting,
                        CreateJobSession, CreateJobSessionFails, EnableOutputPipe,
                        EnableOutputPipeFails, PipeIsReady, PipeReadyTimeout, OpenStartGate,
                        MarkRunning, FinishStart, MarkStartFailed, CleanupFailedStart,
                        GoTo, Started
                <5> QED BY <1>2, <4>1, <5>2, RunJobFrame
            <4>2. CASE Runner BY <1>2, <4>2, RunnerEffect DEF Started
            <4>3. CASE Pipe BY <1>0, <1>2, <4>3, PipeEffect DEF Base, Started
            <4>4. CASE Environment BY <1>0, <1>2, <4>4, EnvironmentEffect
            <4>5. CASE Restart \/ UNCHANGED vars BY <1>2, <4>5 DEF Restart, vars, Started
            <4> QED BY <2>1, <4>1, <4>2, <4>3, <4>4, <4>5 DEF Next
        <3>3. files = {} \/ \E p \in Callers : pc[p] = "remove"
            BY <3>1, <3>2 DEF DeletionComplete
        <3> QED BY <1>0, <1>2, <2>1, <3>2, <3>3, EmptyStaysEmpty, OthersBeginNoDeletion
    <2>2. ASSUME NEW p \in Callers, Call(p)
          PROVE  files' = {} \/ \E q \in Callers : pc'[q] = "remove"
        <3>1. /\ Started /\ faults = 0
              /\ \A q \in Callers : q # p => pc'[q] = pc[q]
            BY <1>0, <1>2, <2>2, CallEffect DEF Started
        <3>2. CASE row.status = "absent"
            <4>1. files = {} \/ \E q \in Callers : pc[q] = "remove"
                BY <3>1, <3>2 DEF DeletionComplete
            <4> QED BY <1>0, <2>2, <3>1, <4>1, EmptyStaysEmpty, CallDeletes
        <3>3. CASE row.status # "absent"
            BY <1>0, <1>2, <2>2, <3>3, CallDeletes
        <3> QED BY <3>2, <3>3
    <2> QED BY <2>1, <2>2
<1> QED BY <1>1, <1>2 DEF DeletionComplete

\* When the row is gone and no deletion is under way, the session is gone too,
\* and so is the directory unless a process died; clients know the job from
\* RunJob's answer.
THEOREM DeletedIsGone ==
    ASSUME ~EarlyCalls PROVE Spec => []DeletedLeavesNothing
<1>1. Init => Undisturbed /\ DeletionComplete
    BY InitUndisturbed DEF Init, DeletionComplete, Started
<1>2. Undisturbed /\ DeletionComplete /\ [Next]_vars => (Undisturbed /\ DeletionComplete)'
    BY NextUndisturbedBase, NextDeletion
<1>3. Undisturbed /\ DeletionComplete => DeletedLeavesNothing
    <2> SUFFICES ASSUME Undisturbed, DeletionComplete PROVE DeletedLeavesNothing
        OBVIOUS
    <2>1. faults \in Nat
        BY ConstantsAssumption DEF Undisturbed, Base, Inv, TypeOK
    <2> QED BY <2>1 DEF DeletionComplete, DeletedLeavesNothing, Started
<1> QED BY <1>1, <1>2, <1>3, PTL DEF Spec

-----------------------------------------------------------------------------
(* A lost job is really gone *)

NoEarlyReader == ~EarlyCalls /\ "gc" \notin Ops

\* A caller that found no session, and has not acted on it yet.
SawMissing(p) == \/ pc[p] \in {"pending", "gone"}
                 \/ pc[p] = "artifacts" /\ seen[p] = "missing"

\* Where nobody looks before the session is there, a missing one stays missing.
MissingIsGone ==
    NoEarlyReader =>
        /\ row.status = "lost" => session # "live"
        /\ \A p \in Callers : SawMissing(p) => session # "live"

LEMMA NobodyBeforeSession ==
    ASSUME Undisturbed, NoEarlyReader, BeforeSession, NEW p \in Callers
    PROVE  pc[p] = "idle"
BY DEF Undisturbed, StartUndisturbed, Harmless, NoEarlyReader, Base, ServerInv, ServerOK,
       CallerInv, CallerOK

LEMMA CallSawMissing ==
    ASSUME TypeOK, NEW p \in Callers, Call(p), SawMissing(p)'
    PROVE  session # "live" \/ SawMissing(p)
<1> USE DEF TypeOK, SawMissing, Step, Idle
<1>1. ASSUME NEW o \in Ops \cup {"reconcile"}, Begin(p, o) PROVE FALSE
    BY <1>1 DEF Begin
<1>2. CASE GetJob(p) BY <1>2 DEF GetJob
<1>3. CASE ListSessions(p) BY <1>3 DEF ListSessions
<1>4. CASE IsOutputPipeActive(p) BY <1>4 DEF IsOutputPipeActive
<1>5. CASE Materialize(p) BY <1>5 DEF Materialize
<1>6. CASE CheckPending(p) BY <1>6 DEF CheckPending
<1>7. CASE ReturnView(p) \/ ContinueWithView(p) \/ KillFinished(p)
    BY <1>7 DEF ReturnView, ContinueWithView, KillFinished
<1>8. CASE MaterializeLive(p) \/ MaterializeLost(p)
    BY <1>8 DEF MaterializeLive, MaterializeLost
<1>9. CASE MarkTerminated(p) \/ KillTerminated(p) \/ CleanupJob(p)
    BY <1>9 DEF MarkTerminated, KillTerminated, CleanupJob
<1>10. CASE DeleteRow(p) \/ RemoveJobDir(p)
    BY <1>10 DEF DeleteRow, RemoveJobDir
<1> QED BY <1>1, <1>2, <1>3, <1>4, <1>5, <1>6, <1>7, <1>8, <1>9, <1>10 DEF Call

\* Other steps show no caller anything.
LEMMA OthersSawMissing ==
    ASSUME Base, [Next]_vars, ~ \E q \in Callers : Call(q), NEW p \in Callers, SawMissing(p)'
    PROVE  SawMissing(p)
<1>0. TypeOK
    BY DEF Base, Inv
<1> USE DEF SawMissing
<1>1. CASE RunJob BY <1>1, RunJobFrame
<1>2. CASE Runner BY <1>2, RunnerEffect
<1>3. CASE Pipe BY <1>3, PipeEffect DEF Base
<1>4. CASE Environment
    <2>1. ASSUME NEW q \in Callers, TmuxQueryFails(q) PROVE SawMissing(p)
        BY <1>0, <2>1 DEF TmuxQueryFails, Idle, TypeOK
    <2> QED BY <1>0, <1>4, <2>1, EnvironmentEffect DEF ServerStops
<1>5. CASE Restart \/ UNCHANGED vars BY <1>5 DEF Restart, callVars, vars
<1> QED BY <1>1, <1>2, <1>3, <1>4, <1>5 DEF Next

\* Only MaterializeLost makes a row lost.
LEMMA LostOnlyMaterialized ==
    ASSUME Base, [Next]_vars, row'.status = "lost"
    PROVE  row' = row \/ \E p \in Callers :
                             MaterializeLost(p) /\ Call(p) /\ row.status \in Active
<1> USE DEF Base, Inv
<1>0. row \in Rows
    BY DEF TypeOK
<1>1. CASE RunJob BY <1>1, RunJobRowEffect DEF RunJobRow, InsertJob, NewRow, NoRow
<1>2. CASE Runner BY <1>2, RunnerEffect
<1>3. CASE Pipe BY <1>3, PipeEffect
<1>4. ASSUME NEW p \in Callers, Call(p)
      PROVE  row' = row \/ (MaterializeLost(p) /\ row.status \in Active)
    BY <1>0, <1>4, CallRowEffect, TransitionStatus DEF CallRow, MarkTerminated, NoRow
<1>5. CASE Environment BY <1>5, EnvironmentEffect
<1>6. CASE Restart \/ UNCHANGED vars BY <1>6 DEF Restart, jobVars, vars
<1> QED BY <1>1, <1>2, <1>3, <1>4, <1>5, <1>6 DEF Next

LEMMA NextMissing ==
    ASSUME Undisturbed, MissingIsGone, [Next]_vars
    PROVE  MissingIsGone'
<1> SUFFICES ASSUME NoEarlyReader
             PROVE  /\ row'.status = "lost" => session' # "live"
                    /\ \A p \in Callers : SawMissing(p)' => session' # "live"
    BY DEF MissingIsGone, NoEarlyReader
<1>0. TypeOK /\ Base
    BY DEF Undisturbed, Base, Inv
<1>1. CASE CreateJobSession
    <2>1. BeforeSession /\ row.status # "lost" /\ row' = row /\ pc' = pc
        BY <1>1 DEF CreateJobSession, GoTo, jobVars, callVars, Undisturbed,
                    StartUndisturbed, BeforeSession, NoEarlyReader
    <2> QED BY <2>1, NobodyBeforeSession DEF SawMissing
<1>2. CASE ~CreateJobSession
    <2>1. session' = "live" => session = "live"
        BY <1>0, <1>2, LiveOnlyCreated
    <2>2. ASSUME NEW p \in Callers, SawMissing(p)' PROVE session' # "live"
        <3>1. ASSUME NEW q \in Callers, Call(q), q # p PROVE SawMissing(p)
            BY <1>0, <2>2, <3>1, CallEffect DEF SawMissing
        <3>2. session # "live" \/ SawMissing(p)
            BY <1>0, <2>2, <3>1, CallSawMissing, OthersSawMissing
        <3> QED BY <2>1, <3>2 DEF MissingIsGone
    <2>3. ASSUME row'.status = "lost" PROVE session' # "live"
        <3>1. CASE row' = row
            BY <2>1, <2>3, <3>1 DEF MissingIsGone
        <3>2. ASSUME NEW p \in Callers, MaterializeLost(p) PROVE session # "live"
            BY <3>2 DEF MaterializeLost, Step, SawMissing, MissingIsGone
        <3> QED BY <1>0, <2>1, <2>3, <3>1, <3>2, LostOnlyMaterialized
    <2> QED BY <2>2, <2>3
<1> QED BY <1>1, <1>2

LEMMA InitMissing == Init => MissingIsGone
BY DEF Init, MissingIsGone, NoRow

\* A job is reported as lost only if its session is really gone, where neither
\* clients nor the collector look at it while it is being started.
THEOREM LostIsGone ==
    ASSUME ~EarlyCalls, "gc" \notin Ops PROVE Spec => []LostMeansGone
<1>1. Init => Undisturbed /\ MissingIsGone
    BY InitUndisturbed, InitMissing
<1>2. Undisturbed /\ MissingIsGone /\ [Next]_vars => (Undisturbed /\ MissingIsGone)'
    BY NextUndisturbedBase, NextMissing
<1>3. MissingIsGone => LostMeansGone
    BY DEF MissingIsGone, NoEarlyReader, LostMeansGone
<1> QED BY <1>1, <1>2, <1>3, PTL DEF Spec

-----------------------------------------------------------------------------
(* A stdio job that exited is not lost *)

\* The runner is there with the session, and leaves its artifacts, in order,
\* in a directory that is there.
RunnerEvidence ==
    /\ session = "none" <=> runner = "none"
    /\ runner = "exited" => session = "gone"
    /\ "dir" \in files =>
           /\ runner \in {"coded", "stamped", "exited"} => "exit-code" \in files
           /\ runner \in {"stamped", "exited"} => "ended-at" \in files
    /\ start = "insert" => "dir" \in files

\* An active job still has its directory, and its session only goes with the
\* runner: nobody kills a job or removes it before its row says so.
ActiveIntact ==
    "tmux" \notin Faults /\ row.status \in Active =>
        /\ "dir" \in files
        /\ session = "gone" => runner \in {"dead", "exited"}

\* So whoever misses the session of an active stdio job, and its artifacts,
\* misses a job whose runner died.
StdioMissing ==
    NoEarlyReader /\ "tmux" \notin Faults /\ mode = "stdio" =>
        /\ row.status = "lost" => runner \in {"none", "dead"}
        /\ row.status \in Active =>
               \A p \in Callers : pc[p] \in {"pending", "gone"} => runner \in {"none", "dead"}

LEMMA NextRunnerEvidence ==
    ASSUME Base, RunnerEvidence, [Next]_vars
    PROVE  RunnerEvidence'
<1>0. TypeOK /\ Base
    BY DEF Base, Inv
<1> USE DEF RunnerEvidence
<1>1. CASE RunJob
    <2>1. start = "idle" => runner = "none" /\ session = "none"
        BY DEF Base, Inv, ExitEvidence
    <2> USE <2>1 DEF GoTo, Put, jobVars, procVars
    <2>2. CASE AllocateJobDir BY <2>2 DEF AllocateJobDir
    <2>3. CASE AbortAllocation BY <2>3 DEF AbortAllocation
    <2>4. CASE InsertJob \/ MarkStarting BY <2>4 DEF InsertJob, MarkStarting
    <2>5. CASE CreateJobSession BY <2>5 DEF CreateJobSession
    <2>6. CASE CreateJobSessionFails \/ EnableOutputPipe \/ EnableOutputPipeFails
        BY <2>6 DEF CreateJobSessionFails, EnableOutputPipe, EnableOutputPipeFails
    <2>7. CASE PipeIsReady \/ PipeReadyTimeout BY <2>7 DEF PipeIsReady, PipeReadyTimeout
    <2>8. CASE OpenStartGate BY <2>8 DEF OpenStartGate
    <2>9. CASE MarkRunning \/ MarkStartFailed BY <2>9 DEF MarkRunning, MarkStartFailed
    <2>10. CASE FinishStart BY <2>10 DEF FinishStart
    <2>11. CASE CleanupFailedStart BY <2>11 DEF CleanupFailedStart, KillSession
    <2> QED BY <1>1, <2>2, <2>3, <2>4, <2>5, <2>6, <2>7, <2>8, <2>9, <2>10, <2>11 DEF RunJob
<1>2. CASE Runner
    <2> USE DEF RunnerFrame, Put
    <2>1. CASE StartScript BY <2>1 DEF StartScript
    <2>2. CASE ScriptEnds BY <2>2 DEF ScriptEnds
    <2>3. CASE WriteExitCode BY <2>3 DEF WriteExitCode
    <2>4. CASE WriteEndedAt BY <2>4 DEF WriteEndedAt
    <2>5. CASE RunnerExits BY <2>5 DEF RunnerExits
    <2> QED BY <1>2, <2>1, <2>2, <2>3, <2>4, <2>5 DEF Runner
<1>3. CASE Pipe BY <1>0, <1>3, PipeEffect DEF Base
<1>4. ASSUME NEW p \in Callers, Call(p) PROVE RunnerEvidence'
    <2>1. start = "insert" => pc[p] # "remove"
        BY DEF Base, CallerInv, CallerOK, Started
    <2> QED BY <1>0, <1>4, <2>1, CallEffect DEF KillSession, RemoveJobDir
<1>5. CASE Environment BY <1>0, <1>5, EnvironmentEffect DEF ServerStops
<1>6. CASE Restart \/ UNCHANGED vars BY <1>6 DEF Restart, jobVars, procVars, vars
<1> QED BY <1>1, <1>2, <1>3, <1>4, <1>5, <1>6 DEF Next

LEMMA NextIntact ==
    ASSUME Base, RunnerEvidence, ActiveIntact, [Next]_vars
    PROVE  ActiveIntact'
<1> SUFFICES ASSUME "tmux" \notin Faults, row'.status \in Active
             PROVE  "dir" \in files' /\ (session' = "gone" => runner' \in {"dead", "exited"})
    BY DEF ActiveIntact
<1>0. TypeOK /\ Base
    BY DEF Base, Inv
<1>1. CASE InsertJob
    BY <1>1 DEF InsertJob, GoTo, procVars, RunnerEvidence, Base, Inv, ExitEvidence
<1>2. CASE ~InsertJob
    <2>1. row.status \in Active
        BY <1>0, <1>2, ActiveOnlyInserted
    <2>2. "dir" \in files /\ (session = "gone" => runner \in {"dead", "exited"})
        BY <2>1 DEF ActiveIntact
    <2>3. Started /\ start # "cleanup"
        BY <2>1 DEF Base, GateInv, NoRow, Active
    <2>4. CASE RunJob
        BY <2>2, <2>3, <2>4
        DEF RunJob, AllocateJobDir, AbortAllocation, InsertJob, MarkStarting,
            CreateJobSession, CreateJobSessionFails, EnableOutputPipe,
            EnableOutputPipeFails, PipeIsReady, PipeReadyTimeout, OpenStartGate,
            MarkRunning, FinishStart, MarkStartFailed, CleanupFailedStart, GoTo,
            jobVars, procVars, Put, Started
    <2>5. CASE Runner BY <2>2, <2>5, RunnerEffect
    <2>6. CASE Pipe BY <1>0, <2>2, <2>6, PipeEffect DEF Base
    <2>7. ASSUME NEW p \in Callers, Call(p)
          PROVE  "dir" \in files' /\ (session' = "gone" => runner' \in {"dead", "exited"})
        <3>1. pc[p] \notin {"kill", "cleanup", "delete", "remove"} /\ snap[p].status \notin Terminal
            BY <2>1 DEF Base, CallerInv, CallerOK, Active, Terminal
        <3>2. UNCHANGED <<files, session, runner>>
            BY <1>0, <2>7, <3>1, CallEffect
            DEF RemoveJobDir, Done, KillFinished, KillTerminated, CleanupJob, Step
        <3> QED BY <2>2, <3>2
    <2>8. CASE Environment
        BY <1>0, <2>2, <2>8, EnvironmentEffect DEF RunnerEvidence
    <2>9. CASE Restart \/ UNCHANGED vars
        BY <2>2, <2>9 DEF Restart, jobVars, procVars, vars
    <2> QED BY <2>4, <2>5, <2>6, <2>7, <2>8, <2>9 DEF Next
<1> QED BY <1>1, <1>2

\* A runner that is not there, or has died, stays so until RunJob creates one.
LEMMA NoRunnerStays ==
    ASSUME Base, [Next]_vars, ~CreateJobSession, runner \in {"none", "dead"}
    PROVE  runner' \in {"none", "dead"}
<1>0. TypeOK /\ Base
    BY DEF Base, Inv
<1>1. CASE RunJob
    BY <1>1 DEF RunJob, AllocateJobDir, AbortAllocation, InsertJob, MarkStarting,
                CreateJobSessionFails, EnableOutputPipe, EnableOutputPipeFails,
                PipeIsReady, PipeReadyTimeout, OpenStartGate, MarkRunning, FinishStart,
                MarkStartFailed, CleanupFailedStart, KillSession, procVars, jobVars
<1>2. CASE Runner BY <1>2, RunnerEffect
<1>3. CASE Pipe BY <1>0, <1>3, PipeEffect DEF Base
<1>4. ASSUME NEW p \in Callers, Call(p) PROVE runner' \in {"none", "dead"}
    BY <1>0, <1>4, CallEffect DEF KillSession
<1>5. CASE Environment BY <1>0, <1>5, EnvironmentEffect
<1>6. CASE Restart \/ UNCHANGED vars BY <1>6 DEF Restart, procVars, vars
<1> QED BY <1>1, <1>2, <1>3, <1>4, <1>5, <1>6 DEF Next

LEMMA CallPending ==
    ASSUME TypeOK, NEW p \in Callers, Call(p), pc'[p] \in {"pending", "gone"}
    PROVE  \/ pc[p] = "pending"
           \/ pc[p] = "artifacts" /\ seen[p] = "missing" /\ ~CompletedExit
BY DEF Call, Begin, GetJob, ListSessions, IsOutputPipeActive, Materialize, MaterializeLive,
       CheckPending, MaterializeLost, ReturnView, ContinueWithView, KillFinished,
       MarkTerminated, KillTerminated, CleanupJob, DeleteRow, RemoveJobDir, Step, Idle, TypeOK

LEMMA OthersPending ==
    ASSUME Base, [Next]_vars, ~ \E q \in Callers : Call(q), NEW p \in Callers,
           pc'[p] \in {"pending", "gone"}
    PROVE  pc'[p] = pc[p]
BY OthersBeginNoDeletion

SafetyInv == /\ Undisturbed /\ TerminationPending /\ DeletionComplete
             /\ MissingIsGone /\ RunnerEvidence /\ ActiveIntact /\ StdioMissing

LEMMA ModeFixed == Base /\ [Next]_vars => mode' = mode
<1> SUFFICES ASSUME Base, [Next]_vars PROVE mode' = mode
    OBVIOUS
<1>0. TypeOK
    BY DEF Base, Inv
<1>1. CASE Restart \/ UNCHANGED vars BY <1>1 DEF Restart, jobVars, vars
<1> QED BY <1>0, <1>1, RunJobFrame, RunnerEffect, PipeEffect, CallEffect, EnvironmentEffect
    DEF Next, Base

LEMMA NextStdio ==
    ASSUME SafetyInv, [Next]_vars
    PROVE  StdioMissing'
<1>0. TypeOK /\ Base /\ Undisturbed /\ MissingIsGone /\ RunnerEvidence /\ ActiveIntact
      /\ StdioMissing
    BY DEF SafetyInv, Undisturbed, Base, Inv
<1> SUFFICES ASSUME NoEarlyReader, "tmux" \notin Faults, mode = "stdio"
             PROVE  /\ row'.status = "lost" => runner' \in {"none", "dead"}
                    /\ row'.status \in Active =>
                           \A p \in Callers : pc'[p] \in {"pending", "gone"} =>
                               runner' \in {"none", "dead"}
    BY <1>0, ModeFixed DEF StdioMissing, NoEarlyReader
<1>1. CASE CreateJobSession
    <2>1. BeforeSession /\ row.status # "lost" /\ row' = row /\ pc' = pc
        BY <1>0, <1>1 DEF CreateJobSession, GoTo, jobVars, callVars, Undisturbed,
                          StartUndisturbed, BeforeSession, NoEarlyReader
    <2> QED BY <1>0, <2>1, NobodyBeforeSession
<1>2. CASE ~CreateJobSession
    <2>0. runner \in {"none", "dead"} => runner' \in {"none", "dead"}
        BY <1>0, <1>2, NoRunnerStays
    <2>1. ASSUME row'.status = "lost" PROVE runner' \in {"none", "dead"}
        <3>1. CASE row' = row
            BY <1>0, <2>0, <2>1, <3>1 DEF StdioMissing
        <3>2. ASSUME NEW p \in Callers, MaterializeLost(p), row.status \in Active
              PROVE  runner \in {"none", "dead"}
            BY <1>0, <3>2 DEF MaterializeLost, Step, StdioMissing
        <3> QED BY <1>0, <2>0, <2>1, <3>1, <3>2, LostOnlyMaterialized
    <2>2. ASSUME row'.status \in Active, NEW p \in Callers, pc'[p] \in {"pending", "gone"}
          PROVE  runner \in {"none", "dead"}
        <3>1. row.status \in Active
            <4>1. ~InsertJob
                BY <1>0, <2>2 DEF InsertJob, GoTo, callVars, Base, CallerInv, CallerOK, Started
            <4> QED BY <1>0, <2>2, <4>1, ActiveOnlyInserted
        <3>2. CASE pc[p] \in {"pending", "gone"}
            BY <1>0, <3>1, <3>2 DEF StdioMissing
        <3>3. CASE pc[p] = "artifacts" /\ seen[p] = "missing" /\ ~CompletedExit
            <4>1. session # "live"
                BY <1>0, <3>3 DEF MissingIsGone, SawMissing
            <4>2. session = "none" => runner = "none"
                BY <1>0 DEF RunnerEvidence
            <4>3. "dir" \in files /\ (session = "gone" => runner \in {"dead", "exited"})
                BY <1>0, <3>1 DEF ActiveIntact
            <4>4. runner # "exited"
                BY <1>0, <3>3, <4>3 DEF RunnerEvidence, CompletedExit, Artifacts
            <4> QED BY <1>0, <4>1, <4>2, <4>3, <4>4 DEF TypeOK
        <3>4. ASSUME NEW q \in Callers, Call(q)
              PROVE  \/ pc[p] \in {"pending", "gone"}
                     \/ pc[p] = "artifacts" /\ seen[p] = "missing" /\ ~CompletedExit
            BY <1>0, <2>2, <3>4, CallEffect, CallPending
        <3>5. CASE ~ \E q \in Callers : Call(q)
            BY <1>0, <2>2, <3>2, <3>5, OthersPending
        <3> QED BY <3>2, <3>3, <3>4, <3>5
    <2> QED BY <2>0, <2>1, <2>2
<1> QED BY <1>1, <1>2

LEMMA InitSafety == Init => SafetyInv
BY InitUndisturbed, InitMissing
DEF Init, SafetyInv, TerminationPending, DeletionComplete, RunnerEvidence, ActiveIntact,
    StdioMissing, Started, NoRow, Active

LEMMA NextSafety == SafetyInv /\ [Next]_vars => SafetyInv'
<1> SUFFICES ASSUME SafetyInv, [Next]_vars PROVE SafetyInv'
    OBVIOUS
<1>1. Undisturbed /\ Base
    BY DEF SafetyInv, Undisturbed
<1> QED BY <1>1, NextUndisturbedBase, NextTermination, NextDeletion, NextMissing,
           NextRunnerEvidence, NextIntact, NextStdio DEF SafetyInv

\* All parts of the inductive invariant hold together, for all constants.
THEOREM SafetyCorrect == Spec => []SafetyInv
<1> QED BY InitSafety, NextSafety, PTL DEF Spec

\* A stdio job whose script ended normally and left its artifacts is not
\* reported as lost, however the polls interleave with the exit: where nobody
\* looks at it while it starts, and no failing tmux query lets DeleteJob remove
\* a job that is still running.
THEOREM StdioExitIsNotLost ==
    ASSUME ~EarlyCalls, "gc" \notin Ops, "tmux" \notin Faults
    PROVE  Spec => []StdioExitNotLost
<1>1. SafetyInv => StdioExitNotLost
    BY DEF SafetyInv, StdioMissing, NoEarlyReader, StdioExitNotLost, ExitNotLost
<1> QED BY <1>1, SafetyCorrect, PTL
=============================================================================
