------------------------- MODULE ShellctlJobProofs -------------------------
(* Proofs about ShellctlJob, for every set of callers, every set of exit   *)
(* codes, every selection of operations and every kind and number of      *)
(* faults.                                                                 *)
EXTENDS ShellctlJob, TLAPS

(* What the row helpers do to a well-typed row. *)

LEMMA TransitionType ==
    ASSUME NEW r \in Rows, NEW from, NEW target \in Statuses
    PROVE  Transition(r, from, target) \in Rows
BY ConstantsAssumption DEF Transition, Rows

LEMMA TransitionIfNoExitType ==
    ASSUME NEW r \in Rows, NEW from, NEW target \in Statuses
    PROVE  TransitionIfNoExit(r, from, target) \in Rows
BY TransitionType DEF TransitionIfNoExit

LEMMA RecordType ==
    ASSUME NEW r \in Rows, NEW code \in Codes \cup {NoCode}
    PROVE  RecordRunnerExit(r, code) \in Rows
BY DEF RecordRunnerExit, Rows, Statuses, Terminal

LEMMA NoRowType == NoRow \in Rows /\ NewRow \in Rows
BY DEF NoRow, NewRow, Rows, Statuses, Active

LEMMA PutType ==
    ASSUME files \subseteq FileNames, NEW f \in FileNames
    PROVE  Put(f) \subseteq FileNames
BY DEF Put

-----------------------------------------------------------------------------
(* Type correctness *)

LEMMA InitTypeOK == Init => TypeOK
<1> SUFFICES ASSUME Init PROVE TypeOK
    OBVIOUS
<1>1. row \in Rows /\ snap \in [Callers -> Rows]
    BY NoRowType DEF Init
<1>2. faults \in 0 .. MaxFaults
    BY ConstantsAssumption DEF Init
<1>3. op \in [Callers -> AllOps \cup {"none", "reconcile", "confirm",
                                     "force-terminate", "force-confirm"}]
    BY DEF Init
<1> QED BY <1>1, <1>2, <1>3 DEF Init, TypeOK, FileNames

LEMMA RunJobTypeOK == TypeOK /\ RunJob => TypeOK'
<1> SUFFICES ASSUME TypeOK, RunJob PROVE TypeOK'
    OBVIOUS
<1> USE NoRowType, PutType, TransitionType, TransitionIfNoExitType
    DEF TypeOK, GoTo, jobVars, procVars, callVars, FileNames, Statuses, Active, Terminal
<1>1. CASE AllocateJobDir BY <1>1 DEF AllocateJobDir
<1>2. CASE AbortAllocation BY <1>2 DEF AbortAllocation
<1>3. CASE InsertJob BY <1>3 DEF InsertJob
<1>4. CASE MarkStarting BY <1>4 DEF MarkStarting
<1>5. CASE CreateJobSession BY <1>5 DEF CreateJobSession
<1>6. CASE CreateJobSessionFails BY <1>6 DEF CreateJobSessionFails
<1>7. CASE EnableOutputPipe BY <1>7 DEF EnableOutputPipe
<1>8. CASE EnableOutputPipeFails BY <1>8 DEF EnableOutputPipeFails
<1>9. CASE PipeIsReady BY <1>9 DEF PipeIsReady
<1>10. CASE PipeReadyTimeout BY <1>10 DEF PipeReadyTimeout
<1>11. CASE OpenStartGate BY <1>11 DEF OpenStartGate
<1>12. CASE MarkRunning BY <1>12 DEF MarkRunning
<1>13. CASE FinishStart BY <1>13 DEF FinishStart
<1>14. CASE MarkStartFailed BY <1>14 DEF MarkStartFailed
<1>15. CASE CleanupFailedStart BY <1>15 DEF CleanupFailedStart, KillSession
<1> QED BY <1>1, <1>2, <1>3, <1>4, <1>5, <1>6, <1>7, <1>8, <1>9, <1>10,
           <1>11, <1>12, <1>13, <1>14, <1>15 DEF RunJob

LEMMA RunnerTypeOK == TypeOK /\ Runner => TypeOK'
<1> SUFFICES ASSUME TypeOK, Runner PROVE TypeOK'
    OBVIOUS
<1> USE PutType DEF TypeOK, RunnerFrame, callVars, FileNames
<1>1. CASE StartScript BY <1>1 DEF StartScript
<1>2. CASE ScriptEnds BY <1>2 DEF ScriptEnds
<1>3. CASE WriteExitCode BY <1>3 DEF WriteExitCode
<1>4. CASE WriteEndedAt BY <1>4 DEF WriteEndedAt
<1>5. CASE RunnerExits BY <1>5 DEF RunnerExits
<1> QED BY <1>1, <1>2, <1>3, <1>4, <1>5 DEF Runner

LEMMA PipeTypeOK == TypeOK /\ Pipe => TypeOK'
<1> SUFFICES ASSUME TypeOK, Pipe PROVE TypeOK'
    OBVIOUS
<1> USE PutType, RecordType DEF TypeOK, PipeFrame, callVars, FileNames
<1>1. CASE SanitizerStarts BY <1>1 DEF SanitizerStarts
<1>2. CASE PipeDrained BY <1>2 DEF PipeDrained
<1>3. CASE FinalizerChecks BY <1>3 DEF FinalizerChecks
<1>4. CASE FinalizerRecords BY <1>4 DEF FinalizerRecords
<1> QED BY <1>1, <1>2, <1>3, <1>4 DEF Pipe

LEMMA WriteRowType ==
    ASSUME TypeOK, NEW p \in Callers, NEW r \in Rows, WriteRow(p, r)
    PROVE  row' \in Rows /\ snap' \in [Callers -> Rows]
BY DEF WriteRow, TypeOK

LEMMA CallTypeOK ==
    ASSUME TypeOK, NEW p \in Callers, Call(p)
    PROVE  TypeOK'
<1> USE NoRowType, TransitionType, TransitionIfNoExitType, RecordType, WriteRowType
    DEF TypeOK, CallFrame, jobVars, procVars, Step, Idle, KillSession,
        Statuses, Active, Terminal
<1>1. ASSUME NEW o \in Ops \cup {"reconcile"}, Begin(p, o) PROVE TypeOK'
    BY <1>1, ConstantsAssumption DEF Begin
<1>2. CASE GetJob(p) BY <1>2 DEF GetJob
<1>3. CASE ListSessions(p) BY <1>3 DEF ListSessions
<1>4. CASE IsOutputPipeActive(p) BY <1>4 DEF IsOutputPipeActive
<1>5. CASE Materialize(p)
    <2>1. snap[p].status \in Statuses
        BY DEF Rows
    <2>2. /\ Transition(row, {snap[p].status}, snap[p].status) \in Rows
          /\ Transition(row, Active, "exited") \in Rows
          /\ RecordRunnerExit(row, exitFile) \in Rows
        BY <2>1
    <2>3. \/ UNCHANGED <<row, snap>>
          \/ \E r \in Rows : WriteRow(p, r)
        BY <1>5, <2>2 DEF Materialize
    <2>4. row' \in Rows /\ snap' \in [Callers -> Rows]
        BY <2>3
    <2> QED BY <1>5, <2>4 DEF Materialize
<1>6. CASE MaterializeLive(p)
    <2>1. /\ Transition(row, Active, "failed") \in Rows
          /\ TransitionIfNoExit(row, {"created", "starting"}, "running") \in Rows
        OBVIOUS
    <2>2. \/ UNCHANGED <<row, snap>>
          \/ \E r \in Rows : WriteRow(p, r)
        BY <1>6, <2>1 DEF MaterializeLive
    <2>3. row' \in Rows /\ snap' \in [Callers -> Rows]
        BY <2>2
    <2>4. Step(p, "live", "view") /\ UNCHANGED <<op, seen, files>> /\ CallFrame
        BY <1>6 DEF MaterializeLive
    <2> QED BY <2>3, <2>4
<1>7. CASE CheckPending(p) BY <1>7 DEF CheckPending
<1>8. CASE MaterializeLost(p)
    <2>1. row' \in Rows /\ snap' \in [Callers -> Rows]
        BY <1>8 DEF MaterializeLost
    <2>2. Step(p, "gone", "view") /\ UNCHANGED <<op, seen, files>> /\ CallFrame
        BY <1>8 DEF MaterializeLost
    <2> QED BY <2>1, <2>2
<1>9. CASE ReturnView(p) BY <1>9 DEF ReturnView
<1>10. CASE ContinueWithView(p) BY <1>10 DEF ContinueWithView
<1>11. CASE KillFinished(p) BY <1>11 DEF KillFinished
<1>12. CASE MarkTerminated(p) BY <1>12 DEF MarkTerminated
<1>13. CASE KillTerminated(p) BY <1>13 DEF KillTerminated
<1>14. CASE CleanupJob(p) BY <1>14 DEF CleanupJob
<1>15. CASE DeleteRow(p) BY <1>15 DEF DeleteRow
<1>16. CASE RemoveJobDir(p) BY <1>16 DEF RemoveJobDir
<1> QED BY <1>1, <1>2, <1>3, <1>4, <1>5, <1>6, <1>7, <1>8, <1>9, <1>10, <1>11,
           <1>12, <1>13, <1>14, <1>15, <1>16 DEF Call

LEMMA EnvironmentTypeOK == TypeOK /\ Environment => TypeOK'
<1> SUFFICES ASSUME TypeOK, Environment PROVE TypeOK'
    OBVIOUS
<1>0. faults' \in 0 .. MaxFaults
    BY ConstantsAssumption
    DEF TypeOK, Environment, Fault, ServerCrash, SandboxCrash, TmuxQueryFails,
        RunnerDies, PipeFails, FinalizerFails
<1> USE <1>0, NoRowType, PutType
    DEF TypeOK, jobVars, procVars, callVars, ServerStops, Idle, FileNames
<1>1. CASE ServerCrash BY <1>1 DEF ServerCrash
<1>2. CASE SandboxCrash BY <1>2 DEF SandboxCrash
<1>3. CASE RunnerDies BY <1>3 DEF RunnerDies
<1>4. CASE PipeFails BY <1>4 DEF PipeFails
<1>5. CASE FinalizerFails BY <1>5 DEF FinalizerFails
<1>6. ASSUME NEW p \in Callers, TmuxQueryFails(p) PROVE TypeOK'
    BY <1>6 DEF TmuxQueryFails
<1> QED BY <1>1, <1>2, <1>3, <1>4, <1>5, <1>6 DEF Environment

LEMMA NextTypeOK == TypeOK /\ [Next]_vars => TypeOK'
<1> SUFFICES ASSUME TypeOK, [Next]_vars PROVE TypeOK'
    OBVIOUS
<1>1. CASE Restart BY <1>1 DEF Restart, TypeOK, jobVars, procVars, callVars
<1>2. CASE UNCHANGED vars BY <1>2 DEF TypeOK, vars
<1> QED BY <1>1, <1>2, RunJobTypeOK, RunnerTypeOK, PipeTypeOK, CallTypeOK,
           EnvironmentTypeOK DEF Next

\* Every variable keeps its type, whatever the callers and the faults do.
THEOREM TypeCorrect == Spec => []TypeOK
<1>1. Init => TypeOK BY InitTypeOK
<1>2. TypeOK /\ [Next]_vars => TypeOK' BY NextTypeOK
<1> QED BY <1>1, <1>2, PTL DEF Spec

-----------------------------------------------------------------------------
(* The row and the evidence for it *)

LEMMA TransitionConsistent ==
    ASSUME NEW r \in Rows, Consistent(r),
           NEW from \in SUBSET (Active \cup Terminal),
           NEW target \in Terminal \cup {"starting", "running"},
           target \in Terminal \/ from \subseteq Active
    PROVE  Consistent(Transition(r, from, target))
BY ConstantsAssumption DEF Transition, Consistent, Rows, Statuses, Active, Terminal

LEMMA TransitionIfNoExitConsistent ==
    ASSUME NEW r \in Rows, Consistent(r), NEW from \in SUBSET Active
    PROVE  Consistent(TransitionIfNoExit(r, from, "running"))
BY TransitionConsistent DEF TransitionIfNoExit

LEMMA RecordConsistent ==
    ASSUME NEW r \in Rows, Consistent(r), NEW code \in Codes
    PROVE  Consistent(RecordRunnerExit(r, code))
BY ConstantsAssumption DEF RecordRunnerExit, Consistent, Rows, Statuses, Active, Terminal

LEMMA NoRowConsistent == Consistent(NoRow) /\ Consistent(NewRow)
BY DEF Consistent, NoRow, NewRow, Terminal

\* Only a transition to "exited" makes a row exited that was not.
LEMMA TransitionExited ==
    ASSUME NEW r \in Rows, NEW from, NEW target, target # "exited"
    PROVE  /\ Transition(r, from, target).status = "exited" =>
                  Transition(r, from, target) = r
           /\ TransitionIfNoExit(r, from, target).status = "exited" =>
                  TransitionIfNoExit(r, from, target) = r
BY DEF Transition, TransitionIfNoExit

Inv == TypeOK /\ RowConsistent /\ ExitEvidence

LEMMA InitInv == Init => Inv
<1> SUFFICES ASSUME Init PROVE RowConsistent /\ ExitEvidence
    BY InitTypeOK DEF Inv
<1>1. Consistent(row) /\ \A p \in Callers : Consistent(snap[p])
    BY NoRowConsistent DEF Init
<1>2. row = NoRow /\ row.status # "exited"
    BY DEF Init, NoRow
<1> QED BY <1>1, <1>2 DEF Init, RowConsistent, ExitEvidence

LEMMA RunJobInv == Inv /\ RunJob => Inv'
<1> SUFFICES ASSUME Inv, RunJob PROVE RowConsistent' /\ ExitEvidence'
    BY RunJobTypeOK DEF Inv
<1>0. TypeOK /\ RowConsistent /\ ExitEvidence
    BY DEF Inv
<1> USE <1>0, NoRowConsistent
    DEF RowConsistent, ExitEvidence, ScriptEnded, GoTo, jobVars, procVars, callVars, Put
<1>1. CASE AllocateJobDir BY <1>1 DEF AllocateJobDir, NoRow
<1>2. CASE AbortAllocation BY <1>2 DEF AbortAllocation
<1>3. CASE InsertJob BY <1>3 DEF InsertJob, NewRow, NoRow
<1>4. CASE MarkStarting
    <2>1. Consistent(row')
        BY <1>4, TransitionConsistent DEF MarkStarting, TypeOK, Active, Terminal
    <2>2. row'.status = "exited" => row' = row
        BY <1>4, TransitionExited DEF MarkStarting, TypeOK
    <2> QED BY <1>4, <2>1, <2>2 DEF MarkStarting
<1>5. CASE CreateJobSession BY <1>5 DEF CreateJobSession
<1>6. CASE CreateJobSessionFails BY <1>6 DEF CreateJobSessionFails
<1>7. CASE EnableOutputPipe BY <1>7 DEF EnableOutputPipe
<1>8. CASE EnableOutputPipeFails BY <1>8 DEF EnableOutputPipeFails
<1>9. CASE PipeIsReady BY <1>9 DEF PipeIsReady
<1>10. CASE PipeReadyTimeout BY <1>10 DEF PipeReadyTimeout
<1>11. CASE OpenStartGate BY <1>11 DEF OpenStartGate
<1>12. CASE MarkRunning
    <2>1. Consistent(row')
        BY <1>12, TransitionIfNoExitConsistent DEF MarkRunning, TypeOK, Active
    <2>2. row'.status = "exited" => row' = row
        BY <1>12, TransitionExited DEF MarkRunning, TypeOK
    <2> QED BY <1>12, <2>1, <2>2 DEF MarkRunning
<1>13. CASE FinishStart BY <1>13 DEF FinishStart
<1>14. CASE MarkStartFailed
    <2>1. Consistent(row')
        BY <1>14, TransitionConsistent DEF MarkStartFailed, TypeOK, Terminal
    <2>2. row'.status = "exited" => row' = row
        BY <1>14, TransitionExited DEF MarkStartFailed, TypeOK
    <2> QED BY <1>14, <2>1, <2>2 DEF MarkStartFailed
<1>15. CASE CleanupFailedStart BY <1>15 DEF CleanupFailedStart, KillSession
<1> QED BY <1>1, <1>2, <1>3, <1>4, <1>5, <1>6, <1>7, <1>8, <1>9, <1>10,
           <1>11, <1>12, <1>13, <1>14, <1>15 DEF RunJob

LEMMA RunnerInv == Inv /\ Runner => Inv'
<1> SUFFICES ASSUME Inv, Runner PROVE RowConsistent' /\ ExitEvidence'
    BY RunnerTypeOK DEF Inv
<1>0. TypeOK /\ RowConsistent /\ ExitEvidence
    BY DEF Inv
<1> USE <1>0 DEF RowConsistent, ExitEvidence, ScriptEnded, RunnerFrame, callVars, Put
<1>1. CASE StartScript BY <1>1 DEF StartScript
<1>2. CASE ScriptEnds BY <1>2 DEF ScriptEnds
<1>3. CASE WriteExitCode BY <1>3 DEF WriteExitCode
<1>4. CASE WriteEndedAt BY <1>4 DEF WriteEndedAt
<1>5. CASE RunnerExits BY <1>5 DEF RunnerExits
<1> QED BY <1>1, <1>2, <1>3, <1>4, <1>5 DEF Runner

LEMMA PipeInv == Inv /\ Pipe => Inv'
<1> SUFFICES ASSUME Inv, Pipe PROVE RowConsistent' /\ ExitEvidence'
    BY PipeTypeOK DEF Inv
<1>0. TypeOK /\ RowConsistent /\ ExitEvidence
    BY DEF Inv
<1> USE <1>0 DEF RowConsistent, ExitEvidence, ScriptEnded, PipeFrame, callVars, Put
<1>1. CASE SanitizerStarts BY <1>1 DEF SanitizerStarts
<1>2. CASE PipeDrained BY <1>2 DEF PipeDrained
<1>3. CASE FinalizerChecks BY <1>3 DEF FinalizerChecks
<1>4. CASE FinalizerRecords
    <2>1. Consistent(row')
        BY <1>4, RecordConsistent DEF FinalizerRecords, TypeOK
    <2>2. row'.status = "exited" => ScriptEnded' /\ row'.exit = childCode'
        BY <1>4 DEF FinalizerRecords, RecordRunnerExit, TypeOK, Rows
    <2>3. (start \in {"idle", "insert"} => row = NoRow)'
        BY <1>4 DEF FinalizerRecords
    <2> QED BY <1>4, <2>1, <2>2, <2>3 DEF FinalizerRecords
<1> QED BY <1>1, <1>2, <1>3, <1>4 DEF Pipe

\* A caller that writes a consistent row keeps a consistent row.
LEMMA WriteRowConsistent ==
    ASSUME TypeOK, \A q \in Callers : Consistent(snap[q]), NEW p \in Callers,
           NEW r \in Rows, Consistent(r), WriteRow(p, r)
    PROVE  Consistent(row') /\ \A q \in Callers : Consistent(snap'[q])
BY DEF WriteRow, TypeOK

\* Steps of a caller that leave the row, the directory and the processes alone
\* and take at most the present row into the caller's hands.
LEMMA ReadingInv ==
    ASSUME Inv, NEW p \in Callers, UNCHANGED <<row, files>>, CallFrame,
           \/ snap' = snap
           \/ snap' = [snap EXCEPT ![p] = row]
           \/ snap' = [snap EXCEPT ![p] = NoRow]
    PROVE  RowConsistent' /\ ExitEvidence'
<1>1. \A q \in Callers : Consistent(snap'[q])
    BY NoRowConsistent DEF Inv, TypeOK, RowConsistent, ExitEvidence
<1> QED BY <1>1 DEF Inv, RowConsistent, ExitEvidence, ScriptEnded, CallFrame

\* Steps of a caller that may write the row but make no row exited.
LEMMA WritingInv ==
    ASSUME Inv, NEW p \in Callers, UNCHANGED files, CallFrame,
           Consistent(row'), \A q \in Callers : Consistent(snap'[q]),
           row'.status = "exited" => row' = row,
           row = NoRow => row' = NoRow
    PROVE  RowConsistent' /\ ExitEvidence'
BY DEF Inv, RowConsistent, ExitEvidence, ScriptEnded, CallFrame

\* Kills: a runner that has not started the script dies, nothing else changes.
LEMMA KillingInv ==
    ASSUME Inv, KillSession \/ UNCHANGED procVars,
           UNCHANGED <<jobVars, start>>,
           \A q \in Callers : Consistent(snap'[q])
    PROVE  RowConsistent' /\ ExitEvidence'
BY DEF Inv, RowConsistent, ExitEvidence, ScriptEnded, KillSession, jobVars, procVars

LEMMA CallInv ==
    ASSUME Inv, NEW p \in Callers, Call(p)
    PROVE  Inv'
<1> SUFFICES RowConsistent' /\ ExitEvidence'
    BY CallTypeOK DEF Inv
<1>0. TypeOK /\ Consistent(row) /\ \A q \in Callers : Consistent(snap[q])
    BY DEF Inv, RowConsistent, ExitEvidence
<1>1. ASSUME NEW o \in Ops \cup {"reconcile"}, Begin(p, o)
      PROVE  RowConsistent' /\ ExitEvidence'
    BY <1>1, ReadingInv DEF Begin
<1>2. CASE GetJob(p) BY <1>2, ReadingInv DEF GetJob, Idle
<1>3. CASE ListSessions(p) BY <1>3, ReadingInv DEF ListSessions
<1>4. CASE IsOutputPipeActive(p) BY <1>4, ReadingInv DEF IsOutputPipeActive
<1>5. CASE Materialize(p)
    <2>1. /\ snap[p].status \in Terminal => snap[p].ended
          /\ snap[p].status \notin Terminal => snap[p].exit = NoCode
        BY <1>0 DEF Consistent
    <2>2. CASE UNCHANGED <<row, snap>>
        BY <1>5, <2>2, ReadingInv DEF Materialize
    <2>3. CASE CompletedExit /\ WriteRow(p, RecordRunnerExit(row, exitFile))
        <3>1. exitFile = childCode /\ exitFile \in Codes /\ ScriptEnded
            BY <2>3 DEF CompletedExit, Artifacts, Inv, ExitEvidence
        <3>2. /\ RecordRunnerExit(row, exitFile) \in Rows
              /\ Consistent(RecordRunnerExit(row, exitFile))
            BY <1>0, <3>1, RecordType, RecordConsistent DEF TypeOK
        <3>3. Consistent(row') /\ \A q \in Callers : Consistent(snap'[q])
            BY <1>0, <2>3, <3>2, WriteRowConsistent
        <3>4. row' = RecordRunnerExit(row, exitFile)
            BY <2>3 DEF WriteRow
        <3>5. row'.status = "exited" => row'.exit = childCode
            BY <1>0, <3>1, <3>4 DEF RecordRunnerExit, TypeOK, Rows, Inv, ExitEvidence
        <3>6. row = NoRow => row' = NoRow
            BY <3>4 DEF RecordRunnerExit, NoRow, Active
        <3>7. mode = "pty" => "drained" \in files
            BY <2>3 DEF CompletedExit
        <3>8. UNCHANGED files /\ CallFrame
            BY <1>5 DEF Materialize
        <3> QED BY <3>1, <3>3, <3>5, <3>6, <3>7, <3>8
            DEF Inv, RowConsistent, ExitEvidence, ScriptEnded, CallFrame
    <2> QED BY <1>5, <2>1, <2>2, <2>3 DEF Materialize
<1>6. CASE MaterializeLive(p)
    <2>1. CASE UNCHANGED <<row, snap>>
        BY <1>6, <2>1, ReadingInv DEF MaterializeLive
    <2>2. CASE WriteRow(p, Transition(row, Active, "failed"))
        <3>1. /\ Transition(row, Active, "failed") \in Rows
              /\ Consistent(Transition(row, Active, "failed"))
            BY <1>0, TransitionType, TransitionConsistent
            DEF TypeOK, Statuses, Active, Terminal
        <3>2. Consistent(row') /\ \A q \in Callers : Consistent(snap'[q])
            BY <1>0, <2>2, <3>1, WriteRowConsistent
        <3>3. row'.status = "exited" => row' = row
            BY <1>0, <2>2, TransitionExited DEF WriteRow, TypeOK
        <3>4. row = NoRow => row' = NoRow
            BY <2>2 DEF WriteRow, Transition, NoRow, Active
        <3> QED BY <1>6, <3>2, <3>3, <3>4, WritingInv DEF MaterializeLive
    <2>3. CASE WriteRow(p, TransitionIfNoExit(row, {"created", "starting"}, "running"))
        <3> DEFINE r == TransitionIfNoExit(row, {"created", "starting"}, "running")
        <3>1. r \in Rows /\ Consistent(r)
            BY <1>0, TransitionIfNoExitType, TransitionIfNoExitConsistent
            DEF TypeOK, Statuses, Active
        <3>2. Consistent(row') /\ \A q \in Callers : Consistent(snap'[q])
            BY <1>0, <2>3, <3>1, WriteRowConsistent
        <3>3. row'.status = "exited" => row' = row
            BY <1>0, <2>3, TransitionExited DEF WriteRow, TypeOK
        <3>4. row = NoRow => row' = NoRow
            BY <2>3 DEF WriteRow, TransitionIfNoExit, Transition, NoRow
        <3> QED BY <1>6, <3>2, <3>3, <3>4, WritingInv DEF MaterializeLive
    <2> QED BY <1>6, <2>1, <2>2, <2>3 DEF MaterializeLive
<1>7. CASE CheckPending(p) BY <1>7, ReadingInv DEF CheckPending
<1>8. CASE MaterializeLost(p)
    <2>1. CASE UNCHANGED <<row, snap>>
        BY <1>8, <2>1, ReadingInv DEF MaterializeLost
    <2>2. CASE WriteRow(p, Transition(row, Active, "lost"))
        <3>1. /\ Transition(row, Active, "lost") \in Rows
              /\ Consistent(Transition(row, Active, "lost"))
            BY <1>0, TransitionType, TransitionConsistent
            DEF TypeOK, Statuses, Active, Terminal
        <3>2. Consistent(row') /\ \A q \in Callers : Consistent(snap'[q])
            BY <1>0, <2>2, <3>1, WriteRowConsistent
        <3>3. row'.status = "exited" => row' = row
            BY <1>0, <2>2, TransitionExited DEF WriteRow, TypeOK
        <3>4. row = NoRow => row' = NoRow
            BY <2>2 DEF WriteRow, Transition, NoRow, Active
        <3> QED BY <1>8, <3>2, <3>3, <3>4, WritingInv DEF MaterializeLost
    <2> QED BY <1>8, <2>1, <2>2 DEF MaterializeLost
<1>9. CASE ReturnView(p) BY <1>9, ReadingInv DEF ReturnView, Idle
<1>10. CASE ContinueWithView(p) BY <1>10, ReadingInv DEF ContinueWithView
<1>11. CASE KillFinished(p)
    <2>1. \A q \in Callers : Consistent(snap'[q])
        BY <1>0, <1>11, NoRowConsistent DEF KillFinished, Idle, TypeOK
    <2> QED BY <1>11, <2>1, KillingInv DEF KillFinished
<1>12. CASE MarkTerminated(p)
    <2> DEFINE r == Transition(row, Active \cup {"exited"}, "terminated")
    <2>1. Consistent(r)
        BY <1>0, TransitionConsistent DEF TypeOK, Active, Terminal
    <2>2. r.status = "exited" => r = row
        BY <1>0, TransitionExited DEF TypeOK
    <2>3. row = NoRow => r = NoRow
        BY DEF Transition, NoRow, Active
    <2>4. row' = r
        BY <1>12 DEF MarkTerminated
    <2> QED BY <1>0, <1>12, <2>1, <2>2, <2>3, <2>4, WritingInv DEF MarkTerminated
<1>13. CASE KillTerminated(p) BY <1>0, <1>13, KillingInv DEF KillTerminated
<1>14. CASE CleanupJob(p) BY <1>0, <1>14, KillingInv DEF CleanupJob
<1>15. CASE DeleteRow(p)
    <2>1. \A q \in Callers : Consistent(snap'[q])
        BY <1>0, <1>15, NoRowConsistent DEF DeleteRow, Idle, TypeOK
    <2>2. row' = NoRow /\ Consistent(row') /\ row'.status # "exited"
        BY <1>15, NoRowConsistent DEF DeleteRow, NoRow
    <2> QED BY <1>15, <2>1, <2>2, WritingInv DEF DeleteRow
<1>16. CASE RemoveJobDir(p)
    <2>1. \A q \in Callers : Consistent(snap'[q])
        BY <1>0, <1>16, NoRowConsistent DEF RemoveJobDir, Idle, TypeOK
    <2> QED BY <1>16, <2>1
        DEF RemoveJobDir, CallFrame, Inv, RowConsistent, ExitEvidence, ScriptEnded
<1> QED BY <1>1, <1>2, <1>3, <1>4, <1>5, <1>6, <1>7, <1>8, <1>9, <1>10, <1>11,
           <1>12, <1>13, <1>14, <1>15, <1>16 DEF Call

LEMMA EnvironmentInv == Inv /\ Environment => Inv'
<1> SUFFICES ASSUME Inv, Environment PROVE RowConsistent' /\ ExitEvidence'
    BY EnvironmentTypeOK DEF Inv
<1>0. TypeOK /\ RowConsistent /\ ExitEvidence
    BY DEF Inv
<1> USE <1>0, NoRowConsistent DEF RowConsistent, ExitEvidence, ScriptEnded,
        jobVars, procVars, callVars, ServerStops, Put
<1>1. CASE ServerCrash BY <1>1 DEF ServerCrash
<1>2. CASE SandboxCrash BY <1>2 DEF SandboxCrash, TypeOK
<1>3. CASE RunnerDies BY <1>3 DEF RunnerDies
<1>4. CASE PipeFails BY <1>4 DEF PipeFails
<1>5. CASE FinalizerFails BY <1>5 DEF FinalizerFails
<1>6. ASSUME NEW p \in Callers, TmuxQueryFails(p)
      PROVE  RowConsistent' /\ ExitEvidence'
    BY <1>6 DEF TmuxQueryFails, Idle, TypeOK
<1> QED BY <1>1, <1>2, <1>3, <1>4, <1>5, <1>6 DEF Environment

LEMMA NextInv == Inv /\ [Next]_vars => Inv'
<1> SUFFICES ASSUME Inv, [Next]_vars PROVE Inv'
    OBVIOUS
<1>1. CASE Restart
    BY <1>1, NextTypeOK
    DEF Restart, Inv, Next, RowConsistent, ExitEvidence, ScriptEnded,
        jobVars, procVars, callVars
<1>2. CASE UNCHANGED vars
    BY <1>2, NextTypeOK DEF vars, Inv, RowConsistent, ExitEvidence, ScriptEnded
<1> QED BY <1>1, <1>2, RunJobInv, RunnerInv, PipeInv, CallInv, EnvironmentInv
    DEF Next

\* Inv is an invariant: the row stays consistent, with the evidence for it.
THEOREM InvCorrect == Spec => []Inv
<1> QED BY InitInv, NextInv, PTL DEF Spec

\* The columns of the row always agree: an exit code and an end time exactly
\* when the job is finished, whichever writer came first.
THEOREM RowAlwaysConsistent == Spec => []RowConsistent
<1>1. Inv => RowConsistent BY DEF Inv
<1> QED BY <1>1, InvCorrect, PTL

\* An exited row holds the code the script really ended with, and a PTY job
\* is exited only once its output has been drained.
THEOREM ExitIsGenuine == Spec => []ExitedIsGenuine
<1>1. Inv => ExitedIsGenuine BY DEF Inv, ExitEvidence, ExitedIsGenuine
<1> QED BY <1>1, InvCorrect, PTL

-----------------------------------------------------------------------------
(* The jobs table *)

\* What a step does to the row: nothing, or one statement of db.go.
RowStep ==
    \/ row' = row
    \/ row = NoRow /\ row' = NewRow
    \/ row' = Transition(row, {"created"}, "starting")
    \/ \E from \in {{"starting"}, {"created", "starting"}} :
           row' = TransitionIfNoExit(row, from, "running")
    \/ \E target \in {"failed", "lost"} : row' = Transition(row, Active, target)
    \/ row' = Transition(row, Active \cup {"exited"}, "terminated")
    \/ \E code \in Codes : row' = RecordRunnerExit(row, code)
    \/ row' = NoRow

LEMMA CallRowStep ==
    ASSUME Inv, NEW p \in Callers, Call(p)
    PROVE  RowStep
<1>0. TypeOK /\ ExitEvidence /\ Consistent(snap[p])
    BY DEF Inv, ExitEvidence
<1>1. CASE Materialize(p)
    <2>1. /\ snap[p].status \in Terminal => snap[p].ended
          /\ snap[p].status \notin Terminal => snap[p].exit = NoCode
        BY <1>0 DEF Consistent
    <2>2. \/ row' = row
          \/ CompletedExit /\ row' = RecordRunnerExit(row, exitFile)
        BY <1>1, <2>1 DEF Materialize, WriteRow
    <2>3. CompletedExit => exitFile \in Codes
        BY <1>0 DEF CompletedExit, Artifacts, ExitEvidence
    <2> QED BY <2>2, <2>3 DEF RowStep
<1>2. CASE MaterializeLive(p)
    BY <1>2 DEF MaterializeLive, WriteRow, RowStep
<1>3. CASE MaterializeLost(p)
    BY <1>3 DEF MaterializeLost, WriteRow, RowStep
<1>4. CASE MarkTerminated(p)
    BY <1>4 DEF MarkTerminated, RowStep
<1>5. CASE DeleteRow(p)
    BY <1>5 DEF DeleteRow, RowStep
<1>6. ASSUME row' = row PROVE RowStep
    BY <1>6 DEF RowStep
<1> QED BY <1>1, <1>2, <1>3, <1>4, <1>5, <1>6
    DEF Call, Begin, GetJob, ListSessions, IsOutputPipeActive, CheckPending, ReturnView,
        ContinueWithView, KillFinished, KillTerminated, CleanupJob, RemoveJobDir, jobVars

LEMMA NextRowStep == Inv /\ [Next]_vars => RowStep
<1> SUFFICES ASSUME Inv, [Next]_vars PROVE RowStep
    OBVIOUS
<1>1. CASE RunJob
    <2>1. InsertJob => row = NoRow
        BY DEF InsertJob, GoTo, Inv, ExitEvidence
    <2> QED BY <1>1, <2>1
        DEF RunJob, AllocateJobDir, AbortAllocation, InsertJob, MarkStarting,
            CreateJobSession, CreateJobSessionFails, EnableOutputPipe,
            EnableOutputPipeFails, PipeIsReady, PipeReadyTimeout, OpenStartGate,
            MarkRunning, FinishStart, MarkStartFailed, CleanupFailedStart, jobVars, RowStep
<1>2. CASE Runner
    BY <1>2 DEF Runner, StartScript, ScriptEnds, WriteExitCode, WriteEndedAt,
                RunnerExits, RunnerFrame, RowStep
<1>3. CASE Pipe
    <2>1. "exit-code" \in files => exitFile \in Codes
        BY DEF Inv, ExitEvidence
    <2> QED BY <1>3, <2>1
        DEF Pipe, SanitizerStarts, PipeDrained, FinalizerChecks, FinalizerRecords, RowStep
<1>4. CASE Restart
    BY <1>4 DEF Restart, jobVars, RowStep
<1>5. CASE Environment
    BY <1>5 DEF Environment, ServerCrash, SandboxCrash, ServerStops, TmuxQueryFails,
                RunnerDies, PipeFails, FinalizerFails, jobVars, RowStep
<1>6. CASE UNCHANGED vars
    BY <1>6 DEF vars, RowStep
<1> QED BY <1>1, <1>2, <1>3, <1>4, <1>5, <1>6, CallRowStep DEF Next

\* Each statement is a step of the ledger, or none: an active row has no code
\* yet, so the code that appears with a terminal status is its first.
LEMMA RowStepInLedger ==
    ASSUME row \in Rows, Consistent(row), RowStep
    PROVE  [Ledger!LedgerNext]_<<row.status, row.exit>>
<1>0. /\ row.status \in Active => row.exit = NoCode
      /\ row.status \in Terminal => row.exit # NoCode
      /\ row.status = "absent" => row.exit = NoCode
    BY DEF Consistent, Active, Terminal
<1> USE <1>0, ConstantsAssumption
    DEF Ledger!LedgerNext, Active, Terminal, Rows, Statuses
<1>1. CASE row' = row
    BY <1>1
<1>2. CASE row = NoRow /\ row' = NewRow
    BY <1>2 DEF NoRow, NewRow, Ledger!Insert
<1>3. CASE row' = Transition(row, {"created"}, "starting")
    BY <1>3 DEF Transition, Ledger!Advance, Ledger!Forward
<1>4. CASE \E from \in {{"starting"}, {"created", "starting"}} :
               row' = TransitionIfNoExit(row, from, "running")
    BY <1>4 DEF TransitionIfNoExit, Transition, Ledger!Advance, Ledger!Forward
<1>5. CASE \E target \in {"failed", "lost"} : row' = Transition(row, Active, target)
    BY <1>5 DEF Transition, Ledger!Finish, Ledger!Active, Ledger!Terminal
<1>6. CASE row' = Transition(row, Active \cup {"exited"}, "terminated")
    BY <1>6 DEF Transition, Ledger!Finish, Ledger!Override, Ledger!Active, Ledger!Terminal
<1>7. CASE \E code \in Codes : row' = RecordRunnerExit(row, code)
    BY <1>7 DEF RecordRunnerExit, Ledger!Finish, Ledger!Active, Ledger!Terminal
<1>8. CASE row' = NoRow
    BY <1>8 DEF NoRow, Ledger!Remove
<1> QED BY <1>1, <1>2, <1>3, <1>4, <1>5, <1>6, <1>7, <1>8 DEF RowStep

\* The row behaves as the jobs table promises, whatever interleaves and fails.
THEOREM LedgerIsRefined == Spec => LedgerRefined
<1>1. Init => Ledger!LedgerInit
    BY DEF Init, NoRow, Ledger!LedgerInit
<1>2. Inv /\ [Next]_vars => [Ledger!LedgerNext]_<<row.status, row.exit>>
    BY NextRowStep, RowStepInLedger DEF Inv, TypeOK, RowConsistent
<1> QED BY <1>1, <1>2, InvCorrect, PTL DEF Spec, LedgerRefined, Ledger!LedgerSpec, Ledger!ledger
=============================================================================
