------------------------------ MODULE AgentRun ------------------------------
(***************************************************************************)
(* Agent runs of the dify-agent server: RunScheduler with its supervisor   *)
(* task per run, AgentRunRunner with its cancellation flag, and the Lua    *)
(* scripts of RedisRunStore that decide how a run ends.                    *)
(*                                                                         *)
(* A step is what a task does between two awaits, together with the Redis  *)
(* command it awaits. A task cancelled while a command is in flight may    *)
(* leave it behind to be executed later (late). What a run computes, its   *)
(* snapshot and its usage are left out; so is the expiry of keys, which    *)
(* happens a retention period after the last write.                        *)
(***************************************************************************)
EXTENDS Integers, Sequences

CONSTANTS
    Runs,           \* identifiers of runs
    MaxEvents,      \* bound on the length of a run's event stream
    LateCommands,   \* may an abandoned Redis command be executed later?
    Faults,         \* kinds of faults that may happen
    MaxFaults       \* bound on the number of faults

AllFaults == {"create", "append", "terminal", "observer", "supervisor", "crash"}

ASSUME RunConstants ==
    /\ MaxEvents \in Nat
    /\ LateCommands \in BOOLEAN
    /\ Faults \subseteq AllFaults
    /\ MaxFaults \in Nat

VARIABLES
    status,     \* the run record in Redis
    intent,     \* is there an entry in the cancel-intent stream?
    events,     \* the event stream
    process,    \* the server process: "up", its shutdown, "crashed"
    sup,        \* the admission of a run, then its supervisor task
    runner,     \* the runner task
    flag,       \* cancel_requested
    late,       \* abandoned commands that Redis may still execute
    broken,     \* has a write that decides the run failed?
    faults      \* faults so far

store == <<status, intent, events>>
vars == <<status, intent, events, process, sup, runner, flag, late, broken, faults>>

TerminalEvents == {"succeeded", "failed", "cancelled"}
Events == {"started", "stream"} \cup TerminalEvents

Ended(r) == status[r] \in TerminalEvents

-----------------------------------------------------------------------------
(* RedisRunStore: every command is atomic *)

AppendEvent(r, e) ==
    /\ events' = [events EXCEPT ![r] = Append(@, e)]
    /\ UNCHANGED <<status, intent>>

\* Mutant: the status is not compared.
FinalizeRunUnguarded(r, outcome) ==
    IF status[r] # "absent" /\ ~intent[r]
    THEN /\ status' = [status EXCEPT ![r] = outcome]
         /\ events' = [events EXCEPT ![r] = Append(@, outcome)]
         /\ UNCHANGED intent
    ELSE UNCHANGED store

\* Mutant: an accepted cancellation does not prevent another outcome.
FinalizeRunDespiteIntent(r, outcome) ==
    IF status[r] = "running"
    THEN /\ status' = [status EXCEPT ![r] = outcome]
         /\ events' = [events EXCEPT ![r] = Append(@, outcome)]
         /\ UNCHANGED intent
    ELSE UNCHANGED store

\* The finalize script: the first terminal wins, an accepted intent before it.
FinalizeRun(r, outcome) ==
    IF status[r] = "running" /\ ~intent[r]
    THEN /\ status' = [status EXCEPT ![r] = outcome]
         /\ events' = [events EXCEPT ![r] = Append(@, outcome)]
         /\ UNCHANGED intent
    ELSE UNCHANGED store

FinalizeCancellation(r) ==
    IF status[r] = "running" /\ intent[r]
    THEN /\ status' = [status EXCEPT ![r] = "cancelled"]
         /\ events' = [events EXCEPT ![r] = Append(@, "cancelled")]
         /\ intent' = [intent EXCEPT ![r] = FALSE]
    ELSE UNCHANGED store

Execute(r, command) ==
    CASE command \in {"started", "stream"} -> AppendEvent(r, command)
      [] command \in {"succeeded", "failed"} -> FinalizeRun(r, command)
      [] command = "cancelled" -> FinalizeCancellation(r)

-----------------------------------------------------------------------------
(* Tasks and what they have in flight *)

\* active_tasks: the supervisors that have not finished.
Active == {r \in Runs : sup[r] \notin {"new", "creating", "created", "done", "lost"}}

RunnerCommand(r) ==
    CASE runner[r] = "start" -> {"started"}
      [] runner[r] = "agent" -> IF flag[r] THEN {} ELSE {"stream"}
      [] runner[r] = "succeed" -> {"succeeded"}
      [] runner[r] = "fail" -> {"failed"}
      [] OTHER -> {}

SupervisorCommand(r) ==
    CASE sup[r] = "fail" -> {"failed"}
      [] sup[r] = "finalize" -> {"cancelled"}
      [] OTHER -> {}

\* A task is cancelled: what it has in flight may be executed later.
Abandon(r, commands) ==
    \/ UNCHANGED late
    \/ LateCommands /\ late' = [late EXCEPT ![r] = @ \cup commands]

\* cancel_runner_and_wait, up to its await. A runner inside the agent leaves
\* the compositor first, any other one is gone.
CancelRunner(r) ==
    IF flag[r] \/ runner[r] = "done" THEN UNCHANGED <<runner, flag, late>>
    ELSE /\ flag' = [flag EXCEPT ![r] = TRUE]
         /\ runner' = [runner EXCEPT ![r] = IF @ = "agent" THEN @ ELSE "done"]
         /\ Abandon(r, RunnerCommand(r))

Sup(r, from, to) == sup[r] = from /\ sup' = [sup EXCEPT ![r] = to]

Run(r, from, to) == runner[r] = from /\ runner' = [runner EXCEPT ![r] = to]

-----------------------------------------------------------------------------
Init == /\ status = [r \in Runs |-> "absent"]
        /\ intent = [r \in Runs |-> FALSE]
        /\ events = [r \in Runs |-> <<>>]
        /\ process = "up"
        /\ sup = [r \in Runs |-> "new"]
        /\ runner = [r \in Runs |-> "none"]
        /\ flag = [r \in Runs |-> FALSE]
        /\ late = [r \in Runs |-> {}]
        /\ broken = [r \in Runs |-> FALSE]
        /\ faults = 0

-----------------------------------------------------------------------------
(* RunScheduler.create_run and cancel_run *)

\* Mutant: shutdown does not wait for the lifecycle lock.
LockIgnored == TRUE

\* The lifecycle lock: one admission at a time, none once shutdown has begun.
LockFree == \A r \in Runs : sup[r] \notin {"creating", "created"}

AdmitRun(r) ==
    /\ process = "up" /\ LockFree
    /\ Sup(r, "new", "creating")
    /\ UNCHANGED <<store, process, runner, flag, late, broken, faults>>

CreateRecord(r) ==
    /\ Sup(r, "creating", "created")
    /\ status' = [status EXCEPT ![r] = "running"]
    /\ UNCHANGED <<intent, events, process, runner, flag, late, broken, faults>>

ScheduleRun(r) ==
    /\ Sup(r, "created", "wait")
    /\ Run(r, "none", "start")
    /\ UNCHANGED <<store, process, flag, late, broken, faults>>

\* On any process, at any time; a finished run is answered with 409.
RequestCancellation(r) ==
    /\ status[r] = "running" /\ sup[r] # "created"
    /\ intent' = [intent EXCEPT ![r] = TRUE]
    /\ UNCHANGED <<status, events, process, sup, runner, flag, late, broken, faults>>

-----------------------------------------------------------------------------
(* AgentRunRunner.run *)

RunnerFrame == UNCHANGED <<process, sup, flag, late, broken, faults>>

EmitStarted(r) ==
    /\ Run(r, "start", "agent")
    /\ AppendEvent(r, "started")
    /\ RunnerFrame

\* handle_events stops the agent as soon as the flag is set.
EmitStreamEvent(r) ==
    /\ runner[r] = "agent" /\ ~flag[r] /\ Len(events[r]) < MaxEvents
    /\ AppendEvent(r, "stream")
    /\ UNCHANGED runner /\ RunnerFrame

\* The agent returns, raises, exceeds its time limit, or has been cancelled.
AgentEnds(r) ==
    /\ \E to \in IF flag[r] THEN {"done"} ELSE {"succeed", "fail"} : Run(r, "agent", to)
    /\ UNCHANGED store /\ RunnerFrame

EmitTerminal(r) ==
    /\ \/ Run(r, "succeed", "done") /\ FinalizeRun(r, "succeeded")
       \/ Run(r, "fail", "done") /\ FinalizeRun(r, "failed")
    /\ RunnerFrame

Runner(r) == EmitStarted(r) \/ EmitStreamEvent(r) \/ AgentEnds(r) \/ EmitTerminal(r)

-----------------------------------------------------------------------------
(* RunScheduler._run_record *)

SupFrame == UNCHANGED <<process, broken, faults>>

ObserveIntent(r) ==
    /\ intent[r]
    /\ Sup(r, "wait", "stop")
    /\ CancelRunner(r)
    /\ UNCHANGED store /\ SupFrame

\* Mutants: shutdown does not wait for the runner it has cancelled, or waits
\* for ever.
RunnerAbandoned(r) ==
    /\ \/ runner[r] = "done" /\ \/ Sup(r, "wait", "check")
                                \/ Sup(r, "stop", "finalize")
                                \/ Sup(r, "stopForFailure", "fail")
       \/ Sup(r, "stopForShutdown", "checkAtShutdown")
    /\ UNCHANGED <<store, runner, flag, late>> /\ SupFrame

RunnerFinishedUnlessShutdown(r) ==
    /\ runner[r] = "done"
    /\ \/ Sup(r, "wait", "check")
       \/ Sup(r, "stop", "finalize")
       \/ Sup(r, "stopForFailure", "fail")
    /\ UNCHANGED <<store, runner, flag, late>> /\ SupFrame

RunnerFinished(r) ==
    /\ runner[r] = "done"
    /\ \/ Sup(r, "wait", "check")
       \/ Sup(r, "stop", "finalize")
       \/ Sup(r, "stopForFailure", "fail")
       \/ Sup(r, "stopForShutdown", "checkAtShutdown")
    /\ UNCHANGED <<store, runner, flag, late>> /\ SupFrame

\* Mutant: a runner that has finished is taken to have decided the run.
GetIntentUnlessFinished(r) ==
    /\ \/ Sup(r, "check", "done")
       \/ Sup(r, "recheck", IF intent[r] THEN "finalize" ELSE "done")
       \/ Sup(r, "checkAtShutdown", IF intent[r] THEN "finalize" ELSE "fail")
    /\ UNCHANGED <<store, runner, flag, late>> /\ SupFrame

\* get_cancellation_intent, wherever the supervisor asks for it.
GetIntent(r) ==
    /\ \/ Sup(r, "check", IF intent[r] THEN "finalize" ELSE "done")
       \/ Sup(r, "recheck", IF intent[r] THEN "finalize" ELSE "done")
       \/ Sup(r, "checkAtShutdown", IF intent[r] THEN "finalize" ELSE "fail")
    /\ UNCHANGED <<store, runner, flag, late>> /\ SupFrame

\* Mutant: the answer of emit_run_failed is not looked at.
MarkFailedUnchecked(r) ==
    /\ Sup(r, "fail", "done")
    /\ FinalizeRun(r, "failed")
    /\ UNCHANGED <<runner, flag, late>> /\ SupFrame

\* emit_run_failed; when it is not applied to a running run, an intent was
\* accepted meanwhile.
MarkFailed(r) ==
    /\ Sup(r, "fail", IF status[r] = "running" /\ intent[r] THEN "recheck" ELSE "done")
    /\ FinalizeRun(r, "failed")
    /\ UNCHANGED <<runner, flag, late>> /\ SupFrame

PublishCancelled(r) ==
    /\ Sup(r, "finalize", "done")
    /\ FinalizeCancellation(r)
    /\ UNCHANGED <<runner, flag, late>> /\ SupFrame

\* The handler of CancelledError.
HandleShutdown(r) ==
    /\ Sup(r, "interrupted", "stopForShutdown")
    /\ CancelRunner(r)
    /\ UNCHANGED store /\ SupFrame

Supervisor(r) == \/ ObserveIntent(r) \/ RunnerFinished(r) \/ GetIntent(r)
                 \/ MarkFailed(r) \/ PublishCancelled(r) \/ HandleShutdown(r)

-----------------------------------------------------------------------------
(* RunScheduler.shutdown *)

ShutdownFrame == UNCHANGED <<store, runner, flag, broken, faults>>

BeginShutdown ==
    /\ process = "up" /\ LockFree
    /\ process' = IF Active = {} THEN "stopped" ELSE "draining"
    /\ UNCHANGED <<sup, late>> /\ ShutdownFrame

\* The grace period is over: every pending supervisor is cancelled, wherever
\* it awaits.
CancelPending ==
    /\ process = "draining" /\ Active # {}
    /\ process' = "cancelling"
    /\ sup' = [r \in Runs |-> IF r \in Active THEN "interrupted" ELSE sup[r]]
    /\ \E S \in IF LateCommands THEN SUBSET Active ELSE {{}} :
           late' = [r \in Runs |-> IF r \in S THEN late[r] \cup SupervisorCommand(r)
                                   ELSE late[r]]
    /\ ShutdownFrame

ShutdownReturns ==
    /\ process \in {"draining", "cancelling"} /\ Active = {}
    /\ process' = "stopped"
    /\ UNCHANGED <<sup, late>> /\ ShutdownFrame

Shutdown == BeginShutdown \/ CancelPending \/ ShutdownReturns

-----------------------------------------------------------------------------
(* What may go wrong *)

Fault(kind) == kind \in Faults /\ faults < MaxFaults /\ faults' = faults + 1

\* Redis executes a command whose sender no longer waits for it.
ExecuteLate(r) ==
    /\ \E command \in late[r] :
           /\ Execute(r, command)
           /\ late' = [late EXCEPT ![r] = @ \ {command}]
    /\ UNCHANGED <<process, sup, runner, flag, broken, faults>>

\* The SET of create_run raises; the record may be there nevertheless.
CreateFails(r) ==
    /\ Fault("create")
    /\ Sup(r, "creating", "done")
    /\ \/ UNCHANGED status
       \/ status' = [status EXCEPT ![r] = "running"]
    /\ broken' = [broken EXCEPT ![r] = TRUE]
    /\ UNCHANGED <<intent, events, process, runner, flag, late>>

\* An append raises: fatal for the agent, which then fails, but "run_started"
\* is outside of the try block.
AppendFails(r) ==
    /\ Fault("append")
    /\ \/ Run(r, "start", "done") /\ broken' = [broken EXCEPT ![r] = TRUE]
       \/ ~flag[r] /\ Run(r, "agent", "fail") /\ UNCHANGED broken
    /\ \/ UNCHANGED late
       \/ LateCommands /\ late' = [late EXCEPT ![r] = @ \cup RunnerCommand(r)]
    /\ UNCHANGED <<store, process, sup, flag>>

\* The runner's own terminal write raises, executed or not.
TerminalFails(r) ==
    /\ Fault("terminal")
    /\ runner[r] \in {"succeed", "fail"}
    /\ runner' = [runner EXCEPT ![r] = "done"]
    /\ Abandon(r, RunnerCommand(r))
    /\ broken' = [broken EXCEPT ![r] = TRUE]
    /\ UNCHANGED <<store, process, sup, flag>>

\* The XREAD of the observer raises.
ObserverFails(r) ==
    /\ Fault("observer")
    /\ Sup(r, "wait", "stopForFailure")
    /\ CancelRunner(r)
    /\ UNCHANGED <<store, process, broken>>

\* A command of the supervisor raises: logged, and the supervisor ends.
SupervisorFails(r) ==
    /\ Fault("supervisor")
    /\ sup[r] \in {"check", "recheck", "checkAtShutdown", "fail", "finalize"}
    /\ sup' = [sup EXCEPT ![r] = "done"]
    /\ Abandon(r, SupervisorCommand(r))
    /\ broken' = [broken EXCEPT ![r] = TRUE]
    /\ UNCHANGED <<store, process, runner, flag>>

Crash ==
    /\ Fault("crash")
    /\ process \in {"up", "draining", "cancelling"}
    /\ process' = "crashed"
    /\ sup' = [r \in Runs |-> IF sup[r] \in {"new", "done"} THEN sup[r] ELSE "lost"]
    /\ runner' = [r \in Runs |-> IF runner[r] = "none" THEN "none" ELSE "done"]
    /\ \E S \in IF LateCommands THEN SUBSET Runs ELSE {{}} :
           late' = [r \in Runs |->
                       IF r \in S
                       THEN late[r] \cup RunnerCommand(r) \cup SupervisorCommand(r)
                       ELSE late[r]]
    /\ UNCHANGED <<store, flag, broken>>

Environment(r) == \/ ExecuteLate(r) \/ CreateFails(r) \/ AppendFails(r)
                  \/ TerminalFails(r) \/ ObserverFails(r) \/ SupervisorFails(r)

-----------------------------------------------------------------------------
Api(r) == AdmitRun(r) \/ CreateRecord(r) \/ ScheduleRun(r) \/ RequestCancellation(r)

Next == \/ \E r \in Runs : Api(r) \/ Runner(r) \/ Supervisor(r) \/ Environment(r)
        \/ Shutdown \/ Crash

Spec == Init /\ [][Next]_vars

\* The event loop runs every task that can go on. The agent ends because its
\* time is limited (run_timeout_seconds) and a cancelled one unwinds; a client
\* need not cancel and the process need not be shut down, but a shutdown that
\* has begun goes on.
Fairness ==
    /\ \A r \in Runs : /\ WF_vars(CreateRecord(r) \/ ScheduleRun(r))
                       /\ WF_vars(EmitStarted(r) \/ AgentEnds(r) \/ EmitTerminal(r))
                       /\ WF_vars(Supervisor(r))
    /\ WF_vars(process # "up" /\ Shutdown)

FairSpec == Spec /\ Fairness

-----------------------------------------------------------------------------
(* Properties *)

\* Every variable has its type.
TypeOK ==
    /\ status \in [Runs -> {"absent", "running"} \cup TerminalEvents]
    /\ intent \in [Runs -> BOOLEAN]
    /\ events \in [Runs -> Seq(Events)]
    /\ process \in {"up", "draining", "cancelling", "stopped", "crashed"}
    /\ sup \in [Runs -> {"new", "creating", "created", "wait", "stop", "check",
                         "finalize", "stopForFailure", "fail", "recheck",
                         "interrupted", "stopForShutdown", "checkAtShutdown",
                         "done", "lost"}]
    /\ runner \in [Runs -> {"none", "start", "agent", "succeed", "fail", "done"}]
    /\ flag \in [Runs -> BOOLEAN]
    /\ late \in [Runs -> SUBSET Events]
    /\ broken \in [Runs -> BOOLEAN]
    /\ faults \in 0 .. MaxFaults

\* The single-terminal invariant: a run has at most one terminal event, however
\* its runner, its supervisor, shutdown and abandoned commands race, and the
\* run record has the status of that event.
SingleTerminal ==
    \A r \in Runs :
        /\ \A i, j \in DOMAIN events[r] :
               /\ events[r][i] \in TerminalEvents => status[r] = events[r][i]
               /\ events[r][i] \in TerminalEvents /\ events[r][j] \in TerminalEvents
                  => i = j
        /\ Ended(r) => \E i \in DOMAIN events[r] : events[r][i] = status[r]

\* A terminal status is published only after the run's runner has stopped, so
\* whoever waits for it knows that cleanup is complete.
TerminalMeansStopped ==
    \A r \in Runs : Ended(r) => runner[r] \notin {"start", "agent"}

\* When no command outlives the task that awaited it, the terminal event is the
\* last one of the stream: nothing a reader that stops there would miss.
TerminalIsLast ==
    ~LateCommands =>
        \A r \in Runs : \A i \in DOMAIN events[r] :
            events[r][i] \in TerminalEvents => i = Len(events[r])

\* A supervisor that ends without an error leaves a finished run behind,
\* whether its run succeeded, failed, was cancelled or was cut off by shutdown
\* in any of its awaits.
EndedMeansTerminal ==
    \A r \in Runs : sup[r] = "done" /\ ~broken[r] => Ended(r)

\* When shutdown has returned, every run this process admitted is finished:
\* no admission slipped in between the flag and the list of tasks.
ShutdownLeavesNoRun ==
    process = "stopped" => \A r \in Runs : status[r] = "running" => broken[r]

\* Why these hold, as an inductive invariant: how far the supervisor of a run
\* has come tells what its runner and the store look like.
Evidence(r) ==
    /\ intent[r] => status[r] = "running"
    /\ sup[r] \in {"new", "creating"} => status[r] = "absent" /\ runner[r] = "none"
    /\ sup[r] \notin {"new", "creating", "done", "lost"} => status[r] # "absent"
    /\ runner[r] # "none" => status[r] # "absent"
    /\ sup[r] = "created" => status[r] = "running" /\ runner[r] = "none"
    /\ sup[r] \in {"new", "creating", "created", "wait", "check"} => ~flag[r]
    /\ sup[r] \in {"check", "fail", "recheck", "finalize", "checkAtShutdown"}
           => runner[r] = "done"
    /\ late[r] \cap TerminalEvents # {} => runner[r] = "done"
    /\ sup[r] \in {"stop", "recheck", "finalize"} => intent[r] \/ Ended(r)
    /\ runner[r] = "done" /\ sup[r] # "lost" /\ ~flag[r] /\ ~broken[r]
           => intent[r] \/ Ended(r)
    /\ runner[r] \in {"start", "agent"} => ~Ended(r)
    /\ sup[r] = "done" /\ ~broken[r] => Ended(r)
    /\ sup[r] = "lost" => process = "crashed"
    /\ sup[r] \in {"creating", "created"} => process = "up"
    /\ process = "stopped" => sup[r] \in {"new", "done"}

RunEvidence == \A r \in Runs : Evidence(r)

phase == [r \in Runs |-> IF status[r] = "running" /\ intent[r]
                         THEN "cancelling" ELSE status[r]]

Lifecycle == INSTANCE RunLifecycle

\* The first of success, failure and accepted cancellation wins, for good.
LifecycleRefined == Lifecycle!LifecycleSpec

\* An accepted cancellation is carried out, also when the observer dies or the
\* process shuts down.
CancellationEventuallyDone ==
    \A r \in Runs : intent[r] ~> status[r] = "cancelled"

\* A run that was admitted ends.
RunEventuallyEnds ==
    \A r \in Runs : sup[r] = "wait" ~> Ended(r)

\* A shutdown that has begun returns.
ShutdownEventuallyReturns == process = "draining" ~> process = "stopped"
=============================================================================
