--------------------------- MODULE AgentRunProofs ---------------------------
(* Proofs about AgentRun, for every set of runs, every kind and number of   *)
(* faults, and Redis commands that may be executed late.                   *)
EXTENDS AgentRun, TLAPS

Statuses == {"absent", "running"} \cup TerminalEvents

-----------------------------------------------------------------------------
(* The store *)

\* What appending one event does to a stream.
LEMMA Appended ==
    ASSUME NEW s \in Seq(Events), NEW e \in Events
    PROVE  /\ Append(s, e) \in Seq(Events)
           /\ DOMAIN Append(s, e) = DOMAIN s \cup {Len(s) + 1}
           /\ Len(s) + 1 \notin DOMAIN s
           /\ \A i \in DOMAIN s : Append(s, e)[i] = s[i]
           /\ Append(s, e)[Len(s) + 1] = e
OBVIOUS

\* The commands keep the types of the store.
StoreTypes == /\ status \in [Runs -> Statuses]
              /\ intent \in [Runs -> BOOLEAN]
              /\ events \in [Runs -> Seq(Events)]

LEMMA AppendEventType ==
    ASSUME StoreTypes, NEW r \in Runs, NEW e \in {"started", "stream"}, AppendEvent(r, e)
    PROVE  StoreTypes'
<1>1. Append(events[r], e) \in Seq(Events)
    BY Appended DEF StoreTypes, Events
<1> QED BY <1>1 DEF StoreTypes, AppendEvent

LEMMA FinalizeRunType ==
    ASSUME StoreTypes, NEW r \in Runs, NEW o \in {"succeeded", "failed"}, FinalizeRun(r, o)
    PROVE  StoreTypes'
<1>1. Append(events[r], o) \in Seq(Events)
    BY Appended DEF StoreTypes, Events, TerminalEvents
<1> QED BY <1>1 DEF StoreTypes, FinalizeRun, store, Statuses, TerminalEvents

LEMMA FinalizeCancellationType ==
    ASSUME StoreTypes, NEW r \in Runs, FinalizeCancellation(r)
    PROVE  StoreTypes'
<1>1. Append(events[r], "cancelled") \in Seq(Events)
    BY Appended DEF StoreTypes, Events, TerminalEvents
<1> QED BY <1>1 DEF StoreTypes, FinalizeCancellation, store, Statuses, TerminalEvents

LEMMA ExecuteType ==
    ASSUME StoreTypes, NEW r \in Runs, NEW c \in Events, Execute(r, c)
    PROVE  StoreTypes'
<1>1. CASE c \in {"started", "stream"}
    BY <1>1, AppendEventType DEF Execute
<1>2. CASE c \in {"succeeded", "failed"}
    BY <1>2, FinalizeRunType DEF Execute
<1>3. CASE c = "cancelled"
    BY <1>3, FinalizeCancellationType DEF Execute
<1> QED BY <1>1, <1>2, <1>3 DEF Events, TerminalEvents

-----------------------------------------------------------------------------
(* Type correctness *)

LEMMA InitTypeOK == Init => TypeOK
BY RunConstants DEF Init, TypeOK, Events

LEMMA CommandTypes ==
    ASSUME NEW r \in Runs
    PROVE  /\ RunnerCommand(r) \subseteq Events
           /\ SupervisorCommand(r) \subseteq Events
BY DEF RunnerCommand, SupervisorCommand, Events, TerminalEvents

LEMMA CancelRunnerType ==
    ASSUME TypeOK, NEW r \in Runs, CancelRunner(r)
    PROVE  /\ runner' \in [Runs -> {"none", "start", "agent", "succeed", "fail", "done"}]
           /\ flag' \in [Runs -> BOOLEAN]
           /\ late' \in [Runs -> SUBSET Events]
<1>1. late[r] \cup RunnerCommand(r) \in SUBSET Events
    BY CommandTypes DEF TypeOK
<1>2. CASE flag[r] \/ runner[r] = "done"
    BY <1>2 DEF TypeOK, CancelRunner
<1>3. CASE ~(flag[r] \/ runner[r] = "done")
    <2>0. \/ late' = late
          \/ late' = [late EXCEPT ![r] = late[r] \cup RunnerCommand(r)]
        BY <1>3 DEF CancelRunner, Abandon
    <2>1. late' \in [Runs -> SUBSET Events]
        BY <1>1, <2>0 DEF TypeOK
    <2>2. /\ flag' = [flag EXCEPT ![r] = TRUE]
          /\ runner' = [runner EXCEPT ![r] = IF @ = "agent" THEN @ ELSE "done"]
        BY <1>3 DEF CancelRunner
    <2> QED BY <2>1, <2>2 DEF TypeOK
<1> QED BY <1>2, <1>3

LEMMA NextTypeOK == TypeOK /\ [Next]_vars => TypeOK'
<1> SUFFICES ASSUME TypeOK, [Next]_vars PROVE TypeOK'
    OBVIOUS
<1>0. StoreTypes
    BY DEF TypeOK, StoreTypes, Statuses
<1>f. ASSUME NEW kind, Fault(kind) PROVE faults' \in 0 .. MaxFaults
    BY <1>f, RunConstants DEF Fault, TypeOK
<1>1. ASSUME NEW r \in Runs, Api(r) PROVE TypeOK'
    <2>1. CASE AdmitRun(r) BY <2>1 DEF AdmitRun, Sup, TypeOK, store
    <2>2. CASE CreateRecord(r) BY <2>2 DEF CreateRecord, Sup, TypeOK
    <2>3. CASE ScheduleRun(r) BY <2>3 DEF ScheduleRun, Sup, Run, TypeOK, store
    <2>4. CASE RequestCancellation(r) BY <2>4 DEF RequestCancellation, TypeOK
    <2> QED BY <1>1, <2>1, <2>2, <2>3, <2>4 DEF Api
<1>2. ASSUME NEW r \in Runs, Runner(r) PROVE TypeOK'
    <2>1. CASE EmitStarted(r)
        <3>1. StoreTypes' BY <1>0, <2>1, AppendEventType DEF EmitStarted
        <3> QED BY <2>1, <3>1
            DEF EmitStarted, Run, RunnerFrame, TypeOK, StoreTypes, Statuses
    <2>2. CASE EmitStreamEvent(r)
        <3>1. StoreTypes' BY <1>0, <2>2, AppendEventType DEF EmitStreamEvent
        <3> QED BY <2>2, <3>1
            DEF EmitStreamEvent, RunnerFrame, TypeOK, StoreTypes, Statuses
    <2>3. CASE AgentEnds(r)
        BY <2>3 DEF AgentEnds, Run, RunnerFrame, TypeOK, store
    <2>4. CASE EmitTerminal(r)
        <3>1. StoreTypes' BY <1>0, <2>4, FinalizeRunType DEF EmitTerminal
        <3> QED BY <2>4, <3>1
            DEF EmitTerminal, Run, RunnerFrame, TypeOK, StoreTypes, Statuses
    <2> QED BY <1>2, <2>1, <2>2, <2>3, <2>4 DEF Runner
<1>3. ASSUME NEW r \in Runs, Supervisor(r) PROVE TypeOK'
    <2>1. CASE ObserveIntent(r)
        BY <2>1, CancelRunnerType DEF ObserveIntent, Sup, SupFrame, TypeOK, store
    <2>2. CASE RunnerFinished(r)
        BY <2>2 DEF RunnerFinished, Sup, SupFrame, TypeOK, store
    <2>3. CASE GetIntent(r)
        BY <2>3 DEF GetIntent, Sup, SupFrame, TypeOK, store
    <2>4. CASE MarkFailed(r)
        <3>1. StoreTypes' BY <1>0, <2>4, FinalizeRunType DEF MarkFailed
        <3> QED BY <2>4, <3>1 DEF MarkFailed, Sup, SupFrame, TypeOK, StoreTypes, Statuses
    <2>5. CASE PublishCancelled(r)
        <3>1. StoreTypes' BY <1>0, <2>5, FinalizeCancellationType DEF PublishCancelled
        <3> QED BY <2>5, <3>1
            DEF PublishCancelled, Sup, SupFrame, TypeOK, StoreTypes, Statuses
    <2>6. CASE HandleShutdown(r)
        BY <2>6, CancelRunnerType DEF HandleShutdown, Sup, SupFrame, TypeOK, store
    <2> QED BY <1>3, <2>1, <2>2, <2>3, <2>4, <2>5, <2>6 DEF Supervisor
<1>4. ASSUME NEW r \in Runs, Environment(r) PROVE TypeOK'
    <2>1. CASE ExecuteLate(r)
        <3>1. PICK c \in late[r] : Execute(r, c) /\ late' = [late EXCEPT ![r] = @ \ {c}]
            BY <2>1 DEF ExecuteLate
        <3>2. c \in Events BY <3>1 DEF TypeOK
        <3>3. StoreTypes' BY <1>0, <3>1, <3>2, ExecuteType
        <3> QED BY <2>1, <3>1, <3>3 DEF ExecuteLate, TypeOK, StoreTypes, Statuses
    <2>2. CASE CreateFails(r)
        BY <1>f, <2>2 DEF CreateFails, Sup, TypeOK
    <2>3. CASE AppendFails(r)
        BY <1>f, <2>3, CommandTypes DEF AppendFails, Run, TypeOK, store
    <2>4. CASE TerminalFails(r)
        BY <1>f, <2>4, CommandTypes DEF TerminalFails, Abandon, TypeOK, store
    <2>5. CASE ObserverFails(r)
        BY <1>f, <2>5, CancelRunnerType DEF ObserverFails, Sup, TypeOK, store
    <2>6. CASE SupervisorFails(r)
        BY <1>f, <2>6, CommandTypes DEF SupervisorFails, Abandon, TypeOK, store
    <2> QED BY <1>4, <2>1, <2>2, <2>3, <2>4, <2>5, <2>6 DEF Environment
<1>5. CASE Shutdown
    <2>1. CASE BeginShutdown
        BY <2>1 DEF BeginShutdown, ShutdownFrame, TypeOK, store
    <2>2. CASE CancelPending
        BY <2>2, CommandTypes DEF CancelPending, ShutdownFrame, TypeOK, store
    <2>3. CASE ShutdownReturns
        BY <2>3 DEF ShutdownReturns, ShutdownFrame, TypeOK, store
    <2> QED BY <1>5, <2>1, <2>2, <2>3 DEF Shutdown
<1>6. CASE Crash
    BY <1>6, <1>f, CommandTypes DEF Crash, TypeOK, store
<1>7. CASE UNCHANGED vars
    BY <1>7 DEF vars, store, TypeOK
<1> QED BY <1>1, <1>2, <1>3, <1>4, <1>5, <1>6, <1>7 DEF Next

\* Every variable keeps its type, whatever the tasks and the faults do.
THEOREM TypeCorrect == Spec => []TypeOK
<1> QED BY InitTypeOK, NextTypeOK, PTL DEF Spec

-----------------------------------------------------------------------------
(* How far a run has come *)

LEMMA InitEvidence == Init => RunEvidence
BY DEF Init, RunEvidence, Evidence, TerminalEvents, Ended

\* What the terminal commands do to the record and the intent.
LEMMA FinalizeRunEffect ==
    ASSUME StoreTypes, NEW r \in Runs, NEW o \in {"succeeded", "failed"}, FinalizeRun(r, o)
    PROVE  /\ intent' = intent
           /\ \A q \in Runs : q # r => status'[q] = status[q]
           /\ status[r] = "running" /\ ~intent[r] => status'[r] = o
           /\ status[r] # "running" \/ intent[r] => status'[r] = status[r]
BY DEF StoreTypes, FinalizeRun, store

LEMMA FinalizeCancellationEffect ==
    ASSUME StoreTypes, NEW r \in Runs, FinalizeCancellation(r)
    PROVE  /\ \A q \in Runs : q # r => status'[q] = status[q] /\ intent'[q] = intent[q]
           /\ status[r] = "running" /\ intent[r] => status'[r] = "cancelled" /\ ~intent'[r]
           /\ status[r] # "running" \/ ~intent[r] =>
                  status'[r] = status[r] /\ intent'[r] = intent[r]
BY DEF StoreTypes, FinalizeCancellation, store

\* cancel_runner_and_wait stops a runner or lets it unwind; what it abandons
\* in the store is only terminal when the runner is gone.
LEMMA CancelRunnerEffect ==
    ASSUME TypeOK, NEW r \in Runs, CancelRunner(r)
    PROVE  /\ \A q \in Runs : q # r => /\ runner'[q] = runner[q]
                                      /\ flag'[q] = flag[q]
                                      /\ late'[q] = late[q]
           /\ flag'[r] \/ runner[r] = "done"
           /\ runner'[r] \in {runner[r], "done"}
           /\ runner[r] = "done" => runner'[r] = "done" /\ flag'[r] = flag[r]
           /\ \/ late'[r] \cap TerminalEvents = late[r] \cap TerminalEvents
              \/ runner'[r] = "done"
<1>1. CASE flag[r] \/ runner[r] = "done"
    BY <1>1 DEF CancelRunner, TypeOK
<1>2. CASE ~(flag[r] \/ runner[r] = "done")
    <2>1. /\ flag' = [flag EXCEPT ![r] = TRUE]
          /\ runner' = [runner EXCEPT ![r] = IF runner[r] = "agent" THEN runner[r] ELSE "done"]
        BY <1>2 DEF CancelRunner
    <2>2. \/ late' = late
          \/ late' = [late EXCEPT ![r] = late[r] \cup RunnerCommand(r)]
        BY <1>2 DEF CancelRunner, Abandon
    <2>3. runner[r] = "agent" => RunnerCommand(r) \cap TerminalEvents = {}
        BY DEF RunnerCommand, TerminalEvents
    <2> QED BY <1>2, <2>1, <2>2, <2>3 DEF TypeOK
<1> QED BY <1>1, <1>2

RunInv == TypeOK /\ RunEvidence

\* The evidence of a run only depends on its own components, apart from the
\* process as a whole.
LEMMA EvidenceFrame ==
    ASSUME TypeOK, NEW q \in Runs, Evidence(q),
           status'[q] = status[q], intent'[q] = intent[q], sup'[q] = sup[q],
           runner'[q] = runner[q], flag'[q] = flag[q], late'[q] = late[q],
           broken'[q] = broken[q], process' = process
    PROVE  Evidence(q)'
BY DEF Evidence, Ended

LEMMA ApiEvidence ==
    ASSUME RunInv, NEW r \in Runs, Api(r)
    PROVE  RunEvidence'
<1> SUFFICES ASSUME NEW q \in Runs PROVE Evidence(q)'
    BY DEF RunEvidence
<1>0. TypeOK /\ Evidence(q) /\ Evidence(r)
    BY DEF RunInv, RunEvidence
<1>1. CASE q # r
    BY <1>0, <1>1, EvidenceFrame
    DEF Api, AdmitRun, CreateRecord, ScheduleRun, RequestCancellation,
        Sup, Run, store, TypeOK
<1>2. CASE q = r
    <2>1. CASE AdmitRun(r)
        BY <1>0, <1>2, <2>1 DEF AdmitRun, Sup, TypeOK, store, Evidence, Ended
    <2>2. CASE CreateRecord(r)
        BY <1>0, <1>2, <2>2 DEF CreateRecord, Sup, TypeOK, Evidence, Ended, TerminalEvents
    <2>3. CASE ScheduleRun(r)
        BY <1>0, <1>2, <2>3
        DEF ScheduleRun, Sup, Run, TypeOK, store, Evidence, Ended, TerminalEvents
    <2>4. CASE RequestCancellation(r)
        BY <1>0, <1>2, <2>4 DEF RequestCancellation, TypeOK, Evidence, Ended
    <2> QED BY <2>1, <2>2, <2>3, <2>4 DEF Api
<1> QED BY <1>1, <1>2

LEMMA RunnerEvidence ==
    ASSUME RunInv, NEW r \in Runs, Runner(r)
    PROVE  RunEvidence'
<1> SUFFICES ASSUME NEW q \in Runs PROVE Evidence(q)'
    BY DEF RunEvidence
<1>0. TypeOK /\ StoreTypes /\ Evidence(q) /\ Evidence(r)
    BY DEF RunInv, RunEvidence, TypeOK, StoreTypes, Statuses
<1>1. CASE EmitTerminal(r)
    <2>1. PICK o \in {"succeeded", "failed"} : FinalizeRun(r, o)
        BY <1>1 DEF EmitTerminal
    <2>2. CASE q # r
        BY <1>0, <1>1, <2>1, <2>2, FinalizeRunEffect, EvidenceFrame
        DEF EmitTerminal, Run, RunnerFrame, TypeOK
    <2>3. CASE q = r
        BY <1>0, <1>1, <2>1, <2>3, FinalizeRunEffect
        DEF EmitTerminal, Run, RunnerFrame, TypeOK, Evidence, Ended, TerminalEvents
    <2> QED BY <2>2, <2>3
<1>2. CASE EmitStarted(r) \/ EmitStreamEvent(r) \/ AgentEnds(r)
    <2>1. CASE q # r
        BY <1>0, <1>2, <2>1, EvidenceFrame
        DEF EmitStarted, EmitStreamEvent, AgentEnds, AppendEvent, Run, RunnerFrame,
            TypeOK, store
    <2>2. CASE q = r
        BY <1>0, <1>2, <2>2
        DEF EmitStarted, EmitStreamEvent, AgentEnds, AppendEvent, Run, RunnerFrame,
            TypeOK, store, Evidence, Ended
    <2> QED BY <2>1, <2>2
<1> QED BY <1>1, <1>2 DEF Runner

LEMMA SupervisorEvidence ==
    ASSUME RunInv, NEW r \in Runs, Supervisor(r)
    PROVE  RunEvidence'
<1> SUFFICES ASSUME NEW q \in Runs PROVE Evidence(q)'
    BY DEF RunEvidence
<1>0. TypeOK /\ StoreTypes /\ Evidence(q) /\ Evidence(r)
    BY DEF RunInv, RunEvidence, TypeOK, StoreTypes, Statuses
<1>1. CASE ObserveIntent(r) \/ HandleShutdown(r)
    <2>1. CASE q # r
        BY <1>0, <1>1, <2>1, CancelRunnerEffect, EvidenceFrame
        DEF ObserveIntent, HandleShutdown, Sup, SupFrame, TypeOK, store
    <2>2. CASE q = r
        BY <1>0, <1>1, <2>2, CancelRunnerEffect
        DEF ObserveIntent, HandleShutdown, Sup, SupFrame, TypeOK, store, Evidence, Ended
    <2> QED BY <2>1, <2>2
<1>2. CASE RunnerFinished(r) \/ GetIntent(r)
    <2>1. CASE q # r
        BY <1>0, <1>2, <2>1, EvidenceFrame
        DEF RunnerFinished, GetIntent, Sup, SupFrame, TypeOK, store
    <2>2. CASE q = r
        BY <1>0, <1>2, <2>2
        DEF RunnerFinished, GetIntent, Sup, SupFrame, TypeOK, store, Evidence, Ended
    <2> QED BY <2>1, <2>2
<1>3. CASE MarkFailed(r)
    <2>1. CASE q # r
        BY <1>0, <1>3, <2>1, FinalizeRunEffect, EvidenceFrame
        DEF MarkFailed, Sup, SupFrame, TypeOK
    <2>2. CASE q = r
        BY <1>0, <1>3, <2>2, FinalizeRunEffect
        DEF MarkFailed, Sup, SupFrame, TypeOK, Evidence, Ended, TerminalEvents
    <2> QED BY <2>1, <2>2
<1>4. CASE PublishCancelled(r)
    <2>1. CASE q # r
        BY <1>0, <1>4, <2>1, FinalizeCancellationEffect, EvidenceFrame
        DEF PublishCancelled, Sup, SupFrame, TypeOK
    <2>2. CASE q = r
        BY <1>0, <1>4, <2>2, FinalizeCancellationEffect
        DEF PublishCancelled, Sup, SupFrame, TypeOK, Evidence, Ended, TerminalEvents
    <2> QED BY <2>1, <2>2
<1> QED BY <1>1, <1>2, <1>3, <1>4 DEF Supervisor

\* A command that is left behind is terminal only if its sender is gone.
LEMMA AbandonEffect ==
    ASSUME TypeOK, NEW r \in Runs, NEW C \in SUBSET Events, Abandon(r, C)
    PROVE  /\ \A q \in Runs : q # r => late'[q] = late[q]
           /\ late'[r] \in {late[r], late[r] \cup C}
BY DEF Abandon, TypeOK

LEMMA CommandsTerminal ==
    ASSUME TypeOK, NEW r \in Runs
    PROVE  /\ RunnerCommand(r) \cap TerminalEvents # {} => runner[r] \in {"succeed", "fail"}
           /\ SupervisorCommand(r) # {} => sup[r] \in {"fail", "finalize"}
BY DEF RunnerCommand, SupervisorCommand, TerminalEvents, TypeOK

LEMMA EnvironmentEvidence ==
    ASSUME RunInv, NEW r \in Runs, Environment(r)
    PROVE  RunEvidence'
<1> SUFFICES ASSUME NEW q \in Runs PROVE Evidence(q)'
    BY DEF RunEvidence
<1>0. TypeOK /\ StoreTypes /\ Evidence(q) /\ Evidence(r)
    BY DEF RunInv, RunEvidence, TypeOK, StoreTypes, Statuses
<1>1. CASE ExecuteLate(r)
    <2>1. PICK c \in late[r] : Execute(r, c) /\ late' = [late EXCEPT ![r] = @ \ {c}]
        BY <1>1 DEF ExecuteLate
    <2>2. c \in Events /\ (c \in TerminalEvents => runner[r] = "done")
        BY <1>0, <2>1 DEF TypeOK, Evidence
    <2>3. /\ \A p \in Runs : p # r =>
                 status'[p] = status[p] /\ intent'[p] = intent[p] /\ late'[p] = late[p]
          /\ late'[r] \subseteq late[r]
          /\ \/ status'[r] = status[r] /\ intent'[r] = intent[r]
             \/ /\ c \in TerminalEvents /\ status[r] = "running"
                /\ status'[r] \in TerminalEvents /\ ~intent'[r]
        <3>1. CASE c \in {"started", "stream"}
            BY <1>0, <2>1, <3>1 DEF Execute, AppendEvent, TypeOK
        <3>2. CASE c \in {"succeeded", "failed"}
            <4>1. FinalizeRun(r, c) BY <2>1, <3>2 DEF Execute
            <4> QED BY <1>0, <2>1, <3>2, <4>1, FinalizeRunEffect DEF TypeOK, TerminalEvents
        <3>3. CASE c = "cancelled"
            <4>1. FinalizeCancellation(r) BY <2>1, <3>3 DEF Execute
            <4> QED BY <1>0, <2>1, <3>3, <4>1, FinalizeCancellationEffect
                DEF TypeOK, TerminalEvents
        <3> QED BY <2>2, <3>1, <3>2, <3>3 DEF Events, TerminalEvents
    <2>4. CASE q # r
        BY <1>0, <1>1, <2>3, <2>4, EvidenceFrame DEF ExecuteLate
    <2>5. CASE q = r
        BY <1>0, <1>1, <2>2, <2>3, <2>5 DEF ExecuteLate, Evidence, Ended, TerminalEvents
    <2> QED BY <2>4, <2>5
<1>2. CASE CreateFails(r)
    <2>1. CASE q # r
        BY <1>0, <1>2, <2>1, EvidenceFrame DEF CreateFails, Sup, TypeOK
    <2>2. CASE q = r
        BY <1>0, <1>2, <2>2 DEF CreateFails, Sup, TypeOK, Evidence, Ended, TerminalEvents
    <2> QED BY <2>1, <2>2
<1>3. CASE AppendFails(r)
    <2>1. /\ late' = late \/ late' = [late EXCEPT ![r] = late[r] \cup RunnerCommand(r)]
          /\ RunnerCommand(r) \cap TerminalEvents = {}
        BY <1>0, <1>3, CommandsTerminal DEF AppendFails, Run
    <2>2. CASE q # r
        BY <1>0, <1>3, <2>1, <2>2, EvidenceFrame DEF AppendFails, Run, TypeOK, store
    <2>3. CASE q = r
        BY <1>0, <1>3, <2>1, <2>3 DEF AppendFails, Run, TypeOK, store, Evidence, Ended
    <2> QED BY <2>2, <2>3
<1>4. CASE TerminalFails(r)
    <2>1. CASE q # r
        BY <1>0, <1>4, <2>1, AbandonEffect, CommandTypes, EvidenceFrame
        DEF TerminalFails, TypeOK, store
    <2>2. CASE q = r
        BY <1>0, <1>4, <2>2, AbandonEffect, CommandTypes
        DEF TerminalFails, TypeOK, store, Evidence, Ended
    <2> QED BY <2>1, <2>2
<1>5. CASE ObserverFails(r)
    <2>1. CASE q # r
        BY <1>0, <1>5, <2>1, CancelRunnerEffect, EvidenceFrame
        DEF ObserverFails, Sup, TypeOK, store
    <2>2. CASE q = r
        BY <1>0, <1>5, <2>2, CancelRunnerEffect
        DEF ObserverFails, Sup, TypeOK, store, Evidence, Ended
    <2> QED BY <2>1, <2>2
<1>6. CASE SupervisorFails(r)
    <2>1. CASE q # r
        BY <1>0, <1>6, <2>1, AbandonEffect, CommandTypes, EvidenceFrame
        DEF SupervisorFails, TypeOK, store
    <2>2. CASE q = r
        BY <1>0, <1>6, <2>2, AbandonEffect, CommandTypes
        DEF SupervisorFails, TypeOK, store, Evidence, Ended
    <2> QED BY <2>1, <2>2
<1> QED BY <1>1, <1>2, <1>3, <1>4, <1>5, <1>6 DEF Environment

LEMMA ProcessEvidence ==
    ASSUME RunInv, Shutdown \/ Crash
    PROVE  RunEvidence'
<1> SUFFICES ASSUME NEW q \in Runs PROVE Evidence(q)'
    BY DEF RunEvidence
<1>0. TypeOK /\ Evidence(q) /\ \A r \in Runs : Evidence(r)
    BY DEF RunInv, RunEvidence
<1>1. CASE BeginShutdown
    BY <1>0, <1>1
    DEF BeginShutdown, LockFree, Active, ShutdownFrame, store, TypeOK, Evidence, Ended
<1>2. CASE CancelPending
    <2>1. /\ late'[q] = late[q] \/ late'[q] = late[q] \cup SupervisorCommand(q)
          /\ sup'[q] = IF q \in Active THEN "interrupted" ELSE sup[q]
        BY <1>2 DEF CancelPending
    <2>2. SupervisorCommand(q) # {} => runner[q] = "done"
        BY <1>0, CommandsTerminal DEF Evidence
    <2> QED BY <1>0, <1>2, <2>1, <2>2
        DEF CancelPending, Active, ShutdownFrame, store, TypeOK, Evidence, Ended
<1>3. CASE ShutdownReturns
    BY <1>0, <1>3
    DEF ShutdownReturns, Active, ShutdownFrame, store, TypeOK, Evidence, Ended
<1>4. CASE Crash
    <2>1. \/ late'[q] = late[q]
          \/ late'[q] = late[q] \cup RunnerCommand(q) \cup SupervisorCommand(q)
        BY <1>4 DEF Crash
    <2>2. /\ sup'[q] = IF sup[q] \in {"new", "done"} THEN sup[q] ELSE "lost"
          /\ runner'[q] = IF runner[q] = "none" THEN "none" ELSE "done"
          /\ process' = "crashed"
        BY <1>4 DEF Crash
    <2>3. SupervisorCommand(q) # {} => runner'[q] = "done"
        BY <1>0, <2>2, CommandsTerminal DEF Evidence
    <2>4. RunnerCommand(q) \cap TerminalEvents # {} => runner'[q] = "done"
        BY <1>0, <2>2, CommandsTerminal
    <2>5. late'[q] \cap TerminalEvents # {} => runner'[q] = "done"
        BY <1>0, <2>1, <2>2, <2>3, <2>4 DEF Evidence
    <2> QED BY <1>0, <1>4, <2>2, <2>5 DEF Crash, store, TypeOK, Evidence, Ended
<1> QED BY <1>1, <1>2, <1>3, <1>4 DEF Shutdown

LEMMA NextRunInv == RunInv /\ [Next]_vars => RunInv'
<1> SUFFICES ASSUME RunInv, [Next]_vars PROVE RunEvidence'
    BY NextTypeOK DEF RunInv
<1>1. CASE UNCHANGED vars
    BY <1>1 DEF vars, store, RunInv, RunEvidence, Evidence, Ended
<1> QED BY <1>1, ApiEvidence, RunnerEvidence, SupervisorEvidence, EnvironmentEvidence,
           ProcessEvidence DEF Next

LEMMA RunInvHolds == Spec => []RunInv
<1>1. Init => RunInv BY InitTypeOK, InitEvidence DEF RunInv
<1> QED BY <1>1, NextRunInv, PTL DEF Spec

\* The supervisor's progress always tells what the runner and the store look like.
THEOREM EvidenceHolds == Spec => []RunEvidence
BY RunInvHolds, PTL DEF RunInv

\* A terminal status is published only after the run's runner has stopped.
THEOREM CleanupBeforeTerminal == Spec => []TerminalMeansStopped
<1>1. RunInv => TerminalMeansStopped
    BY DEF RunInv, RunEvidence, Evidence, TerminalMeansStopped
<1> QED BY <1>1, RunInvHolds, PTL

\* A supervisor that ends without an error leaves a finished run behind.
THEOREM SupervisorFinishes == Spec => []EndedMeansTerminal
<1>1. RunInv => EndedMeansTerminal
    BY DEF RunInv, RunEvidence, Evidence, EndedMeansTerminal
<1> QED BY <1>1, RunInvHolds, PTL

\* When shutdown has returned, every run the process admitted is finished,
\* unless a write that decides its end has failed.
THEOREM ShutdownIsComplete == Spec => []ShutdownLeavesNoRun
<1>1. RunInv => ShutdownLeavesNoRun
    BY DEF RunInv, RunEvidence, Evidence, Ended, ShutdownLeavesNoRun, TerminalEvents
<1> QED BY <1>1, RunInvHolds, PTL

-----------------------------------------------------------------------------
(* The single terminal event *)

\* SingleTerminal of one run.
Single(r) ==
    /\ \A i, j \in DOMAIN events[r] :
           /\ events[r][i] \in TerminalEvents => status[r] = events[r][i]
           /\ events[r][i] \in TerminalEvents /\ events[r][j] \in TerminalEvents => i = j
    /\ Ended(r) => \E i \in DOMAIN events[r] : events[r][i] = status[r]

LEMMA SingleSplit == SingleTerminal <=> \A r \in Runs : Single(r)
BY DEF SingleTerminal, Single

LEMMA SingleFrame ==
    ASSUME NEW q \in Runs, Single(q), events'[q] = events[q], status'[q] = status[q]
    PROVE  Single(q)'
BY DEF Single, Ended

\* An event that ends nothing changes nothing.
LEMMA AppendSingle ==
    ASSUME StoreTypes, SingleTerminal, NEW r \in Runs, NEW e \in {"started", "stream"},
           AppendEvent(r, e)
    PROVE  SingleTerminal'
<1> SUFFICES ASSUME NEW q \in Runs PROVE Single(q)'
    BY SingleSplit DEF SingleTerminal, Single
<1>1. Single(q)
    BY SingleSplit
<1>2. CASE q # r
    BY <1>1, <1>2, SingleFrame DEF AppendEvent, StoreTypes
<1>3. CASE q = r
    <2>1. events'[q] = Append(events[q], e) /\ status'[q] = status[q]
        BY <1>3 DEF AppendEvent, StoreTypes
    <2>2. e \in Events /\ e \notin TerminalEvents /\ events[q] \in Seq(Events)
        BY DEF Events, TerminalEvents, StoreTypes
    <2>3. /\ DOMAIN events'[q] = DOMAIN events[q] \cup {Len(events[q]) + 1}
          /\ \A i \in DOMAIN events[q] : events'[q][i] = events[q][i]
          /\ events'[q][Len(events[q]) + 1] = e
        BY <2>1, <2>2, Appended
    <2> QED BY <1>1, <2>1, <2>2, <2>3 DEF Single, Ended
<1> QED BY <1>2, <1>3

\* A command that ends a running run appends the first terminal event.
LEMMA TerminalSingle ==
    ASSUME StoreTypes, SingleTerminal, NEW r \in Runs, NEW o \in TerminalEvents,
           status[r] = "running",
           status' = [status EXCEPT ![r] = o],
           events' = [events EXCEPT ![r] = Append(@, o)]
    PROVE  SingleTerminal'
<1> SUFFICES ASSUME NEW q \in Runs PROVE Single(q)'
    BY SingleSplit DEF SingleTerminal, Single
<1>1. Single(q)
    BY SingleSplit
<1>2. CASE q # r
    BY <1>1, <1>2, SingleFrame DEF StoreTypes
<1>3. CASE q = r
    <2>1. events'[q] = Append(events[q], o) /\ status'[q] = o
        BY <1>3 DEF StoreTypes
    <2>2. o \in Events /\ events[q] \in Seq(Events)
        BY DEF Events, StoreTypes
    <2>3. /\ DOMAIN events'[q] = DOMAIN events[q] \cup {Len(events[q]) + 1}
          /\ \A i \in DOMAIN events[q] : events'[q][i] = events[q][i]
          /\ events'[q][Len(events[q]) + 1] = o
        BY <2>1, <2>2, Appended
    <2>4. \A i \in DOMAIN events[q] : events[q][i] \notin TerminalEvents
        BY <1>1, <1>3 DEF Single, TerminalEvents
    <2> QED BY <2>1, <2>3, <2>4 DEF Single, Ended
<1> QED BY <1>2, <1>3

LEMMA FinalizeRunSingle ==
    ASSUME StoreTypes, SingleTerminal, NEW r \in Runs, NEW o \in {"succeeded", "failed"},
           FinalizeRun(r, o)
    PROVE  SingleTerminal'
<1>1. CASE status[r] = "running" /\ ~intent[r]
    BY <1>1, TerminalSingle DEF FinalizeRun, TerminalEvents
<1>2. CASE ~(status[r] = "running" /\ ~intent[r])
    BY <1>2 DEF FinalizeRun, store, SingleTerminal, Ended
<1> QED BY <1>1, <1>2

LEMMA FinalizeCancellationSingle ==
    ASSUME StoreTypes, SingleTerminal, NEW r \in Runs, FinalizeCancellation(r)
    PROVE  SingleTerminal'
<1>1. CASE status[r] = "running" /\ intent[r]
    BY <1>1, TerminalSingle DEF FinalizeCancellation, TerminalEvents
<1>2. CASE ~(status[r] = "running" /\ intent[r])
    BY <1>2 DEF FinalizeCancellation, store, SingleTerminal, Ended
<1> QED BY <1>1, <1>2

\* A record that appears is the only other change of a status.
LEMMA CreateSingle ==
    ASSUME StoreTypes, SingleTerminal, NEW r \in Runs, status[r] = "absent",
           status' = [status EXCEPT ![r] = "running"], events' = events
    PROVE  SingleTerminal'
<1> SUFFICES ASSUME NEW q \in Runs PROVE Single(q)'
    BY SingleSplit DEF SingleTerminal, Single
<1>1. Single(q)
    BY SingleSplit
<1>2. CASE q # r
    BY <1>1, <1>2, SingleFrame DEF StoreTypes
<1>3. CASE q = r
    <2>1. \A i \in DOMAIN events[q] : events[q][i] \notin TerminalEvents
        BY <1>1, <1>3 DEF Single, TerminalEvents
    <2> QED BY <1>3, <2>1 DEF Single, Ended, StoreTypes, TerminalEvents
<1> QED BY <1>2, <1>3

\* What a step does to the store: nothing, or one command of Redis.
StoreStep ==
    \/ UNCHANGED store
    \/ \E r \in Runs :
           \/ status[r] = "absent" /\ ~intent[r]
              /\ status' = [status EXCEPT ![r] = "running"] /\ UNCHANGED <<intent, events>>
           \/ status[r] = "running" /\ intent' = [intent EXCEPT ![r] = TRUE]
              /\ UNCHANGED <<status, events>>
           \/ \E e \in {"started", "stream"} : AppendEvent(r, e)
           \/ \E o \in {"succeeded", "failed"} : FinalizeRun(r, o)
           \/ FinalizeCancellation(r)

LEMMA NextStoreStep == RunInv /\ [Next]_vars => StoreStep
<1> SUFFICES ASSUME RunInv, [Next]_vars PROVE StoreStep
    OBVIOUS
<1>1. ASSUME NEW r \in Runs, Api(r) PROVE StoreStep
    <2>1. sup[r] = "creating" => status[r] = "absent" /\ ~intent[r]
        BY DEF RunInv, RunEvidence, Evidence
    <2> QED BY <1>1, <2>1
        DEF Api, AdmitRun, CreateRecord, ScheduleRun, RequestCancellation, Sup, store, StoreStep
<1>2. ASSUME NEW r \in Runs, Runner(r) PROVE StoreStep
    BY <1>2 DEF Runner, EmitStarted, EmitStreamEvent, AgentEnds, EmitTerminal, store, StoreStep
<1>3. ASSUME NEW r \in Runs, Supervisor(r) PROVE StoreStep
    BY <1>3 DEF Supervisor, ObserveIntent, RunnerFinished, GetIntent, MarkFailed,
                PublishCancelled, HandleShutdown, StoreStep
<1>4. ASSUME NEW r \in Runs, Environment(r) PROVE StoreStep
    <2>1. CASE ExecuteLate(r)
        <3>1. PICK c \in late[r] : Execute(r, c)
            BY <2>1 DEF ExecuteLate
        <3>2. c \in Events
            BY <3>1 DEF RunInv, TypeOK
        <3>3. CASE c \in {"started", "stream"}
            BY <3>1, <3>3 DEF Execute, StoreStep
        <3>4. CASE c \in {"succeeded", "failed"}
            BY <3>1, <3>4 DEF Execute, StoreStep
        <3>5. CASE c = "cancelled"
            BY <3>1, <3>5 DEF Execute, StoreStep
        <3> QED BY <3>2, <3>3, <3>4, <3>5 DEF Events, TerminalEvents
    <2>2. CASE CreateFails(r)
        <3>1. status[r] = "absent" /\ ~intent[r]
            BY <2>2 DEF CreateFails, Sup, RunInv, RunEvidence, Evidence
        <3> QED BY <2>2, <3>1 DEF CreateFails, store, StoreStep
    <2> QED BY <1>4, <2>1, <2>2
        DEF Environment, AppendFails, TerminalFails, ObserverFails, SupervisorFails, StoreStep
<1>5. CASE Shutdown
    BY <1>5 DEF Shutdown, BeginShutdown, CancelPending, ShutdownReturns, ShutdownFrame, StoreStep
<1>6. CASE Crash
    BY <1>6 DEF Crash, StoreStep
<1>7. CASE UNCHANGED vars
    BY <1>7 DEF vars, store, StoreStep
<1> QED BY <1>1, <1>2, <1>3, <1>4, <1>5, <1>6, <1>7 DEF Next

LEMMA StepSingle == RunInv /\ SingleTerminal /\ StoreStep => SingleTerminal'
<1> SUFFICES ASSUME RunInv, SingleTerminal, StoreStep PROVE SingleTerminal'
    OBVIOUS
<1>0. StoreTypes
    BY DEF RunInv, TypeOK, StoreTypes, Statuses
<1>1. CASE UNCHANGED <<status, events>>
    BY <1>1 DEF SingleTerminal, Ended
<1> QED BY <1>0, <1>1, AppendSingle, FinalizeRunSingle, FinalizeCancellationSingle,
           CreateSingle DEF StoreStep, store

\* The single-terminal invariant: at most one terminal event per run, and the
\* run record has the status of that event.
THEOREM SingleTerminalHolds == Spec => []SingleTerminal
<1>1. Init => SingleTerminal
    <2> SUFFICES ASSUME Init PROVE SingleTerminal
        OBVIOUS
    <2>1. \A r \in Runs : events[r] = <<>> /\ ~Ended(r)
        BY DEF Init, Ended, TerminalEvents
    <2>2. DOMAIN <<>> = {}
        OBVIOUS
    <2> QED BY <2>1, <2>2 DEF SingleTerminal
<1>2. RunInv /\ SingleTerminal /\ [Next]_vars => SingleTerminal'
    BY NextStoreStep, StepSingle
<1> QED BY <1>1, <1>2, RunInvHolds, PTL DEF Spec

-----------------------------------------------------------------------------
(* Nothing follows the terminal event *)

NothingLate == ~LateCommands => \A r \in Runs : late[r] = {}

LEMMA NextNothingLate == TypeOK /\ NothingLate /\ [Next]_vars => NothingLate'
<1> SUFFICES ASSUME TypeOK, \A q \in Runs : late[q] = {}, ~LateCommands, [Next]_vars,
                    NEW q \in Runs
             PROVE  late'[q] = {}
    BY DEF NothingLate
<1>1. ASSUME NEW r \in Runs, Api(r) PROVE late'[q] = {}
    BY <1>1 DEF Api, AdmitRun, CreateRecord, ScheduleRun, RequestCancellation
<1>2. ASSUME NEW r \in Runs, Runner(r) PROVE late'[q] = {}
    BY <1>2 DEF Runner, EmitStarted, EmitStreamEvent, AgentEnds, EmitTerminal, RunnerFrame
<1>3. ASSUME NEW r \in Runs, CancelRunner(r) PROVE late'[q] = {}
    BY <1>3 DEF CancelRunner, Abandon
<1>4. ASSUME NEW r \in Runs, Supervisor(r) PROVE late'[q] = {}
    BY <1>3, <1>4 DEF Supervisor, ObserveIntent, RunnerFinished, GetIntent, MarkFailed,
                      PublishCancelled, HandleShutdown
<1>5. ASSUME NEW r \in Runs, Environment(r) PROVE late'[q] = {}
    BY <1>3, <1>5 DEF Environment, ExecuteLate, CreateFails, AppendFails, TerminalFails,
                      ObserverFails, SupervisorFails, Abandon
<1>6. CASE Shutdown
    BY <1>6 DEF Shutdown, BeginShutdown, CancelPending, ShutdownReturns
<1>7. CASE Crash
    BY <1>7 DEF Crash
<1>8. CASE UNCHANGED vars
    BY <1>8 DEF vars
<1> QED BY <1>1, <1>2, <1>4, <1>5, <1>6, <1>7, <1>8 DEF Next

\* Without late commands, only the stream of a run that goes on grows.
LEMMA OnlyLiveStreamsGrow ==
    ASSUME RunInv, NothingLate, ~LateCommands, [Next]_vars
    PROVE  \/ UNCHANGED events
           \/ \E r \in Runs, e \in Events :
                  ~Ended(r) /\ events' = [events EXCEPT ![r] = Append(@, e)]
<1> DEFINE Grows == \E r \in Runs, e \in Events :
                        ~Ended(r) /\ events' = [events EXCEPT ![r] = Append(@, e)]
<1>a. ASSUME NEW r \in Runs, NEW e \in {"started", "stream"}, AppendEvent(r, e),
             runner[r] \in {"start", "agent"}
      PROVE  Grows
    BY <1>a DEF AppendEvent, Events, RunInv, RunEvidence, Evidence
<1>f. ASSUME NEW r \in Runs, NEW o \in {"succeeded", "failed"}, FinalizeRun(r, o)
      PROVE  UNCHANGED events \/ Grows
    BY <1>f DEF FinalizeRun, store, Ended, Events, TerminalEvents
<1>c. ASSUME NEW r \in Runs, FinalizeCancellation(r)
      PROVE  UNCHANGED events \/ Grows
    BY <1>c DEF FinalizeCancellation, store, Ended, Events, TerminalEvents
<1>1. ASSUME NEW r \in Runs, Api(r) PROVE UNCHANGED events
    BY <1>1 DEF Api, AdmitRun, CreateRecord, ScheduleRun, RequestCancellation, store
<1>2. ASSUME NEW r \in Runs, Runner(r) PROVE UNCHANGED events \/ Grows
    BY <1>2, <1>a, <1>f
    DEF Runner, EmitStarted, EmitStreamEvent, AgentEnds, EmitTerminal, Run, store
<1>3. ASSUME NEW r \in Runs, Supervisor(r) PROVE UNCHANGED events \/ Grows
    BY <1>3, <1>f, <1>c DEF Supervisor, ObserveIntent, RunnerFinished, GetIntent, MarkFailed,
                            PublishCancelled, HandleShutdown, store
<1>4. ASSUME NEW r \in Runs, Environment(r) PROVE UNCHANGED events
    BY <1>4 DEF Environment, ExecuteLate, CreateFails, AppendFails, TerminalFails,
                ObserverFails, SupervisorFails, NothingLate, store
<1>5. CASE Shutdown
    BY <1>5 DEF Shutdown, BeginShutdown, CancelPending, ShutdownReturns, ShutdownFrame, store
<1>6. CASE Crash
    BY <1>6 DEF Crash, store
<1>7. CASE UNCHANGED vars
    BY <1>7 DEF vars, store
<1> QED BY <1>1, <1>2, <1>3, <1>4, <1>5, <1>6, <1>7 DEF Next

LEMMA StepLast ==
    RunInv /\ SingleTerminal /\ NothingLate /\ TerminalIsLast /\ [Next]_vars => TerminalIsLast'
<1> SUFFICES ASSUME RunInv, SingleTerminal, NothingLate, TerminalIsLast, [Next]_vars,
                    ~LateCommands, NEW q \in Runs, NEW i \in DOMAIN events'[q],
                    events'[q][i] \in TerminalEvents
             PROVE  i = Len(events'[q])
    BY DEF TerminalIsLast
<1>1. CASE events'[q] = events[q]
    BY <1>1 DEF TerminalIsLast
<1>2. ASSUME NEW e \in Events, ~Ended(q), events'[q] = Append(events[q], e)
      PROVE  i = Len(events'[q])
    <2>1. events[q] \in Seq(Events)
        BY DEF RunInv, TypeOK
    <2>2. /\ DOMAIN events'[q] = DOMAIN events[q] \cup {Len(events[q]) + 1}
          /\ \A j \in DOMAIN events[q] : events'[q][j] = events[q][j]
          /\ Len(events'[q]) = Len(events[q]) + 1
        BY <1>2, <2>1, Appended
    <2>3. \A j \in DOMAIN events[q] : events[q][j] \notin TerminalEvents
        BY <1>2 DEF SingleTerminal, Ended
    <2> QED BY <2>2, <2>3
<1> QED BY <1>1, <1>2, OnlyLiveStreamsGrow DEF RunInv, TypeOK

\* When no command outlives its task, the terminal event of a run is the last
\* of its stream: who stops reading there has seen all of it.
THEOREM NothingFollowsTheTerminal == Spec => []TerminalIsLast
<1>1. Init => NothingLate /\ TerminalIsLast
    BY DEF Init, NothingLate, TerminalIsLast
<1>2. RunInv /\ SingleTerminal /\ NothingLate /\ TerminalIsLast /\ [Next]_vars
      => (NothingLate /\ TerminalIsLast)'
    BY NextNothingLate, StepLast DEF RunInv
<1> QED BY <1>1, <1>2, RunInvHolds, SingleTerminalHolds, PTL DEF Spec

-----------------------------------------------------------------------------
(* The abstract lifecycle *)

\* A step of the store is a move of one run, or none.
LEMMA StepMoves == RunInv /\ StoreStep => [\E r \in Runs : Lifecycle!Move(r)]_phase
<1> SUFFICES ASSUME RunInv, StoreStep, phase' # phase
             PROVE  \E r \in Runs : Lifecycle!Move(r)
    OBVIOUS
<1>0. StoreTypes /\ \A r \in Runs : intent[r] => status[r] = "running"
    BY DEF RunInv, TypeOK, StoreTypes, Statuses, RunEvidence, Evidence
<1>1. PICK r \in Runs :
           /\ \A q \in Runs : q # r => status'[q] = status[q] /\ intent'[q] = intent[q]
           /\ \/ status[r] = "absent" /\ ~intent[r] /\ status'[r] = "running" /\ ~intent'[r]
              \/ status[r] = "running" /\ status'[r] = "running" /\ intent'[r]
              \/ /\ status[r] = "running" /\ ~intent[r]
                 /\ status'[r] \in {"succeeded", "failed"} /\ ~intent'[r]
              \/ status[r] = "running" /\ intent[r] /\ status'[r] = "cancelled" /\ ~intent'[r]
    <2>1. ~UNCHANGED <<status, intent>>
        BY DEF phase
    <2>2. PICK r \in Runs :
              \/ status[r] = "absent" /\ ~intent[r]
                 /\ status' = [status EXCEPT ![r] = "running"] /\ intent' = intent
              \/ status[r] = "running" /\ intent' = [intent EXCEPT ![r] = TRUE]
                 /\ status' = status
              \/ \E o \in {"succeeded", "failed"} : FinalizeRun(r, o)
              \/ FinalizeCancellation(r)
        BY <2>1 DEF StoreStep, AppendEvent, store
    <2>3. CASE \E o \in {"succeeded", "failed"} : FinalizeRun(r, o)
        <3>1. PICK o \in {"succeeded", "failed"} : FinalizeRun(r, o)
            BY <2>3
        <3>2. status[r] = "running" /\ ~intent[r] /\ intent' = intent
              /\ status' = [status EXCEPT ![r] = o]
            BY <2>1, <3>1 DEF FinalizeRun, store
        <3> QED BY <1>0, <3>2 DEF StoreTypes
    <2>4. CASE FinalizeCancellation(r)
        <3>1. status[r] = "running" /\ intent[r]
              /\ status' = [status EXCEPT ![r] = "cancelled"]
              /\ intent' = [intent EXCEPT ![r] = FALSE]
            BY <2>1, <2>4 DEF FinalizeCancellation, store
        <3> QED BY <1>0, <3>1 DEF StoreTypes
    <2> QED BY <1>0, <2>2, <2>3, <2>4 DEF StoreTypes
<1>2. \A q \in Runs : q # r => phase'[q] = phase[q]
    BY <1>1 DEF phase
<1>3. \E m \in Lifecycle!Moves : phase[r] = m[1] /\ phase'[r] = m[2]
    <2>1. phase[r] # phase'[r]
        BY <1>2 DEF phase
    <2> QED BY <1>1, <2>1 DEF phase, Lifecycle!Moves
<1>4. \E m \in Lifecycle!Moves :
          phase[r] = m[1] /\ phase' = [phase EXCEPT ![r] = m[2]]
    BY <1>2, <1>3 DEF phase
<1> QED BY <1>4 DEF Lifecycle!Move

\* AgentRun implements RunLifecycle: the first of success, failure and accepted
\* cancellation decides how a run ends, for good.
THEOREM LifecycleIsRefined == Spec => LifecycleRefined
<1>1. Init => Lifecycle!LifecycleInit
    BY DEF Init, phase, Lifecycle!LifecycleInit
<1>2. RunInv /\ [Next]_vars => [\E r \in Runs : Lifecycle!Move(r)]_phase
    BY NextStoreStep, StepMoves
<1> QED BY <1>1, <1>2, RunInvHolds, PTL DEF Spec, LifecycleRefined, Lifecycle!LifecycleSpec
=============================================================================
