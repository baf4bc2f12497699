# Verification of Dify's agent runtime and console protocols

TLA+ models of the parts of this repository in which several processes share
state: the sandbox job server (`dify-agent-runtime`, Go), the agent run server
(`dify-agent`, Python) and the API worker that follows a run; and three
protocols between tabs of the console (`web`, TypeScript) and the API: the
autosave of an agent's draft, the renewal of the session, and collaboration on
a workflow. TLC checks small instances, TLAPS proves the central invariants for
every value of the constants.

```
tlc  -config ShellctlFaults.cfg MCShellctlJob.tla    # one run; PROJECT.json lists all
tlapm AgentRunProofs.tla                             # one proof module
```

## 1. Inventory

The repository is mostly a request/response application on a relational
database (`api/`) and its user interface (`web/`). The protocol logic is in
these parts.

| Part | State | Operations | Interacts with | What is hard |
|---|---|---|---|---|
| **Sandbox jobs** `dify-agent-runtime/internal/server`, `cmd/runner`, `cmd/runner-exit`, `cmd/sanitize-pty` | a row per job in SQLite, a job directory, a tmux session, `startingJobs` in memory | RunJob, GetJobStatus (which writes what it derives), TerminateJob, DeleteJob, GCOnce, pipe monitor, Reconcile, SendInput, WaitJob | tmux, runner in the pane, `pipe-pane` command with the finalizer that also writes SQLite | check-then-act over three stores, two writers of the exit, crashes, no lock per job |
| **Agent runs** `dify_agent/runtime`, `dify_agent/storage` | record, event stream and cancel-intent stream in Redis; one supervisor, runner and observer task per run | create_run, cancel_run, shutdown, the runner's event sequence, Lua scripts that finalize | Redis (any process), agent, layers | races of success, failure, cancellation and shutdown; tasks cancelled in any await; failing commands |
| **Following a run** `dify_agent/client`, `server/sse.py`, `core/app/apps/agent_app` | cursor, reconnect budget | stream_events, iter_events, cancel_run_and_wait, stop by the user | agent runs through any server process | dropped connections, stale cursors, cancellation racing with completion |
| **Agent draft autosave** `web/features/agent-v2/.../use-agent-configure-sync.ts` | draft and baseline atoms, a debounce timer, a serial queue, keys and sequence numbers in refs | edit, autosave, save, publish, save on page close | the API, the page's life cycle | saves beside the queue, answers in any order, publication in two requests, failures |
| **Session renewal** `web/service/refresh-token.ts`, `web/app/auth/refresh`, `services/account_service.py` | `isRefreshing` per tab, a sign and a time in localStorage, the refresh token in cookie and Redis | renew after a 401, poll, release, renewal by a page load, rotation | tabs of one browser, the server | test and set across processes, timeouts that outlive their call, tabs that end |
| **Workflow collaboration** `web/app/components/workflow/collaboration`, `services/workflow_collaboration_service.py` | a CRDT document, canvas and hash per tab; sessions and leader in Redis; the saved draft | join, elect, relay, resync, snapshot, reload, save directly or through the leader, hide and show | tabs, Socket.IO handlers, Redis, database | messages and handlers in any order, stale documents, lost connections |
| **Workspace bindings** `api/services/agent/workspace_service.py`, `server/execution_bindings.py`, `runtime_backend` | bindings in the API's database, sandboxes behind a backend | create, retire, release, leases | agent server | retries across two systems |
| **Home snapshots** `internal/server/snapshot.go`, `routes/home_snapshots.py` | archives, a gate between jobs and snapshots | snapshot, restore, delete | sandbox jobs | one gate for everything |
| **App queue manager, execution coordinator** `api/core/app/apps` | queue of a task, stop flag in Redis | publish, listen, stop, finish | worker thread, HTTP stream | who finishes first |
| **Rate limit, tenant task queue, migration lock** `api/core/app/features`, `api/core/rag/pipeline`, `api/libs` | counters, lists and locks in Redis | enter/exit, push/pull, acquire/renew/release | several processes | expiry, lost releases |
| HTTP decoding, log windows, agent stub, in-sandbox CLI, SDKs, the rest of `web/` | none of their own | | | not protocol logic |

What makes each part correct:

- *Sandbox jobs*: a final status sticks; status, exit code and end time agree;
  "exited" is told with the script's own code and after all output; nothing is
  called lost that lives, or running that was never let go; a termination and
  a deletion leave nothing behind, crashes included; every exit is recorded.
- *Agent runs*: one terminal event per run, agreeing with the record; the first
  of success, failure and accepted cancellation wins; the terminal event is
  published after cleanup; an accepted cancellation is carried out; shutdown
  leaves no run behind and returns.
- *Following*: the consumer gets consecutive events, is told the run's outcome,
  never waits for an event that its cursor excludes, and who cancels is not
  told another outcome.
- *Autosave*: the baseline is a content the server has accepted, and the newest
  one; what is published is what the user saw when clicking; the last edit is
  saved.
- *Session renewal*: one request at a time; the lock is not left behind, waiting
  ends; a session is not refused without cause.
- *Collaboration*: documents converge; nobody waits for a snapshot that cannot
  come; an acknowledged save is complete; the server knows who is visible.

`PROJECT.json` lists each component with its sources, and under `hazards` the
lines where these can go wrong.

## 2. Modules

| Module | Content |
|---|---|
| `JobLedger` | abstract: what the jobs table promises about one job |
| `ShellctlJob` | one sandbox job, its server, tmux, runner, pipe and crashes |
| `ShellctlJobProofs` | TLAPS proofs about `ShellctlJob`: types, the row, the exit, the refinement |
| `ShellctlSafetyProofs` | further proofs about it: start, termination, deletion, loss |
| `RunLifecycle` | abstract: what the run API promises about each run |
| `AgentRun` | agent runs: scheduler, runner, Redis store, shutdown, crashes |
| `AgentRunProofs` | TLAPS proofs about `AgentRun` |
| `RunFollower` | extends `AgentRun` by a worker that follows one run over SSE |
| `RunFollowerProofs` | TLAPS proofs about `RunFollower` |
| `ComposerSync`, `ComposerSyncProofs` | autosave and publication of an agent's draft; proofs |
| `TokenRefresh`, `TokenRefreshProofs` | session renewal by several tabs; proofs |
| `GraphCollab`, `GraphCollabProofs` | collaboration on the graph of one workflow; proofs |
| `MC*` | model values and fault sets for TLC |

Operators whose comment says *Mutant* are deliberate mistakes, one for each
checked property. No specification uses them; putting one in place of the
definition after it makes TLC report the property, which shows that the
property depends on that code.

### ShellctlJob

Jobs do not share state (ids are random, every statement names one job), so one
job is modelled, with any number of concurrent `Callers`. A step is one SQL
statement, tmux command, critical section of `mu` or file check.

| Model | Code |
|---|---|
| `row` | the row of table `jobs`; timestamps are flags |
| `Transition`, `TransitionIfNoExit` | `DB.TransitionStatus`, a compare-and-set with default exit code |
| `RecordRunnerExit` | `DB.RecordRunnerExit` and the finalizer's copy in `runner_exit.go` |
| `start`, actions of `RunJob` | `RunJob`/`startJob` from the directory to the end of the start |
| `runner`, actions of `Runner` | `cmd/runner`: wait for the gate, run, write two artifacts, exit |
| `pipe`, actions of `Pipe` | `pipe-pane` command: sanitizer, drain marker, `shellctl-runner-exit` |
| `pc`, `op`, `snap`, `seen`, `Begin` .. `MaterializeLost` | `GetJobStatus`: row, tmux, pane, artifacts, write |
| `ReturnView` .. `RemoveJobDir` | what TerminateJob, DeleteJob, GCOnce, Reconcile do with the view |
| `Restart`, `ServerCrash`, `SandboxCrash` | `PrepareRuntime` and `Reconcile`; a graceful stop has the effect of a server crash |
| `TmuxQueryFails`, `RunnerDies`, `PipeFails`, `FinalizerFails` | partial failures |

Left out: the job's output and its windows, reasons and messages, timestamps,
`SendInput` (keys into the pane) and `WaitJob` (a loop of status polls). Merged
because they commute with the steps of others: SELECT and UPDATE inside
`RecordRunnerExit` (the UPDATE compares the status again), an UPDATE and the
following GetJob of the same caller. `EarlyCalls` says whether a client may use
an id before RunJob has answered (ids can be listed); the collector always may.

### AgentRun

A step is what a task does between two awaits, with the Redis command it
awaits. A cancelled task may leave a command behind that Redis executes later
(`late`, if `LateCommands`).

| Model | Code |
|---|---|
| `status`, `intent`, `events` | run record, cancel-intent stream, event stream |
| `FinalizeRun`, `FinalizeCancellation`, `RequestCancellation`, `AppendEvent` | Lua scripts and pipelines of `RedisRunStore` |
| `sup`, actions of `Supervisor` | `RunScheduler._run_record`, with its observer |
| `runner`, `flag`, actions of `Runner` | `AgentRunRunner.run` and `cancel_requested` |
| `AdmitRun`, `CreateRecord`, `ScheduleRun` | `create_run` under the lifecycle lock |
| `process`, actions of `Shutdown` | `RunScheduler.shutdown` |
| `broken` | history variable: a write that decides the run failed |

Left out: the agent itself, snapshots and usage, expiry of keys (a retention
period after the last write), a second call of shutdown.

### RunFollower

`RunFollower` extends `AgentRun`; the worker's steps change the run only by
`RequestCancellation`. An event id is its place in the stream. The client
(`StartStream`, `Connect`, `Receive`, `Disconnect`), the response of the server
(`ReadEvents`, `SendEvent`) and the consumer (`Stop`, `CancelRun`,
`CheckCancelled`, `CancelCallFails`) are separate; a connection delivers in
order what was written to it until it drops, and loses the rest. Frames,
heartbeats and the client's time limits are left out.

### ComposerSync

One tab edits one agent. A draft is a value; equal drafts have equal keys.

| Model | Code (`use-agent-configure-sync.ts`) |
|---|---|
| `Edit`, `timer`, `TimerFires` | the subscriber of the draft atom, the debounced save |
| `SaveDraft`, `PublishDraft`, `Settle` | `saveDraft`, `publishDraft` with their `finally` blocks |
| `jobs`, `StartSave`, `SaveReturns`, `PublishReturns`, `SaveFails` | `useSerialAsyncCallback` around `saveComposer` |
| `ApplySaved` | `applySavedDraft` with `saveSequence` |
| `SaveOnPageClose`, `closing`, `CloseSaveReturns`, `CloseSaveFails` | `saveDirtyDraftOnPageClose`, a keepalive request beside the queue |
| `TabHidden`, `TabClosed`, `PageLeft` | listeners of `visibilitychange` and `beforeunload`, the unmount effect |
| `ServerAccepts`, `ServerPublishes`, `CloseSaveAccepted` | `_save_agent_draft`, `publish_agent_app_draft`, `save_agent_composer` of `composer_service.py`: the draft is overwritten unconditionally |
| `ToggleEnabled` | `enabled` follows the composer query |
| `accepted`, `lastSent`, `lapses` | history variables for the properties |

A `beforeunload` after which the page goes on, for a while or for good, does what a
hidden page does (`TabHidden`); an open page that ends is hidden once more
(`TabClosed`). When the tab is closed, its page no longer hears an answer; the request that is
under way may still reach the server or not, keepalive requests do.

### TokenRefresh

A tab runs one task at a time, tabs run beside each other: between the moment
a task reads localStorage (`Call`, `Answer`) and the moment it writes there
(`Acquire`, `Leave`) another tab may run.

| Model | Code |
|---|---|
| `Call`, `Acquire`, `Poll`, `Answer`, `Leave` | `refreshAccessTokenOrReLogin`, `getNewAccessToken`, `waitUntilTokenRefreshed` |
| `Release` | `releaseRefreshLock`, which asks nobody whose lock it is |
| `TimerFires` | the timeout of the race in `refreshAccessTokenOrReLogin`, which is never cleared |
| `stamp`, `SignGrowsOld` | the time in localStorage that `isRefreshingSignAvailable` compares |
| `LookUp`, `Rotate`, `TakeCookie` | `AccountService.refresh_token`, `RefreshTokenApi.post` |
| `Load`, `LoadAnswer` | the route `auth/refresh`, which renews without the lock |
| `BeforeUnload`, `StayOnPage`, `Unload` | the listener of line 43; a navigation that is given up or brings no page; the end of the page |
| `CrashTab`, `RequestFails` | the end of a page without `beforeunload`, a network failure |
| `met`, `lost`, `loose`, `late` | history variables for the properties |

A tab of the model is one page. `beforeunload` only announces its end: the listener
releases the lock once and is gone, while calls, timers and new acquisitions of the
page go on until the next page is there. That is ordinary, since a refused renewal
navigates away (`service/base.ts:1028`, `:1057`) while other calls of the page wait.

The looking up and the rotation of a token are two steps because two requests
may interleave there: Redis is asked, then told.

### GraphCollab

An item of the graph carries how often it was added and removed; documents are
merged by the maximum, which is what a CRDT whose users only add promises. A
handler of the server is one step, except that the answer to a join is sent in a
second one. What a socket delivers arrives in order; handlers run in any order.

| Model | Code |
|---|---|
| `Connect`, `Disconnect`, `Receive*`, `RetryResync`, `Seeded` | `CollaborationManager` and its socket listeners |
| `ReceiveUpdate`, `LocalChange` | `CRDTProvider` |
| `JoinSession`, `JoinAnswer`, `ServerDisconnects`, `Ensured`, `Candidates` | joining, leaving and elections of `WorkflowCollaborationService` |
| `RelayGraph`, `RelayResync`, `RelaySync`, `RelayView` | `relay_graph_event`, `relay_collaboration_event` |
| `Hide`, `Show`, `RefreshStarts`, `RefreshHash` | `visibilitychange` in `workflow/index.tsx`, the delayed refresh of the hash |
| `CallSave`, `Job`, `SaveDraft`, `ReceiveSync`, `ReceiveAck` | `doSyncWorkflowDraft`: directly, or through the leader with an acknowledgement; `sync_draft_workflow` compares the hash |
| `ReadDraft`, `ReplaceGraph` | the reload of the draft by a leader that reconnected |
| `apart`, `undone` | history variables for the properties |

`apart` tells that a tab became trusted while it *missed* something: a document
that was around then holds an item neither in its own document nor in one it is
sure to import (`Around`, `Coming`, `Misses`). `disturbances` counts connections
and hidings of all tabs together; it is a bound, not a part of the program.

## 3. What is checked

All configurations set `CHECK_DEADLOCK FALSE`: jobs, runs and workers end.

| Run | Instance | Shows |
|---|---|---|
| `ShellctlFaults` | 1 caller, all operations at any time, both modes, 2 faults of any kind | `TypeOK`, `RowConsistent`, `RunningMeansGateOpen`; the row implements `JobLedger` |
| `ShellctlClients` | 2 callers after RunJob, both modes, 1 process, the server or the sandbox dies | `ExitedIsGenuine`, `LostMeansGone`, `DeletedLeavesNothing`, `OnlyFinishedRowsRemoved`, `TerminatedMeansStopped`, `StdioExitNotLost` |
| `ShellctlLive` | 1 caller (monitor, terminate), 1 fault, fair | `ExitEventuallyRecorded`, `TerminatedEventuallyStops` |
| `FollowSafety` | 1 run with its follower, 3 events, pages of 2, 1 reconnect, 2 faults of any kind, late commands, shutdown | `SingleTerminal`, `TerminalMeansStopped`, `EndedMeansTerminal`, `ShutdownLeavesNoRun`; `DeliveredInOrder`, `TerminalStillAhead`, `AcceptedMeansCancelled`; implements `RunLifecycle` |
| `FollowLive` | the same with a failing observer and no late commands, fair | `CancellationEventuallyDone`, `RunEventuallyEnds`, `ShutdownEventuallyReturns`, `DoneMeansComplete`, `FollowingEnds` |
| `ComposerSync` | 3 contents, 3 edits, 2 saves, publications or hidden tabs, 1 failure, fair | `TypeOK`, `BaselineWasAccepted`, `BaselineIsLastSent`, `OnlyTheClickedDraftPublished`, `LatestEditSaved` |
| `TokenRefresh` | 2 tabs with 2 and 1 calls, 1 page load, navigation, crash or lost request, fair | `TypeOK`, `LockHasOwner`, `OneRequestPerTab`, `RefusedOnlyByOverlap`, `PollingEnds` |
| `GraphCollab` | 2 tabs, 2 items, 3 connections or hidings, 1 save, symmetric tabs | `TypeOK`, `Converged`, `VisibilityKnown`, `NoneLeftWaitingIfLed`, `AckCoversRequest` |

The other four runs are expected to fail; see below.

Bounds. Two callers are enough for the races of the sandbox server, whose
writes are compare-and-sets on one row: a caller's stale view needs one other
writer, and RunJob, the runner, the pipe and the finalizer run beside the
callers. Two exit codes tell the runner's code from the default 0. Two faults
allow a crash within the recovery from another. Runs share the lifecycle lock,
the shutdown and nothing else; the run that competes with the one that is
followed only delays it, and the proofs hold for any number of runs. Three
events, pages of two and one reconnect (each for the stream and for the wait
after a cancellation) let a page end in the middle of the stream and a
connection drop between any two events. `MaxEvents` bounds stream events only;
terminal and started events always fit. Three contents and three edits let the
user leave a content and come back to it while two other saves are under way;
two calls let a publication overlap with a save or with a hidden tab. Two calls
of one tab and one of another give every pair that can meet at the lock, with
the page load as a third request; the overlap that needs a third call in one tab
is `TokenOverlap`. `MaxTroubles` is 1: one navigation, or one of the others, is what it
takes to leave the sign behind or to send twice, and the proofs have no such bound.
Three connections or hidings make a tab that reconnects, or is
hidden, while the other is there. More of them, and more tabs, are what the proofs
are for: a reload interrupted by two elections needs four, an overtaken snapshot
three tabs and five (see below). Tabs are interchangeable, and
`GraphCollab` checks safety only, so it uses symmetry.

Fairness. In `ShellctlJob`: goroutines and processes that can go on do; a
script may run for ever; nobody has to call the server, except that the
monitor's own loop (`service.go:116`) gets its turn again and again (strong
fairness, since other callers may be between two of its turns), and a server
that is down is restarted. In `AgentRun`: the event loop runs each task; the
agent ends because `run_timeout_seconds` limits `agent.run` and a cancelled
agent unwinds. The limit does not cover entering and leaving the compositor
(`dify-agent/docs/dify-agent/guide/index.md:277`), so the fairness assumes that
these end. A client need not cancel; shutdown need not begin but then goes on.
In `RunFollower`: client and server go on, connections may drop at any time,
the user need not stop. In `ComposerSync`: timers fire and requests are answered
(with success or, at most once, with a failure); no edit, save or closing is
assumed. In `TokenRefresh`: tasks that have begun go on and timers fire; no request
need be answered. `GraphCollab` states no fairness: "nobody waits in vain" is said of
the states in which all is delivered, where nothing but a user's deed or a lost
connection could still help. No fairness for faults.

### Where the code does not do what it says

Four runs are expected to fail; each checks one claim of a comment or a test.

| Run | Claim | What happens |
|---|---|---|
| `ShellctlPtyLost` | a completed exit is recovered (`service.go:658`, `:697`) | a poll checks the artifacts twice; the drain marker appears in between and the job is written off as lost |
| `ShellctlCollectorLost` | lost means that the session is gone (`service.go:704`) | the collector asked tmux before the session was there and decides after RunJob has returned |
| `TokenOverlap` | only one request can send (`refresh-token.ts:30`, `:76`) | the timeout of a call that was settled long ago releases the lock of a later one; the next call sends beside it; nobody leaves the page |
| `GraphStuck` | resync is retried until a snapshot arrives (`collaboration-manager.socket-and-subscriptions.spec.ts:1131`) | the answer to a join tells a tab that it follows after an election has made it leader; it asks itself for a snapshot for ever |

The passing runs say how far the claims hold:

- No job that ended is lost in stdio mode; nothing is lost that lives, and a
  deletion is complete, once RunJob has returned and without the collector
  (`ShellctlClients`). A forced deletion of a job that is still being started
  kills a session that is not there yet and leaves it behind. Exits are
  recorded unless the whole sandbox stops between the exit of a PTY job and its
  drain marker (`ShellctlLive`). `RunningMeansGateOpen` excludes a server that
  crashed while it started the job: a poll after its restart calls the job
  running, although nobody will open its gate.
- `LatestEditSaved` excludes the *lapses* after which nothing is due: a request
  failed; two saves of different contents overlapped; the user came back to the
  baseline while another save was pending; saving was disabled when it
  was due; the tab was closed while a save of the page left before was due; a save
  on page close was skipped because an older one of the same content was
  unanswered. `BaselineIsLastSent` excludes failures only,
  `OnlyTheClickedDraftPublished` overlaps with a save on page close only.
- `OneRequestPerTab` says when a tab sends twice: a timeout of the tab, or a
  `beforeunload` after which the page went on, released the lock under a request
  (`loose`, which is forgotten when the requests of the tab have ended). Across tabs,
  two requests may always meet, and `RefusedOnlyByOverlap` says that only then, or when
  an answer was lost, a session is refused.
- `LockHasOwner` names the two ways in which the sign is left behind: a crash, and a
  page that takes the lock between its `beforeunload` and its end (`late`), for which
  no second `beforeunload` comes. The sign then stays until it is too old for later
  calls or a timeout releases it; a call that polls does not look at its age, and one
  whose own timeout has fired before polls on. `PollingEnds` excludes both ways. TLC
  finds a counterexample for each of the three properties when the clause about
  `beforeunload` is dropped.
- `NoneLeftWaitingIfLed` holds when the tabs know who leads, but for a tab that is
  `Interrupted`: it was waiting, was promoted and demoted before its reload had
  ended, its timer was cleared, and it asks no more. That takes four connections or
  hidings, one more than the run has.
- `Converged` excludes tabs that became trusted without an edit that nobody sends to
  them any more. A tab that seeds its document or reloads the draft may; so may one
  that waits for a snapshot, in an order that takes three tabs: a tab reconnects and
  asks twice; the leader's first answer makes it trusted, it edits, and its update
  overtakes the second answer in the server; a tab that joins the room in between
  takes that older snapshot for the answer to its own request, and the leader, which
  would have sent it a newer one, disconnects. The next change of the tab that made
  the edit repairs this, since it carries all before it.
- `AckCoversRequest` excludes what a reload has removed and drafts saved by others
  in between. With two saves, a queued one may post the graph of its call with the
  hash of its turn.

## 4. What is proved

TLAPS checks these for every set of callers, runs, codes, operations, faults,
drafts, tabs, items and calls, every bound, with late commands or without. Assumptions
are the named ASSUMEs of the modules, which TLC evaluates in each run; some theorems
have hypotheses of their own, told below.

`ShellctlJobProofs`: `TypeCorrect`, `RowAlwaysConsistent`, `ExitIsGenuine` and
`LedgerIsRefined`. `ExitedIsGenuine` is not inductive: that a recorded code is
the script's own depends on the exit-code file, that the output is complete on
the marker of a finalizer that is about to write. `ExitEvidence` says both, and
that every row a caller holds is a consistent one; it is also what the
refinement needs, since callers write what they derived from such a row.

`ShellctlSafetyProofs` proves the other safety properties of the sandbox job, by parts
of one invariant (`SafetyInv`), each of which TLC checked before:

- `Base` holds whatever fails and whoever calls. `GateInv` says which steps of
  `RunJob` leave the gate open; `CallerInv`, that while the row is active no caller
  is past a kill or holds a row that is not; `ServerInv`, that only the
  reconciliation runs, alone, while the server starts. `GateOpenWhenRunning` needs no
  more.
- `StartUndisturbed`: before the session is there, nobody but the collector looks
  at the job, and the collector changes nothing. From here on clients know the job
  from the answer of `RunJob` (`~EarlyCalls`): the run `ShellctlCollectorLost` and
  the forced deletion of a starting job show what happens otherwise.
- `TerminationPending`: while the session of a terminated job lives, the caller that
  marked it is before its kill, or a restart will find it (`TerminatedIsStopped`).
- `DeletionComplete`: the row goes after the session, the directory after the row
  (`DeletedIsGone`).
- `MissingIsGone`: a caller that missed the session once is right for ever, unless the
  collector looked before it was there (`LostIsGone`, without "gc").
- `RunnerEvidence`, `ActiveIntact`, `StdioMissing`: artifacts are written in order in
  a directory that is there as long as the row is active, so a stdio job that missed
  both session and artifacts had a runner that died (`StdioExitIsNotLost`).

`RemovedRowsFinished` and `StdioExitIsNotLost` also assume that commands of tmux do not
fail: `DeleteJob` drops the error of the `TerminateJob` it calls and removes a job that
is running. TLC found a counterexample for each of these hypotheses when it is
dropped; `ShellctlClients` satisfies all of them.

`AgentRunProofs`: `TypeCorrect`, `EvidenceHolds`, and from the latter
`CleanupBeforeTerminal`, `SupervisorFinishes`, `ShutdownIsComplete`. The
inductive invariant is `RunEvidence`: the place of a supervisor tells what its
runner and the store look like, for example that a supervisor about to publish
has a runner that is done, and that a runner that is done without having been
cancelled leaves a terminal status or an accepted intent. `SingleTerminalHolds`
and `LifecycleIsRefined` reduce every step to at most one command on the store
(`StoreStep`) and argue about those commands only. `NothingFollowsTheTerminal`
adds that without late commands only the stream of a run that goes on grows.

`RunFollowerProofs`: `FollowedRunIsARun` (`FollowerSpec => Spec`) carries the
theorems above over. Streams only grow (`StreamGrows`) and `phase` never leaves
"cancelling"/"cancelled" (`RunGoesOn`), so what the worker knows stays true while
the run goes on. `Transport` says that what is on the connection and in the
server's page is exactly what follows the cursor. From these come
`EventsDeliveredInOrder`, `TerminalIsAhead`, `AcceptedIsCancelled`,
`DoneIsCleanedUp` and, with `NothingFollowsTheTerminal`, `DoneIsComplete`.

`ComposerSyncProofs`: `TypeCorrect` needs `QueueInv` (only the first job of the queue
has been started). `BaselineAccepted` rests on `AcceptInv`: what an answer under way
will be taken for has been accepted. `LastSentWins` rests on `OrderInv`: no save has
a higher number than the one sent last, which has been applied or is under way.
`ClickedDraftIsPublished` rests on `PublishInv`: between the two requests of a
publication no other content reaches the server.

`TokenRefreshProofs`: `TypeCorrect`; `LockAlwaysHasOwner` by `LateKnown` (a listener in
a tab whose end was announced is that of a call that took the lock since);
`OneRequestPerTabHolds` by `TabExclusive` (a tab runs one task at a time, its lock is
held under a request only, and until it is released under one the only request holds
it, so that a timeout or a `beforeunload` of a tab without requests does no harm);
`RefusalNeedsOverlap` by `SessionInv`: a token that was
rotated away is known by a request that met its holder or lost its answer, and
the cookie holds a valid token unless an answer is on its way or lost.

`GraphCollabProofs`, for any number of tabs, items, connections and saves:

- `TypeCorrect`, with the structure of every message, by `Typed`: connections are
  numbered within the bound, and only a connected tab is leader or trusted.
- `AcknowledgedSavesCover` by `Remembered`: an item counted more than once, in any
  document of a tab or on its way, was removed by a reload. Hence the document of
  the tab that saves can overrule that of the tab that asks on such items only.
- `VisibilityIsKnown` by `Reporting`: the last report under way is the truth, or the
  session has it, or the answer to a join is due, upon which the tab reports again;
  and nothing is known of connections to come. The order of handling does not matter.
- `NoneWaitsInVain` by `Asking`: a leader that is not trusted reloads, any other such
  tab has a timer, or will get one with the answer to its join, or was interrupted.
- `TrustedTabsAgree` by `Covering`: unless `apart`, a trusted tab is in the room, and
  whatever any document around has of an item, it has or is sure to import
  (`Reaches`). When all is delivered, nothing is to be imported, and two such
  documents bound each other. Every step either keeps the documents around
  (`SilentCovers`) or changes one and tells the others (`DocumentCovers`).

The proofs have corrected the model. `NoneLeftWaitingIfLed` without `Interrupted`, and
`Converged` with an `apart` that did not know of overtaken snapshots, held in the
instance of the run, and only there.

What `EvidenceHolds`, `NothingFollowsTheTerminal`, `DoneIsCleanedUp`, `BaseCorrect`,
`SafetyCorrect` and the `TypeCorrect` of agent runs state is not checked by a run as
well: the proof covers every instance.

Every safety property of the passing runs is stated by a theorem. Only model-checked:
the liveness properties (`ExitEventuallyRecorded`, `TerminatedEventuallyStops`,
`CancellationEventuallyDone`, `RunEventuallyEnds`, `ShutdownEventuallyReturns`,
`FollowingEnds`, `LatestEditSaved`, `PollingEnds`): fairness and ENABLED are out of the
prover's reach.

## 5. Not modelled

- `SendInput`, `WaitJob` and the log windows: they change no state that the
  properties speak of.
- Of the sandbox server: errors of writes to SQLite, and a `kill-session` that fails
  (`CleanupSession` drops its error); queries of tmux do fail in the model.
- Expiry of Redis keys, run snapshots and usage, what happens in the agent.
- `wait_run`, the synchronous twins of the client's methods, client time limits.
- Of the autosave: the build session (`use-agent-configure-build-draft.ts`), the
  model chosen outside of the form, validation.
- Of session renewal: access tokens, the expiry of refresh tokens, signing out or in
  elsewhere, pages kept by the browser for a return.
- Of collaboration: undo and redo, presence, cursors and comments, deletions by
  users, the flush of a workflow on page close, the local fallback of a save
  after a rejected request, the reload of an offline tab, the expiry of keys, and
  interleavings inside a handler of the server other than the join.
- The parts marked `not_modelled` in `PROJECT.json`; the rest of `api/` and `web/`
  answers requests and draws, without a protocol of its own.

## 6. Plan

Done: `JobLedger`, `ShellctlJob`, `RunLifecycle`, `AgentRun`, `RunFollower` and
their proofs, in this order: the state machines most exposed to races first.
Then the protocols between the console and the API: `ComposerSync`,
`TokenRefresh`, `GraphCollab` with their proofs; then the rest of the safety
properties of `ShellctlJob`.

Next, by importance:

1. `WorkspaceBinding`, with an abstract `BindingLedger`: bindings in the API's
   database against sandboxes in the backend; retirement with retries, failures
   between the two, leases. Claim: a sandbox is released at most once it is
   retired, and no live binding loses its sandbox.
2. `AppQueue` and `ExecutionCoordinator`: worker thread, listener and stop flag;
   an execution is finished once, a stopped task publishes nothing more. Composed
   with `RunFollower` in place of its free `Stop`.
3. `SnapshotGate`: snapshots of the sandbox's home against running jobs.
4. `RateLimit`, `TenantQueue`, `MigrationLock`: small Redis protocols with expiry.
   Claims: no task of a tenant is stranded in its queue, at most one holder of a
   lock that renews in time, a slot that is never returned expires.
5. `ShellctlInput`: SendInput and WaitJob over `ShellctlJob`.

Proofs to add: the refinements and safety invariants of the modules above.
