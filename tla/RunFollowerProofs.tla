------------------------- MODULE RunFollowerProofs -------------------------
(* Proofs about RunFollower, for every page size, every number of          *)
(* reconnects and all that may happen to the run that is followed.         *)
EXTENDS RunFollower, AgentRunProofs

RunFacts == RunInv /\ SingleTerminal

-----------------------------------------------------------------------------
(* The run underneath *)

\* What the worker does to the run is something that a client may do to it.
LEMMA FollowerStepIsRunStep == [FollowerNext]_<<vars, followerVars>> => [Next]_vars
<1>1. ASSUME RequestCancellation(Followed) PROVE Next
    BY <1>1, FollowerConstants DEF Next, Api
<1> QED BY <1>1
    DEF FollowerNext, Follow, StartStream, Connect, Receive, Disconnect, ReadEvents,
        SendEvent, Stop, CancelRun, CheckCancelled, CancelCallFails

\* AgentRun's behaviours include those of a run that is followed, so that all
\* that is proved about AgentRun holds here.
THEOREM FollowedRunIsARun == FollowerSpec => Spec
<1>1. FollowerInit => Init
    BY DEF FollowerInit
<1> QED BY <1>1, FollowerStepIsRunStep, PTL DEF FollowerSpec, Spec

LEMMA RunFactsHold == FollowerSpec => []RunFacts
BY FollowedRunIsARun, RunInvHolds, SingleTerminalHolds, PTL DEF RunFacts

\* Entries of a stream stay where they are.
StreamGrows ==
    /\ stream' \in Seq(Events) /\ Len(stream) <= Len(stream')
    /\ \A i \in 1 .. Len(stream) : stream'[i] = stream[i]

LEMMA AppendGrows ==
    ASSUME StoreTypes, NEW r \in Runs, NEW e \in Events,
           events' = [events EXCEPT ![r] = Append(@, e)]
    PROVE  StreamGrows
<1>1. Followed \in Runs /\ events[Followed] \in Seq(Events) /\ events[r] \in Seq(Events)
    BY FollowerConstants DEF StoreTypes
<1>2. CASE r = Followed
    <2>1. stream' = Append(stream, e)
        BY <1>1, <1>2 DEF stream, StoreTypes
    <2> QED BY <1>1, <2>1 DEF stream, StreamGrows
<1>3. CASE r # Followed
    <2>1. stream' = stream
        BY <1>1, <1>3 DEF stream, StoreTypes
    <2> QED BY <1>1, <2>1 DEF stream, StreamGrows
<1> QED BY <1>2, <1>3

LEMMA StoreStepGrows == StoreTypes /\ StoreStep => StreamGrows
<1> SUFFICES ASSUME StoreTypes, StoreStep PROVE StreamGrows
    OBVIOUS
<1>1. CASE events' = events
    <2>1. stream' = stream /\ stream \in Seq(Events)
        BY <1>1, FollowerConstants DEF stream, StoreTypes
    <2> QED BY <2>1 DEF StreamGrows
<1>2. CASE \E r \in Runs, e \in Events : events' = [events EXCEPT ![r] = Append(@, e)]
    BY <1>2, AppendGrows
<1>3. events' = events \/ \E r \in Runs, e \in Events : events' = [events EXCEPT ![r] = Append(@, e)]
    BY DEF StoreStep, AppendEvent, FinalizeRun, FinalizeCancellation, store, Events, TerminalEvents
<1> QED BY <1>1, <1>2, <1>3

\* What a step may not do to the run that is followed.
RunGoesOn ==
    /\ StreamGrows
    /\ runner[Followed] # "none" => runner'[Followed] # "none"
    /\ phase[Followed] \in {"cancelling", "cancelled"}
           => phase'[Followed] \in {"cancelling", "cancelled"}
    /\ phase[Followed] = "cancelled" => phase'[Followed] = "cancelled"

LEMMA RunnerStays ==
    TypeOK /\ [Next]_vars /\ runner[Followed] # "none" => runner'[Followed] # "none"
<1> SUFFICES ASSUME TypeOK, [Next]_vars, runner[Followed] # "none"
             PROVE  runner'[Followed] # "none"
    OBVIOUS
<1>0. Followed \in Runs
    BY FollowerConstants
<1>1. ASSUME NEW r \in Runs, Api(r) PROVE runner'[Followed] # "none"
    BY <1>0, <1>1 DEF Api, AdmitRun, CreateRecord, ScheduleRun, RequestCancellation, Run, TypeOK
<1>2. ASSUME NEW r \in Runs, Runner(r) PROVE runner'[Followed] # "none"
    BY <1>0, <1>2 DEF Runner, EmitStarted, EmitStreamEvent, AgentEnds, EmitTerminal, Run, TypeOK
<1>3. ASSUME NEW r \in Runs, CancelRunner(r) PROVE runner'[Followed] # "none"
    BY <1>0, <1>3 DEF CancelRunner, TypeOK
<1>4. ASSUME NEW r \in Runs, Supervisor(r) PROVE runner'[Followed] # "none"
    BY <1>0, <1>3, <1>4 DEF Supervisor, ObserveIntent, RunnerFinished, GetIntent, MarkFailed,
                            PublishCancelled, HandleShutdown
<1>5. ASSUME NEW r \in Runs, Environment(r) PROVE runner'[Followed] # "none"
    BY <1>0, <1>3, <1>5 DEF Environment, ExecuteLate, CreateFails, AppendFails, TerminalFails,
                            ObserverFails, SupervisorFails, Run, TypeOK
<1>6. CASE Shutdown
    BY <1>6 DEF Shutdown, BeginShutdown, CancelPending, ShutdownReturns, ShutdownFrame
<1>7. CASE Crash
    BY <1>0, <1>7 DEF Crash, TypeOK
<1>8. CASE UNCHANGED vars
    BY <1>8 DEF vars
<1> QED BY <1>1, <1>2, <1>4, <1>5, <1>6, <1>7, <1>8 DEF Next

LEMMA StepGoesOn == RunInv /\ [Next]_vars => RunGoesOn
<1> SUFFICES ASSUME RunInv, [Next]_vars PROVE RunGoesOn
    OBVIOUS
<1>1. StoreStep /\ StoreTypes
    BY NextStoreStep DEF RunInv, TypeOK, StoreTypes, Statuses
<1>2. runner[Followed] # "none" => runner'[Followed] # "none"
    BY RunnerStays DEF RunInv
<1>3. [\E r \in Runs : Lifecycle!Move(r)]_phase
    BY <1>1, StepMoves
<1>4. ASSUME NEW r \in Runs, Lifecycle!Move(r), phase[Followed] \in {"cancelling", "cancelled"}
      PROVE  /\ phase'[Followed] \in {"cancelling", "cancelled"}
             /\ phase[Followed] = "cancelled" => phase'[Followed] = "cancelled"
    <2>1. PICK m \in Lifecycle!Moves : phase[r] = m[1] /\ phase' = [phase EXCEPT ![r] = m[2]]
        BY <1>4 DEF Lifecycle!Move
    <2>2. phase'[Followed] = IF r = Followed THEN m[2] ELSE phase[Followed]
        BY <2>1, FollowerConstants DEF phase
    <2>3. m[1] = "cancelling" => m[2] = "cancelled"
        BY DEF Lifecycle!Moves
    <2>4. m[1] # "cancelled"
        BY DEF Lifecycle!Moves
    <2> QED BY <1>4, <2>1, <2>2, <2>3, <2>4
<1> QED BY <1>1, <1>2, <1>3, <1>4, StoreStepGrows DEF RunGoesOn

-----------------------------------------------------------------------------
(* The inductive invariant *)

\* What is on its way from the stream to the client is what follows its cursor.
Transport ==
    /\ IF reader = "open" THEN response # "none" /\ cursor = sent - Len(wire)
                          ELSE response = "none" /\ sent = 0 /\ page = <<>> /\ wire = <<>>
    /\ \A i \in DOMAIN wire : wire[i] = sent - Len(wire) + i
    /\ \A i \in DOMAIN page : page[i] = sent + i
    /\ sent + Len(page) <= Len(stream)

\* Where the worker is tells what it knows about the run.
Knowledge ==
    /\ IF reader = "idle" THEN cursor = 0 /\ purpose = "stream"
                          ELSE runner[Followed] # "none"
    /\ reader = "check" => purpose = "cancel" /\ got = <<>>
    /\ reader = "done" => cursor > 0 /\ IsTerminal(cursor)

FollowerInv == /\ FollowerTypeOK /\ DeliveredInOrder /\ TerminalStillAhead
               /\ AcceptedMeansCancelled /\ Transport /\ Knowledge

LEMMA FollowerInitInv == FollowerInit => FollowerInv
<1> SUFFICES ASSUME FollowerInit PROVE FollowerInv
    OBVIOUS
<1>1. stream = <<>>
    BY FollowerConstants DEF FollowerInit, Init, stream
<1> QED BY <1>1, FollowerConstants
    DEF FollowerInit, FollowerInv, FollowerTypeOK, DeliveredInOrder, TerminalStillAhead,
        AcceptedMeansCancelled, Transport, Knowledge

\* A step of the run changes none of it.
LEMMA RunStepInv ==
    ASSUME FollowerInv, RunGoesOn, UNCHANGED followerVars
    PROVE  FollowerInv'
<1>0. /\ UNCHANGED <<reader, purpose, cursor, got, attempts, response, sent, page, wire>>
      /\ Len(stream) <= Len(stream') /\ Len(stream) \in Nat /\ Len(stream') \in Nat
      /\ \A i \in 1 .. Len(stream) : stream'[i] = stream[i]
    BY DEF followerVars, connection, RunGoesOn, StreamGrows
<1>1. FollowerTypeOK'
    BY <1>0 DEF FollowerInv, FollowerTypeOK
<1>2. DeliveredInOrder'
    BY <1>0 DEF FollowerInv, DeliveredInOrder
<1>3. TerminalStillAhead'
    <2>1. \A id \in 1 .. cursor : id \in 1 .. Len(stream) /\ (IsTerminal(id)' <=> IsTerminal(id))
        BY <1>0 DEF FollowerInv, FollowerTypeOK, IsTerminal
    <2> QED BY <1>0, <2>1 DEF FollowerInv, TerminalStillAhead
<1>4. AcceptedMeansCancelled'
    BY <1>0 DEF FollowerInv, AcceptedMeansCancelled, RunGoesOn
<1>5. Transport'
    BY <1>0 DEF FollowerInv, FollowerTypeOK, Transport
<1>6. Knowledge'
    BY <1>0 DEF FollowerInv, FollowerTypeOK, Knowledge, IsTerminal, RunGoesOn
<1> QED BY <1>1, <1>2, <1>3, <1>4, <1>5, <1>6 DEF FollowerInv

-----------------------------------------------------------------------------
(* The worker and its connection *)

LEMMA RunUnchanged ==
    ASSUME UNCHANGED vars
    PROVE  /\ stream' = stream /\ runner' = runner /\ phase' = phase /\ status' = status
           /\ \A id : IsTerminal(id)' <=> IsTerminal(id)
BY DEF vars, store, stream, phase, IsTerminal

LEMMA StreamType == RunFacts => stream \in Seq(Events) /\ Len(stream) \in Nat
BY FollowerConstants DEF RunFacts, RunInv, TypeOK, stream

\* A terminal event in the stream is the run's outcome.
LEMMA TerminalIsOutcome ==
    ASSUME RunFacts, NEW id \in 1 .. Len(stream), IsTerminal(id)
    PROVE  stream[id] = status[Followed] /\ status[Followed] # "running"
<1>1. Followed \in Runs /\ id \in DOMAIN events[Followed]
    BY FollowerConstants DEF RunFacts, RunInv, TypeOK, stream
<1> QED BY <1>1 DEF RunFacts, SingleTerminal, IsTerminal, stream, TerminalEvents

LEMMA StartStreamInv == RunFacts /\ FollowerInv /\ StartStream => FollowerInv'
<1> SUFFICES ASSUME RunFacts, FollowerInv, StartStream PROVE FollowerInv'
    OBVIOUS
<1> USE DEF FollowerInv, FollowerTypeOK, DeliveredInOrder, TerminalStillAhead,
            AcceptedMeansCancelled, Transport, Knowledge
<1>1. UNCHANGED <<purpose, cursor, got, attempts, response, sent, page, wire>>
      /\ reader = "idle" /\ reader' = "connect" /\ runner[Followed] # "none"
    BY DEF StartStream, connection
<1>2. cursor = 0 /\ purpose = "stream"
    BY <1>1
<1> QED BY <1>1, <1>2, RunUnchanged, StreamType DEF StartStream

LEMMA ConnectInv == RunFacts /\ FollowerInv /\ Connect => FollowerInv'
<1> SUFFICES ASSUME RunFacts, FollowerInv, Connect PROVE FollowerInv'
    OBVIOUS
<1> USE DEF FollowerInv, FollowerTypeOK, DeliveredInOrder, TerminalStillAhead,
            AcceptedMeansCancelled, Transport, Knowledge
<1> QED BY RunUnchanged, StreamType DEF Connect

LEMMA DisconnectInv == RunFacts /\ FollowerInv /\ Disconnect => FollowerInv'
<1> SUFFICES ASSUME RunFacts, FollowerInv, Disconnect PROVE FollowerInv'
    OBVIOUS
<1> USE DEF FollowerInv, FollowerTypeOK, DeliveredInOrder, TerminalStillAhead,
            AcceptedMeansCancelled, Transport, Knowledge
<1> QED BY RunUnchanged, StreamType, FollowerConstants DEF Disconnect, Hangup

LEMMA StopInv == RunFacts /\ FollowerInv /\ Stop => FollowerInv'
<1> SUFFICES ASSUME RunFacts, FollowerInv, Stop PROVE FollowerInv'
    OBVIOUS
<1> USE DEF FollowerInv, FollowerTypeOK, DeliveredInOrder, TerminalStillAhead,
            AcceptedMeansCancelled, Transport, Knowledge
<1> QED BY RunUnchanged, StreamType DEF Stop, Hangup

LEMMA CheckCancelledInv == RunFacts /\ FollowerInv /\ CheckCancelled => FollowerInv'
<1> SUFFICES ASSUME RunFacts, FollowerInv, CheckCancelled PROVE FollowerInv'
    OBVIOUS
<1> USE DEF FollowerInv, FollowerTypeOK, DeliveredInOrder, TerminalStillAhead,
            AcceptedMeansCancelled, Transport, Knowledge
<1>1. status[Followed] # "cancelled" => status[Followed] = "running"
    BY FollowerConstants DEF CheckCancelled, phase, RunFacts, RunInv, TypeOK, TerminalEvents
<1>2. \A id \in 1 .. cursor' : ~IsTerminal(id)
    BY <1>1, TerminalIsOutcome, StreamType DEF CheckCancelled
<1> QED BY <1>2, RunUnchanged, StreamType DEF CheckCancelled, connection
LEMMA CancelRunInv == RunFacts /\ FollowerInv /\ RunGoesOn /\ CancelRun => FollowerInv'
<1> SUFFICES ASSUME RunFacts, FollowerInv, RunGoesOn, CancelRun PROVE FollowerInv'
    OBVIOUS
<1>0. /\ UNCHANGED <<cursor, response, sent, page, wire>> /\ reader = "stopped"
      /\ purpose' = "cancel" /\ got' = <<>> /\ attempts' = 0
    BY DEF CancelRun, connection
<1>1. events' = events /\ stream' = stream
    BY RunUnchanged DEF CancelRun, RequestCancellation, vars, store, stream
<1>2. reader' # "failed" => phase'[Followed] \in {"cancelling", "cancelled"}
    <2>1. status[Followed] \in {"running", "cancelled", "succeeded", "failed"}
        BY <1>0, FollowerConstants
        DEF FollowerInv, Knowledge, RunFacts, RunInv, TypeOK, RunEvidence, Evidence,
            TerminalEvents
    <2>2. CASE status[Followed] = "running"
        BY <2>2, FollowerConstants DEF CancelRun, RequestCancellation, RunFacts, RunInv, TypeOK, phase
    <2>3. CASE status[Followed] = "cancelled"
        BY <2>3, FollowerConstants, RunUnchanged DEF CancelRun, phase
    <2>4. CASE status[Followed] \in {"succeeded", "failed"}
        BY <2>4 DEF CancelRun
    <2> QED BY <2>1, <2>2, <2>3, <2>4
<1>3. reader' \in {"failed", "check"} \/ (reader' = "connect" /\ cursor = 0)
    BY DEF CancelRun
<1>4. FollowerTypeOK'
    BY <1>0, <1>1, <1>3, StreamType, FollowerConstants DEF FollowerInv, FollowerTypeOK
<1>5. DeliveredInOrder'
    BY <1>0 DEF DeliveredInOrder
<1>6. TerminalStillAhead'
    BY <1>0, <1>3 DEF TerminalStillAhead
<1>7. AcceptedMeansCancelled'
    BY <1>2, <1>3 DEF AcceptedMeansCancelled
<1>8. Transport'
    BY <1>0, <1>1, <1>3 DEF FollowerInv, Transport
<1>9. Knowledge'
    BY <1>0, <1>3 DEF FollowerInv, Knowledge, RunGoesOn
<1> QED BY <1>4, <1>5, <1>6, <1>7, <1>8, <1>9 DEF FollowerInv

LEMMA CancelCallFailsInv ==
    RunFacts /\ FollowerInv /\ RunGoesOn /\ CancelCallFails => FollowerInv'
<1> SUFFICES ASSUME RunFacts, FollowerInv, RunGoesOn, CancelCallFails PROVE FollowerInv'
    OBVIOUS
<1> USE DEF FollowerInv, FollowerTypeOK, DeliveredInOrder, TerminalStillAhead,
            AcceptedMeansCancelled, Transport, Knowledge
<1>0. /\ UNCHANGED <<cursor, got, attempts, response, sent, page, wire>>
      /\ reader \in {"stopped", "check"} /\ reader' = "failed" /\ purpose' = "cancel"
    BY DEF CancelCallFails, connection
<1>1. stream' = stream
    BY RunUnchanged DEF CancelCallFails, RequestCancellation, stream
<1> QED BY <1>0, <1>1, StreamType DEF RunGoesOn

\* What appending an id to a sequence of ids gives, and taking the head away.
LEMMA AppendId ==
    ASSUME NEW s \in Seq(Nat), NEW id \in Nat
    PROVE  /\ Append(s, id) \in Seq(Nat) /\ Len(s) \in Nat /\ Len(Append(s, id)) = Len(s) + 1
           /\ \A i \in DOMAIN Append(s, id) :
                  /\ i \in Nat
                  /\ i # Len(s) + 1 => i \in DOMAIN s /\ Append(s, id)[i] = s[i]
                  /\ i = Len(s) + 1 => Append(s, id)[i] = id
OBVIOUS

LEMMA HeadAndTail ==
    ASSUME NEW s \in Seq(Nat), s # <<>>
    PROVE  /\ Head(s) = s[1] /\ 1 \in DOMAIN s /\ Len(s) \in Nat \ {0}
           /\ Tail(s) \in Seq(Nat) /\ Len(Tail(s)) = Len(s) - 1
           /\ \A i \in DOMAIN Tail(s) : i \in Nat /\ i + 1 \in DOMAIN s /\ Tail(s)[i] = s[i + 1]
OBVIOUS

LEMMA Types ==
    ASSUME RunFacts, FollowerInv
    PROVE  /\ Len(stream) \in Nat /\ sent \in Nat /\ cursor \in Nat
           /\ sent <= Len(stream) /\ cursor <= Len(stream)
           /\ got \in Seq(Nat) /\ page \in Seq(Nat) /\ wire \in Seq(Nat)
           /\ Len(got) \in Nat /\ Len(page) \in Nat /\ Len(wire) \in Nat
BY StreamType DEF FollowerInv, FollowerTypeOK

\* A step of the server of the connection: it may disturb no more than this.
LEMMA ServerStepInv ==
    ASSUME RunFacts, FollowerInv, UNCHANGED vars,
           UNCHANGED <<reader, purpose, cursor, got, attempts>>,
           reader = "open", response' \in {"replay", "follow", "ended"},
           sent' \in 0 .. Len(stream), page' \in Seq(Nat), wire' \in Seq(Nat),
           cursor = sent' - Len(wire'),
           \A i \in DOMAIN wire' : wire'[i] = sent' - Len(wire') + i,
           \A i \in DOMAIN page' : page'[i] = sent' + i,
           sent' + Len(page') <= Len(stream)
    PROVE  FollowerInv'
<1>1. FollowerTypeOK'
    BY RunUnchanged DEF FollowerInv, FollowerTypeOK
<1>2. DeliveredInOrder' /\ AcceptedMeansCancelled' /\ Knowledge'
    BY RunUnchanged DEF FollowerInv, DeliveredInOrder, AcceptedMeansCancelled, Knowledge
<1>3. TerminalStillAhead'
    BY RunUnchanged DEF FollowerInv, TerminalStillAhead
<1>4. Transport'
    BY RunUnchanged DEF Transport
<1> QED BY <1>1, <1>2, <1>3, <1>4 DEF FollowerInv

\* The server reads on where it is.
LEMMA ReadEventsInv == RunFacts /\ FollowerInv /\ ReadEvents => FollowerInv'
<1> SUFFICES ASSUME RunFacts, FollowerInv, ReadEvents PROVE FollowerInv'
    OBVIOUS
<1> DEFINE n == IF Len(stream) - sent < PageLimit THEN Len(stream) - sent ELSE PageLimit
<1>0. UNCHANGED <<vars, reader, purpose, cursor, got, attempts, sent, wire>> /\ reader = "open"
      /\ page' = [i \in 1 .. n |-> sent + i] /\ response' \in {"replay", "follow", "ended"}
    BY DEF ReadEvents, FollowerInv, Transport
<1>1. n \in Nat /\ sent \in Nat /\ sent + n <= Len(stream)
    BY Types, FollowerConstants
<1> HIDE DEF n
<1>2. /\ page' \in Seq(Nat) /\ Len(page') = n
      /\ \A i \in DOMAIN page' : page'[i] = sent + i
    BY <1>0, <1>1
<1>3. /\ sent \in 0 .. Len(stream) /\ cursor = sent - Len(wire) /\ wire \in Seq(Nat)
      /\ \A i \in DOMAIN wire : wire[i] = sent - Len(wire) + i
    BY <1>0, Types DEF FollowerInv, Transport
<1> QED BY <1>0, <1>1, <1>2, <1>3, ServerStepInv

LEMMA SendEventInv == RunFacts /\ FollowerInv /\ SendEvent => FollowerInv'
<1> SUFFICES ASSUME RunFacts, FollowerInv, SendEvent PROVE FollowerInv'
    OBVIOUS
<1>0. /\ UNCHANGED <<vars, reader, purpose, cursor, got, attempts>> /\ reader = "open"
      /\ response' \in {"replay", "follow", "ended"}
      /\ page # <<>> /\ sent' = Head(page) /\ wire' = Append(wire, Head(page))
      /\ page' = <<>> \/ page' = Tail(page)
    BY DEF SendEvent, FollowerInv, FollowerTypeOK, Transport
<1>t. /\ Len(stream) \in Nat /\ sent \in Nat /\ Len(page) \in Nat \ {0} /\ Len(wire) \in Nat
      /\ cursor = sent - Len(wire) /\ sent + Len(page) <= Len(stream)
    BY <1>0, Types, HeadAndTail DEF FollowerInv, Transport
<1>1. sent' = sent + 1 /\ wire' = Append(wire, sent + 1)
    BY <1>0, Types, HeadAndTail DEF FollowerInv, Transport
<1>2. /\ wire' \in Seq(Nat) /\ Len(wire') = Len(wire) + 1
      /\ \A i \in DOMAIN wire' : /\ i \in Nat
                                 /\ i # Len(wire) + 1 => i \in DOMAIN wire /\ wire'[i] = wire[i]
                                 /\ i = Len(wire) + 1 => wire'[i] = sent + 1
    BY <1>1, <1>t, Types, AppendId
<1>3. page' \in Seq(Nat) /\ sent' + Len(page') <= Len(stream)
      /\ \A i \in DOMAIN page' : page'[i] = sent' + i
    <2>1. CASE page' = <<>> BY <1>1, <1>t, <2>1
    <2>2. CASE page' = Tail(page)
        <3>1. \A i \in DOMAIN page' : i \in Nat /\ page'[i] = sent + (i + 1)
            BY <1>0, <2>2, Types, HeadAndTail DEF FollowerInv, Transport
        <3>2. page' \in Seq(Nat) /\ Len(page') = Len(page) - 1
            BY <1>0, <2>2, Types, HeadAndTail
        <3>3. sent' + Len(page') <= Len(stream)
            BY <1>1, <1>t, <3>2
        <3>4. ASSUME NEW i \in DOMAIN page' PROVE page'[i] = sent' + i
            <4>1. i \in Nat /\ page'[i] = sent + (i + 1)
                BY <3>1
            <4>2. sent' = sent + 1 /\ sent \in Nat
                BY <1>1, <1>t
            <4>3. sent + (i + 1) = (sent + 1) + i
                BY <4>1, <4>2
            <4> QED BY <4>1, <4>2, <4>3, Zenon
        <3> QED BY <3>2, <3>3, <3>4
    <2> QED BY <1>0, <2>1, <2>2
<1>4. \A i \in DOMAIN wire' : wire'[i] = sent' - Len(wire') + i
    <2> SUFFICES ASSUME NEW i \in DOMAIN wire' PROVE wire'[i] = sent' - Len(wire') + i
        OBVIOUS
    <2>1. i # Len(wire) + 1 => wire'[i] = sent - Len(wire) + i
        BY <1>2 DEF FollowerInv, Transport
    <2> QED BY <1>1, <1>2, <1>t, <2>1
<1>5. cursor = sent' - Len(wire') /\ sent' \in 0 .. Len(stream)
    BY <1>1, <1>2, <1>t
<1> QED BY <1>0, <1>2, <1>3, <1>4, <1>5, ServerStepInv
-----------------------------------------------------------------------------
(* The client takes an event *)

LEMMA ReceiveInv == RunFacts /\ FollowerInv /\ Receive => FollowerInv'
<1> SUFFICES ASSUME RunFacts, FollowerInv, Receive PROVE FollowerInv'
    OBVIOUS
<1>0. /\ UNCHANGED <<vars, purpose, attempts>> /\ reader = "open" /\ wire # <<>>
      /\ cursor' = Head(wire) /\ got' = Append(got, Head(wire))
    BY DEF Receive
<1>t. /\ Len(stream) \in Nat /\ sent \in Nat /\ cursor \in Nat /\ Len(wire) \in Nat \ {0}
      /\ Len(got) \in Nat /\ cursor = sent - Len(wire) /\ sent <= Len(stream)
      /\ runner[Followed] # "none"
    BY <1>0, Types, HeadAndTail DEF FollowerInv, Transport, Knowledge
<1>1. /\ cursor' = cursor + 1 /\ cursor' = Head(wire) /\ cursor' \in 1 .. Len(stream)
      /\ got' = Append(got, cursor + 1)
    BY <1>0, <1>t, Types, HeadAndTail DEF FollowerInv, Transport
<1>2. got' \in Seq(Nat) /\ DeliveredInOrder'
    <2>1. /\ got' \in Seq(Nat) /\ Len(got') = Len(got) + 1
          /\ \A i \in DOMAIN got' : /\ i \in Nat
                                    /\ i # Len(got) + 1 => i \in DOMAIN got /\ got'[i] = got[i]
                                    /\ i = Len(got) + 1 => got'[i] = cursor + 1
        BY <1>1, <1>t, Types, AppendId
    <2>2. ASSUME NEW i \in DOMAIN got' PROVE got'[i] = cursor' - Len(got') + i
        <3>1. i # Len(got) + 1 => got'[i] = cursor - Len(got) + i
            BY <2>1 DEF FollowerInv, DeliveredInOrder
        <3> QED BY <1>1, <1>t, <2>1, <3>1
    <2> QED BY <2>1, <2>2 DEF DeliveredInOrder
<1>3. CASE IsTerminal(Head(wire))
    <2>1. /\ reader' \in {"failed", "done"} /\ Hangup
          /\ purpose = "cancel" /\ reader' = "done" => stream[Head(wire)] = "cancelled"
        BY <1>3 DEF Receive
    <2>2. stream[Head(wire)] = status[Followed]
        BY <1>1, <1>3, TerminalIsOutcome
    <2>3. FollowerTypeOK'
        BY <1>0, <1>1, <1>2, <1>t, <2>1, RunUnchanged
        DEF FollowerInv, FollowerTypeOK, Hangup
    <2>4. AcceptedMeansCancelled'
        <3>1. stream[Head(wire)] = "cancelled" => phase[Followed] = "cancelled"
            BY <2>2, FollowerConstants DEF phase
        <3> QED BY <1>0, <2>1, <3>1, RunUnchanged DEF AcceptedMeansCancelled
    <2>5. TerminalStillAhead' /\ Transport'
        BY <1>t, <2>1, RunUnchanged DEF TerminalStillAhead, Transport, Hangup
    <2>6. Knowledge'
        BY <1>1, <1>3, <1>t, <2>1, RunUnchanged, <1>0 DEF Knowledge
    <2> QED BY <1>2, <2>3, <2>4, <2>5, <2>6 DEF FollowerInv
<1>4. CASE ~IsTerminal(Head(wire))
    <2>1. /\ UNCHANGED <<vars, purpose, attempts, reader, response, sent, page>>
          /\ wire' = Tail(wire)
        BY <1>0, <1>4 DEF Receive
    <2>2. /\ wire' \in Seq(Nat) /\ Len(wire') = Len(wire) - 1
          /\ \A i \in DOMAIN wire' : i \in Nat /\ wire'[i] = sent - Len(wire) + (i + 1)
        BY <1>0, <2>1, Types, HeadAndTail DEF FollowerInv, Transport
    <2>3. FollowerTypeOK'
        BY <1>1, <1>2, <1>t, <2>1, <2>2, RunUnchanged DEF FollowerInv, FollowerTypeOK
    <2>4. AcceptedMeansCancelled' /\ Knowledge'
        BY <1>0, <2>1, RunUnchanged DEF FollowerInv, AcceptedMeansCancelled, Knowledge
    <2>5. TerminalStillAhead'
        <3>1. ASSUME NEW id \in 1 .. cursor' PROVE ~IsTerminal(id)
            <4>1. id \in 1 .. cursor \/ id = Head(wire)
                BY <1>1, <1>t
            <4> QED BY <1>0, <1>4, <4>1 DEF FollowerInv, TerminalStillAhead
        <3> QED BY <2>1, <3>1, RunUnchanged DEF TerminalStillAhead
    <2>6. Transport'
        <3>1. ASSUME NEW i \in DOMAIN wire' PROVE wire'[i] = sent' - Len(wire') + i
            <4>1. i \in Nat /\ wire'[i] = sent - Len(wire) + (i + 1)
                BY <2>2
            <4> QED BY <1>t, <2>1, <2>2, <4>1
        <3>2. cursor' = sent' - Len(wire')
            BY <1>1, <1>t, <2>1, <2>2
        <3> QED BY <1>0, <2>1, <3>1, <3>2, RunUnchanged DEF FollowerInv, Transport
    <2> QED BY <1>2, <2>3, <2>4, <2>5, <2>6 DEF FollowerInv
<1> QED BY <1>3, <1>4

-----------------------------------------------------------------------------
(* The theorems *)

LEMMA FollowerStepInv ==
    RunFacts /\ FollowerInv /\ [FollowerNext]_<<vars, followerVars>> => FollowerInv'
<1> SUFFICES ASSUME RunFacts, FollowerInv, [FollowerNext]_<<vars, followerVars>>
             PROVE  FollowerInv'
    OBVIOUS
<1>0. RunGoesOn
    BY FollowerStepIsRunStep, StepGoesOn DEF RunFacts
<1>1. CASE UNCHANGED followerVars
    BY <1>0, <1>1, RunStepInv
<1> QED BY <1>0, <1>1, StartStreamInv, ConnectInv, ReceiveInv, ReadEventsInv, SendEventInv,
           CancelRunInv, CheckCancelledInv, DisconnectInv, StopInv, CancelCallFailsInv
        DEF FollowerNext, Follow

LEMMA FollowerInvHolds == FollowerSpec => []FollowerInv
<1> QED BY FollowerInitInv, FollowerStepInv, RunFactsHold, PTL DEF FollowerSpec

\* Every variable of the follower has its type, and what the worker has been
\* given are consecutive events of the run, however often it reconnected.
THEOREM EventsDeliveredInOrder == FollowerSpec => [](FollowerTypeOK /\ DeliveredInOrder)
<1>1. FollowerInv => FollowerTypeOK /\ DeliveredInOrder
    BY DEF FollowerInv
<1> QED BY <1>1, FollowerInvHolds, PTL

\* A client never waits for a terminal event that its cursor excludes.
THEOREM TerminalIsAhead == FollowerSpec => []TerminalStillAhead
<1>1. FollowerInv => TerminalStillAhead
    BY DEF FollowerInv
<1> QED BY <1>1, FollowerInvHolds, PTL

\* Who waits after an accepted cancellation is told that the run was cancelled.
THEOREM AcceptedIsCancelled == FollowerSpec => []AcceptedMeansCancelled
<1>1. FollowerInv => AcceptedMeansCancelled
    BY DEF FollowerInv
<1> QED BY <1>1, FollowerInvHolds, PTL

\* A stream that is done has told the run's outcome, and the run has stopped.
THEOREM DoneIsCleanedUp == FollowerSpec => []DoneMeansCleanedUp
<1>1. RunFacts /\ FollowerInv => DoneMeansCleanedUp
    <2> SUFFICES ASSUME RunFacts, FollowerInv, reader = "done"
                 PROVE  /\ cursor > 0 /\ stream[cursor] = status[Followed]
                        /\ runner[Followed] \notin {"start", "agent"}
        BY DEF DoneMeansCleanedUp
    <2>1. cursor > 0 /\ IsTerminal(cursor) /\ cursor \in 1 .. Len(stream)
        BY Types DEF FollowerInv, Knowledge
    <2>2. stream[cursor] = status[Followed] /\ Ended(Followed)
        BY <2>1, TerminalIsOutcome DEF Ended, IsTerminal
    <2>3. Evidence(Followed)
        BY FollowerConstants DEF RunFacts, RunInv, RunEvidence
    <2> QED BY <2>1, <2>2, <2>3 DEF Evidence
<1> QED BY <1>1, FollowerInvHolds, RunFactsHold, PTL

\* When no command outlives its task, a consumer that is done has the whole
\* stream.
THEOREM DoneIsComplete == FollowerSpec => []DoneMeansComplete
<1>1. RunFacts /\ FollowerInv /\ TerminalIsLast => DoneMeansComplete
    <2> SUFFICES ASSUME RunFacts, FollowerInv, TerminalIsLast, ~LateCommands, reader = "done"
                 PROVE  cursor = Len(stream)
        BY DEF DoneMeansComplete
    <2>1. IsTerminal(cursor) /\ cursor \in 1 .. Len(stream)
        BY Types DEF FollowerInv, Knowledge
    <2>2. stream = events[Followed] /\ cursor \in DOMAIN events[Followed]
        BY <2>1, Types, FollowerConstants DEF stream
    <2> QED BY <2>1, <2>2, FollowerConstants DEF TerminalIsLast, IsTerminal
<1> QED BY <1>1, FollowerInvHolds, RunFactsHold, FollowedRunIsARun, NothingFollowsTheTerminal, PTL
=============================================================================
