---------------------------- MODULE RunFollower ----------------------------
(***************************************************************************)
(* A worker of the API that follows an agent run: it consumes the run's    *)
(* events over SSE, reconnecting from its cursor, and when it is stopped   *)
(* or the stream fails it cancels the run and waits for "run_cancelled".   *)
(* The run itself is the one of AgentRun; any server process may answer.   *)
(*                                                                         *)
(* An event id is its place in the stream.  A connection delivers what was *)
(* written to it in order until it drops, and then loses the rest.  Time   *)
(* limits, heartbeats and the decoding of frames are left out.             *)
(***************************************************************************)
EXTENDS AgentRun

CONSTANTS
    Followed,       \* the run that is followed
    PageLimit,      \* entries per XRANGE or XREAD
    MaxReconnects   \* max_reconnects

ASSUME FollowerConstants ==
    /\ Followed \in Runs
    /\ PageLimit \in Nat \ {0}
    /\ MaxReconnects \in Nat

VARIABLES
    reader,     \* where the worker is
    purpose,    \* "stream", or "cancel" inside cancel_run_and_wait
    cursor,     \* id of the last event it has seen
    got,        \* the ids that stream_events has yielded
    attempts,   \* reconnect_attempts
    response,   \* iter_events: "none", "replay", "follow" or "ended"
    sent,       \* the cursor of iter_events
    page,       \* ids it has read from Redis and not yet yielded
    wire        \* ids written to the connection and not yet received

connection == <<response, sent, page, wire>>
followerVars == <<reader, purpose, cursor, got, attempts, connection>>

stream == events[Followed]

IsTerminal(id) == stream[id] \in TerminalEvents

Hangup == response' = "none" /\ sent' = 0 /\ page' = <<>> /\ wire' = <<>>

FollowerInit ==
    /\ Init
    /\ reader = "idle" /\ purpose = "stream"
    /\ cursor = 0 /\ got = <<>> /\ attempts = 0
    /\ response = "none" /\ sent = 0 /\ page = <<>> /\ wire = <<>>

-----------------------------------------------------------------------------
(* The client: Client.stream_events *)

\* The id of a run is known once create_run has returned.
StartStream ==
    /\ reader = "idle" /\ runner[Followed] # "none"
    /\ reader' = "connect"
    /\ UNCHANGED <<vars, purpose, cursor, got, attempts, connection>>

\* Mutant: the cursor is not sent.
ConnectFromStart ==
    /\ reader = "connect"
    /\ reader' = "open"
    /\ response' = "replay" /\ sent' = 0 /\ page' = <<>> /\ wire' = <<>>
    /\ UNCHANGED <<vars, purpose, cursor, got, attempts>>

\* A request for the events after the cursor is answered.
Connect ==
    /\ reader = "connect"
    /\ reader' = "open"
    /\ response' = "replay" /\ sent' = cursor /\ page' = <<>> /\ wire' = <<>>
    /\ UNCHANGED <<vars, purpose, cursor, got, attempts>>

\* The client returns after a terminal event. cancel_run_and_wait takes any
\* other one than "run_cancelled" for an error.
Receive ==
    /\ reader = "open" /\ wire # <<>>
    /\ cursor' = Head(wire)
    /\ got' = Append(got, Head(wire))
    /\ IF IsTerminal(Head(wire))
       THEN /\ reader' = IF purpose = "cancel" /\ stream[Head(wire)] # "cancelled"
                         THEN "failed" ELSE "done"
            /\ Hangup
       ELSE /\ wire' = Tail(wire)
            /\ UNCHANGED <<reader, response, sent, page>>
    /\ UNCHANGED <<vars, purpose, attempts>>

\* The connection is refused, answered with 5xx or dropped, or the response
\* ends; the budget of reconnects is for the whole stream. A consumer that
\* is left without its stream cancels the run.
Disconnect ==
    /\ reader \in {"connect", "open"}
    /\ IF attempts < MaxReconnects
       THEN reader' = "connect" /\ attempts' = attempts + 1
       ELSE /\ reader' = IF purpose = "stream" THEN "stopped" ELSE "failed"
            /\ UNCHANGED attempts
    /\ Hangup
    /\ UNCHANGED <<vars, purpose, cursor, got>>

-----------------------------------------------------------------------------
(* The server: RedisRunStore.iter_events behind sse_event_stream *)

\* Entries after the cursor: XRANGE while there are any, XREAD from then on.
ReadEvents ==
    /\ response \in {"replay", "follow"} /\ page = <<>>
    /\ LET n == IF Len(stream) - sent < PageLimit THEN Len(stream) - sent ELSE PageLimit
       IN /\ n > 0 \/ response = "replay"
          /\ page' = [i \in 1 .. n |-> sent + i]
          /\ response' = IF n = 0 THEN "follow" ELSE response
    /\ UNCHANGED <<vars, reader, purpose, cursor, got, attempts, sent, wire>>

SendEvent ==
    /\ page # <<>>
    /\ sent' = Head(page)
    /\ wire' = Append(wire, Head(page))
    /\ IF IsTerminal(Head(page))
       THEN response' = "ended" /\ page' = <<>>
       ELSE page' = Tail(page) /\ UNCHANGED response
    /\ UNCHANGED <<vars, reader, purpose, cursor, got, attempts>>

-----------------------------------------------------------------------------
(* The consumer in the API, and Client.cancel_run_and_wait *)

\* The user stops the task, before the last event or after it.
Stop ==
    /\ purpose = "stream" /\ reader \in {"connect", "open", "done"}
    /\ reader' = "stopped"
    /\ Hangup
    /\ UNCHANGED <<vars, purpose, cursor, got, attempts>>

\* cancel_run; a finished run that was not cancelled is answered with 409.
CancelRun ==
    /\ reader = "stopped"
    /\ purpose' = "cancel" /\ got' = <<>> /\ attempts' = 0
    /\ IF status[Followed] \in {"succeeded", "failed"}
       THEN reader' = "failed"
       ELSE reader' = IF cursor = 0 THEN "connect" ELSE "check"
    /\ IF status[Followed] = "running" THEN RequestCancellation(Followed)
       ELSE UNCHANGED vars
    /\ UNCHANGED <<cursor, connection>>

\* Mutant: the stream is always resumed from the caller's cursor.
CheckCancelledUnchecked ==
    /\ reader = "check"
    /\ reader' = "connect"
    /\ UNCHANGED <<vars, purpose, cursor, got, attempts, connection>>

\* A cancelled run is read from the start: the cursor may exclude its end.
CheckCancelled ==
    /\ reader = "check"
    /\ reader' = "connect"
    /\ cursor' = IF status[Followed] = "cancelled" THEN 0 ELSE cursor
    /\ UNCHANGED <<vars, purpose, got, attempts, connection>>

\* One of the two calls fails, executed or not; the error is only logged.
CancelCallFails ==
    /\ reader \in {"stopped", "check"}
    /\ reader' = "failed" /\ purpose' = "cancel"
    /\ \/ UNCHANGED vars
       \/ reader = "stopped" /\ RequestCancellation(Followed)
    /\ UNCHANGED <<cursor, got, attempts, connection>>

-----------------------------------------------------------------------------
Follow == StartStream \/ Connect \/ Receive \/ ReadEvents \/ SendEvent
          \/ CancelRun \/ CheckCancelled

FollowerNext == \/ Next /\ UNCHANGED followerVars
                \/ Follow \/ Disconnect \/ Stop \/ CancelCallFails

FollowerSpec == FollowerInit /\ [][FollowerNext]_<<vars, followerVars>>

\* As for AgentRun; the client and the server go on, connections may drop.
FollowerFairSpec == /\ FollowerSpec /\ Fairness
                    /\ WF_<<vars, followerVars>>(Follow)

-----------------------------------------------------------------------------
(* Properties *)

\* Every variable has its type.
FollowerTypeOK ==
    /\ reader \in {"idle", "connect", "open", "stopped", "check", "done", "failed"}
    /\ purpose \in {"stream", "cancel"}
    /\ cursor \in 0 .. Len(stream) /\ sent \in 0 .. Len(stream)
    /\ attempts \in 0 .. MaxReconnects
    /\ response \in {"none", "replay", "follow", "ended"}
    /\ got \in Seq(Nat) /\ page \in Seq(Nat) /\ wire \in Seq(Nat)

\* However often the connection drops, what the consumer is given are
\* consecutive events: none is lost, repeated or out of order.
DeliveredInOrder ==
    \A i \in DOMAIN got : got[i] = cursor - Len(got) + i

\* A client never waits with a cursor that excludes the terminal event: the
\* server would not send it again and the client would wait for ever.
TerminalStillAhead ==
    reader \in {"connect", "open"} =>
        \A id \in 1 .. cursor : ~IsTerminal(id)

\* A stream that is done has ended with the run's outcome; when it is done,
\* the run has stopped and its cleanup is complete.
DoneMeansCleanedUp ==
    reader = "done" =>
        /\ cursor > 0 /\ stream[cursor] = status[Followed]
        /\ runner[Followed] \notin {"start", "agent"}

\* Who waits after an accepted cancellation is never told another outcome: the
\* run is on its way to "cancelled", and has arrived there when the wait ends.
AcceptedMeansCancelled ==
    purpose = "cancel" /\ reader \in {"check", "connect", "open", "done"} =>
        /\ phase[Followed] \in {"cancelling", "cancelled"}
        /\ reader = "done" => phase[Followed] = "cancelled"

\* When no command outlives the task that awaited it, a consumer that is done
\* has been given the run's whole stream.
DoneMeansComplete ==
    ~LateCommands /\ reader = "done" => cursor = Len(stream)

\* A worker that follows a run is done with it at some time, however its
\* connections drop, as long as the server process does not crash.
FollowingEnds ==
    reader \notin {"idle", "done", "failed"} ~> reader \in {"done", "failed"}
=============================================================================
