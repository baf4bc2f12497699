---------------------------- MODULE GraphCollab ----------------------------
(***************************************************************************)
(* Collaboration on the graph of one workflow: the room kept in Redis by   *)
(* api/services/workflow_collaboration_service.py, and the tabs with their *)
(* web/app/components/workflow/collaboration/core/collaboration-manager.ts *)
(* and the saving of use-nodes-sync-draft.ts.                              *)
(*                                                                         *)
(* Every tab has a CRDT document of its own; the server relays updates and *)
(* keeps none.  A tab is trusted once its document holds the graph: the    *)
(* leader seeds it from the canvas, or reloads the saved draft when it has *)
(* reconnected; the others wait for a snapshot of the leader.              *)
(*                                                                         *)
(* An item of the graph carries in a document how often it was added and   *)
(* removed, odd when it is there, and documents are merged by the maximum. *)
(* Users only add items; a reload removes what the draft does not have.    *)
(* A handler of the server is one step, except that the answer to a join   *)
(* is a second one; handlers run in any order, but graph events of one     *)
(* connection in theirs.  What a socket delivers to a tab arrives in       *)
(* order, and with the connection the rest is lost.                        *)
(* Imports are drawn at once in a visible tab, in a hidden one when it is  *)
(* shown again (requestAnimationFrame).                                    *)
(***************************************************************************)
EXTENDS Integers, FiniteSets, SequencesExt

CONSTANTS
    Tabs,
    Items,    \* of a graph
    Loaded,   \* the items of the draft when the tabs were opened
    MaxDisturbances, \* bound on the connections and hidings of all tabs
    MaxSaves  \* bound on calls of doSyncWorkflowDraft

ASSUME GraphAssumption ==
    /\ Loaded \subseteq Items /\ Loaded # {}
    /\ {MaxDisturbances, MaxSaves} \subseteq Nat

VARIABLES
    tab,     \* CollaborationManager and workflow store of each tab
    jobs,    \* the serial queue of local saves, per tab
    down,    \* what the socket of a tab has still to deliver
    up,      \* events of sockets that have not been handled
    views,   \* reports of visibility that have not been handled, in their sequence
    sockets, \* connections the server takes for alive
    session, \* session infos in Redis
    leader,  \* the leader in Redis
    joining, \* joins that have still to be answered
    room,    \* connections in the Socket.IO room
    draft,   \* the saved draft; its hash is a function of its items
    made,    \* the items that users have added
    undone,  \* history: the items that a reload has removed
    apart,   \* history: a tab became trusted before it was in the room or without
             \* what nobody sends to it any more, or an update was refused
    disturbances, saves \* used up bounds

server == <<sockets, session, leader, joining, room>>
user == <<made, disturbances, saves>>
past == <<undone, apart>>
vars == <<tab, jobs, down, up, views, server, draft, past, user>>

NoSid == <<"nobody", 0>>
Sids == Tabs \X (1..MaxDisturbances)
Sid(t) == <<t, tab[t].connection>>

Empty == [i \in Items |-> 0]
Content(doc) == {i \in Items : doc[i] % 2 = 1}
Merge(d, e) == [i \in Items |-> IF d[i] > e[i] THEN d[i] ELSE e[i]]

\* syncNodes and syncEdges: the document is given these items.
SetItems(doc, items) ==
    [i \in Items |-> IF (i \in items) = (i \in Content(doc)) THEN doc[i] ELSE doc[i] + 1]

Join(s) == [kind |-> "join", sid |-> s]
Graph(s, doc, isSnapshot) ==
    [kind |-> "graph", sid |-> s, doc |-> doc, snapshot |-> isSnapshot]
Resync(s) == [kind |-> "resync", sid |-> s]
SyncRequest(s, doc) == [kind |-> "sync", sid |-> s, doc |-> doc]

Init ==
    /\ tab = [t \in Tabs |->
        [up |-> FALSE, connection |-> 0, leader |-> FALSE, trusted |-> FALSE,
         awaiting |-> FALSE, fresh |-> FALSE, reload |-> FALSE, rebroadcast |-> FALSE,
         visible |-> TRUE, retry |-> FALSE, doc |-> Empty, canvas |-> Loaded,
         hash |-> Loaded, load |-> "none", loaded |-> {}, refresh |-> "none"]]
    /\ jobs = [t \in Tabs |-> <<>>] /\ down = [t \in Tabs |-> <<>>]
    /\ views = [s \in Sids |-> <<>>]
    /\ up = {} /\ sockets = {} /\ room = {} /\ joining = {}
    /\ session = <<>> /\ leader = NoSid
    /\ draft = Loaded /\ made = {} /\ undone = {} /\ apart = FALSE
    /\ disturbances = 0 /\ saves = 0

\* emit to the given connections.
Emit(queues, sids, message) ==
    [t \in Tabs |-> IF tab[t].up /\ Sid(t) \in sids
                    THEN Append(queues[t], message) ELSE queues[t]]

-----------------------------------------------------------------------------
(* Connections. *)

MayDisturb == disturbances < MaxDisturbances

\* The handlers of "connect"; after a disconnection with a new document.
Connect(t) ==
    LET s == <<t, tab[t].connection + 1>> IN
    /\ ~tab[t].up /\ MayDisturb
    /\ tab' = [tab EXCEPT ![t] = [@ EXCEPT
            !.up = TRUE, !.connection = tab[t].connection + 1,
            !.fresh = tab[t].connection > 0,
            !.doc = Empty, !.rebroadcast = FALSE, !.load = "none",
            !.loaded = {}, !.awaiting = FALSE, !.trusted = FALSE]]
    /\ sockets' = sockets \cup {s}
    /\ up' = up \cup {Join(s)}
    /\ down' = [down EXCEPT ![t] = <<>>]
    /\ disturbances' = disturbances + 1
    /\ UNCHANGED <<views, jobs, session, leader, joining, room, draft, past, made, saves>>

\* The tab notices a lost connection; the server does not yet.
Disconnect(t) ==
    /\ tab[t].up /\ MayDisturb
    /\ tab' = [tab EXCEPT ![t] = [@ EXCEPT
            !.up = FALSE, !.leader = FALSE, !.trusted = FALSE, !.fresh = FALSE,
            !.awaiting = FALSE, !.reload = FALSE, !.retry = FALSE]]
    /\ down' = [down EXCEPT ![t] = <<>>]
    /\ UNCHANGED <<views, jobs, up, server, draft, past, user>>

-----------------------------------------------------------------------------
(* The room.  broadcast_leader_change tells every session. *)

Active(s) == s \in DOMAIN session /\ s \in sockets

Announce(queues, sids, new) ==
    [t \in Tabs |-> IF tab[t].up /\ Sid(t) \in sids
                    THEN Append(queues[t], [kind |-> "status", leader |-> Sid(t) = new])
                    ELSE queues[t]]

\* _select_graph_leader, whose list is in no order: visible sessions first.
Candidates(sessions) ==
    LET visible == {s \in DOMAIN sessions : sessions[s].active}
    IN IF visible # {} THEN visible ELSE DOMAIN sessions

Preferred(sessions, s) ==
    IF s \in Candidates(sessions) THEN {s} ELSE Candidates(sessions)

Without(sessions, s) == [r \in DOMAIN sessions \ {s} |-> sessions[r]]

\* authorize_and_join_workflow_room, until the leader is known.
JoinSession(s) ==
    LET new == IF Active(leader) THEN leader ELSE s
        left == IF Active(leader) THEN session ELSE Without(session, leader)
        joined == [r \in DOMAIN left \cup {s} |->
                      IF r = s THEN [active |-> TRUE] ELSE left[r]]
    IN
    /\ Join(s) \in up /\ s \in sockets
    /\ up' = up \ {Join(s)}
    /\ session' = joined /\ leader' = new
    /\ joining' = joining \cup {<<s, new = s>>}
    /\ down' = IF Active(leader) \/ leader = NoSid THEN down
               ELSE Announce(down, DOMAIN joined, new)
    /\ UNCHANGED <<views, tab, jobs, sockets, room, draft, past, user>>

\* The rest of it: the room, broadcast_online_users with its election, and the
\* answer found before.
JoinAnswer(s, isLeader) ==
    /\ <<s, isLeader>> \in joining
    /\ joining' = joining \ {<<s, isLeader>>}
    /\ room' = room \cup ({s} \cap sockets)
    /\ LET left == [r \in {r \in DOMAIN session : r \in sockets} |-> session[r]] IN
       /\ session' = left
       /\ \/ /\ leader \in DOMAIN left \/ left = <<>>
             /\ leader' = IF left = <<>> THEN NoSid ELSE leader
             /\ down' = Emit(down, {s}, [kind |-> "status", leader |-> isLeader])
          \/ /\ leader \notin DOMAIN left
             /\ leader' \in Candidates(left)
             /\ down' = Emit(Announce(down, DOMAIN left, leader'), {s},
                             [kind |-> "status", leader |-> isLeader])
    /\ UNCHANGED <<views, tab, jobs, up, sockets, draft, past, user>>

\* disconnect_session, once the server has noticed.
ServerDisconnects(s) ==
    /\ s \in sockets
    /\ ~tab[s[1]].up \/ Sid(s[1]) # s
    /\ sockets' = sockets \ {s} /\ room' = room \ {s}
    /\ up' = up \ {Join(s)}
    /\ session' = Without(session, s)
    /\ \/ leader # s /\ UNCHANGED <<leader, down>>
       \/ leader = s /\ session' = <<>> /\ leader' = NoSid /\ UNCHANGED down
       \/ /\ leader = s
          /\ leader' \in Candidates(session')
          /\ down' = Announce(down, DOMAIN session', leader')
    /\ UNCHANGED <<views, tab, jobs, joining, draft, past, user>>

\* handleSessionUnauthorized: events of a connection that has not joined are
\* refused, and its tab joins.
Refuse(m) ==
    /\ m \in up /\ m.kind # "join" /\ m.sid \notin DOMAIN session
    /\ up' = (up \ {m}) \cup {Join(s) : s \in {m.sid} \cap sockets}
    /\ apart' = (apart \/ m.kind = "graph")
    /\ UNCHANGED <<tab, jobs, down, views, server, draft, undone, user>>

RefuseView(s) ==
    /\ views[s] # <<>> /\ s \notin DOMAIN session
    /\ views' = [views EXCEPT ![s] = Tail(@)]
    /\ up' = up \cup {Join(r) : r \in {s} \cap sockets}
    /\ UNCHANGED <<tab, jobs, down, server, draft, past, user>>

\* refresh_session_state comes first in every relay: _ensure_leader.
Ensured(s) == IF Active(leader) THEN leader ELSE s
Told(s) == IF Active(leader) THEN down ELSE Announce(down, DOMAIN session, s)

Relay(m) == m \in up /\ m.sid \in DOMAIN session /\ up' = up \ {m}

\* Mutant: a report that is overtaken is applied all the same.
RelayViewOutOfOrder(s, n) ==
    LET active == views[s][n]
        now == [session EXCEPT ![s].active = active]
        others == {r \in DOMAIN now : now[r].active /\ r \in sockets}
    IN
    /\ s \in DOMAIN session
    /\ views' = [views EXCEPT ![s] = RemoveAt(@, n)]
    /\ session' = now
    /\ IF ~active /\ Ensured(s) = s /\ others # {}
       THEN /\ leader' \in others
            /\ down' = Announce(Told(s), DOMAIN now, leader')
       ELSE leader' = Ensured(s) /\ down' = Told(s)
    /\ UNCHANGED <<tab, jobs, up, sockets, joining, room, draft, past, user>>

\* graph_view_state, with _demote_leader_if_hidden.  The n-th report is handled,
\* and the sequence number makes those before it stale.
RelayView(s, n) ==
    LET active == views[s][n]
        now == [session EXCEPT ![s].active = active]
        others == {r \in DOMAIN now : now[r].active /\ r \in sockets}
    IN
    /\ s \in DOMAIN session
    /\ views' = [views EXCEPT ![s] = SubSeq(@, n + 1, Len(@))]
    /\ session' = now
    /\ IF ~active /\ Ensured(s) = s /\ others # {}
       THEN /\ leader' \in others
            /\ down' = Announce(Told(s), DOMAIN now, leader')
       ELSE leader' = Ensured(s) /\ down' = Told(s)
    /\ UNCHANGED <<tab, jobs, up, sockets, joining, room, draft, past, user>>

\* relay_graph_event.
RelayGraph(m) ==
    /\ Relay(m) /\ m.kind = "graph"
    /\ \A g \in up : g.kind = "graph" /\ g.sid = m.sid => Merge(g.doc, m.doc) = g.doc
    /\ leader' = Ensured(m.sid)
    /\ down' = Emit(Told(m.sid), room \ {m.sid},
                    [kind |-> "update", doc |-> m.doc, snapshot |-> m.snapshot])
    /\ UNCHANGED <<views, tab, jobs, sockets, session, joining, room, draft, past, user>>

\* graph_resync_request; _ensure_leader has left no other leader than an active one.
RelayResync(m) ==
    /\ Relay(m) /\ m.kind = "resync"
    /\ leader' = Ensured(m.sid)
    /\ down' = Emit(Told(m.sid), {leader'}, [kind |-> "resync"])
    /\ UNCHANGED <<views, tab, jobs, sockets, session, joining, room, draft, past, user>>

\* sync_request: a hidden leader hands over to a visible session or, if all are
\* hidden, to the one that asks.
RelaySync(m) ==
    LET now == Ensured(m.sid)
        live == [s \in {s \in DOMAIN session : s \in sockets} |-> session[s]]
    IN
    /\ Relay(m) /\ m.kind = "sync"
    /\ leader' \in IF session[now].active \/ live = <<>> THEN {now}
                   ELSE Preferred(live, m.sid)
    /\ down' = Emit(IF leader' = now THEN Told(m.sid)
                    ELSE Announce(Told(m.sid), DOMAIN session, leader'),
                    {leader'}, [kind |-> "sync", from |-> m.sid, doc |-> m.doc])
    /\ UNCHANGED <<views, tab, jobs, sockets, session, joining, room, draft, past, user>>

-----------------------------------------------------------------------------
(* What a tab does with the events of its socket. *)

CanPersist(t) == tab[t].trusted /\ ~tab[t].reload /\ tab[t].visible

\* seedCrdtGraphFromReactFlowIfNeeded
Seeded(t) == IF Content(tab[t].doc) = {} THEN SetItems(tab[t].doc, tab[t].canvas)
             ELSE tab[t].doc

\* The provider sends every local change, with all that came before.
LocalChange(t, doc) == IF doc = tab[t].doc THEN {} ELSE {Graph(Sid(t), doc, FALSE)}

Deliver(t, kind) ==
    /\ tab[t].up /\ down[t] # <<>> /\ Head(down[t]).kind = kind

\* emitGraphViewState; a report that repeats what was last said is not counted.
Report(t, visible) ==
    LET s == Sid(t)
        repeats == IF views[s] # <<>> THEN Last(views[s]) = visible
                   ELSE s \in DOMAIN session /\ session[s].active = visible
    IN views' = IF tab[t].up /\ ~repeats
                THEN [views EXCEPT ![s] = Append(@, visible)] ELSE views

\* The documents that tabs have or that are under way.
Around ==
    {tab[t].doc : t \in {t \in Tabs : tab[t].up}}
    \cup {m.doc : m \in {m \in up : m.kind \in {"graph", "sync"}}}
    \cup {m.doc : m \in {m \in UNION {ToSet(down[t]) : t \in Tabs} :
                            m.kind \in {"update", "sync"}}}

\* Those that tab t is sure to import.
Coming(t) ==
    {m.doc : m \in {m \in up : m.kind = "graph" /\ ~m.snapshot /\ m.sid # Sid(t)}}
    \cup {m.doc : m \in {m \in ToSet(down[t]) : m.kind = "update" /\ ~m.snapshot}}

\* A tab that becomes trusted will miss an edit, or lacks one that does not come.
Misses(t, doc) ==
    /\ ~tab[t].trusted
    /\ \/ Sid(t) \notin room
       \/ \E d \in Around, i \in Items :
             d[i] > doc[i] /\ \A e \in Coming(t) : d[i] > e[i]

\* Mutant: the first request is not followed by another.
ReceiveStatusOnce(t) ==
    LET me == tab[t]
        leads == Head(down[t]).leader
        reloads == leads /\ (me.fresh \/ me.awaiting \/ me.reload)
        doc == IF leads /\ ~reloads THEN Seeded(t) ELSE me.doc
        asks == ~leads /\ ~me.trusted /\ ~me.awaiting
    IN
    /\ Deliver(t, "status")
    /\ down' = [down EXCEPT ![t] = Tail(@)]
    /\ tab' = [tab EXCEPT ![t] = [@ EXCEPT
            !.leader = leads,
            !.reload = me.reload \/ reloads,
            !.load = IF reloads /\ (~me.reload \/ ~me.leader) THEN "asked" ELSE me.load,
            !.trusted = me.trusted \/ (leads /\ ~reloads),
            !.awaiting = IF leads THEN me.awaiting ELSE ~me.trusted,
            !.rebroadcast = me.rebroadcast /\ leads,
            !.retry = FALSE,
            !.doc = doc]]
    /\ up' = up \cup LocalChange(t, doc) \cup {r \in {Resync(Sid(t))} : asks}
    /\ Report(t, me.visible)
    /\ apart' = (apart \/ (leads /\ ~reloads /\ Misses(t, doc)))
    /\ UNCHANGED <<jobs, server, draft, undone, user>>

\* The handler of "status".
ReceiveStatus(t) ==
    LET me == tab[t]
        leads == Head(down[t]).leader
        reloads == leads /\ (me.fresh \/ me.awaiting \/ me.reload)
        doc == IF leads /\ ~reloads THEN Seeded(t) ELSE me.doc
        asks == ~leads /\ ~me.trusted /\ ~me.awaiting
    IN
    /\ Deliver(t, "status")
    /\ down' = [down EXCEPT ![t] = Tail(@)]
    /\ tab' = [tab EXCEPT ![t] = [@ EXCEPT
            !.leader = leads,
            !.reload = me.reload \/ reloads,
            !.load = IF reloads /\ (~me.reload \/ ~me.leader) THEN "asked" ELSE me.load,
            !.trusted = me.trusted \/ (leads /\ ~reloads),
            !.awaiting = IF leads THEN me.awaiting ELSE ~me.trusted,
            !.rebroadcast = me.rebroadcast /\ leads,
            !.retry = asks \/ (me.retry /\ ~leads /\ ~me.trusted),
            !.doc = doc]]
    /\ up' = up \cup LocalChange(t, doc) \cup {r \in {Resync(Sid(t))} : asks}
    /\ Report(t, me.visible)
    /\ apart' = (apart \/ (leads /\ ~reloads /\ Misses(t, doc)))
    /\ UNCHANGED <<jobs, server, draft, undone, user>>

\* Mutant: a hidden tab does not import.
ReceiveUpdateIfVisible(t) ==
    LET me == tab[t]
        m == Head(down[t])
        imports == me.visible /\ (~m.snapshot \/ ~me.leader \/ me.awaiting)
        doc == IF imports THEN Merge(me.doc, m.doc) ELSE me.doc
        ready == imports /\ m.snapshot /\ me.awaiting
    IN
    /\ Deliver(t, "update")
    /\ down' = [down EXCEPT ![t] = Tail(@)]
    /\ tab' = [tab EXCEPT ![t] = [@ EXCEPT
            !.doc = doc,
            !.canvas = IF ready \/ (me.visible /\ doc # me.doc)
                       THEN Content(doc) ELSE me.canvas,
            !.awaiting = me.awaiting /\ ~ready, !.trusted = me.trusted \/ ready,
            !.fresh = me.fresh /\ ~ready, !.reload = me.reload /\ ~ready,
            !.retry = me.retry /\ ~ready,
            !.rebroadcast = me.rebroadcast /\ ~(ready /\ me.leader)]]
    /\ up' = up \cup {g \in {Graph(Sid(t), doc, TRUE)} :
                          ready /\ me.leader /\ me.rebroadcast}
    /\ apart' = (apart \/ (ready /\ Misses(t, doc)))
    /\ UNCHANGED <<views, jobs, server, draft, undone, user>>

\* handleGraphUpdate, shouldImportSnapshot and handleSnapshotImported.
ReceiveUpdate(t) ==
    LET me == tab[t]
        m == Head(down[t])
        imports == ~m.snapshot \/ ~me.leader \/ me.awaiting
        doc == IF imports THEN Merge(me.doc, m.doc) ELSE me.doc
        ready == imports /\ m.snapshot /\ me.awaiting
    IN
    /\ Deliver(t, "update")
    /\ down' = [down EXCEPT ![t] = Tail(@)]
    /\ tab' = [tab EXCEPT ![t] = [@ EXCEPT
            !.doc = doc,
            !.canvas = IF ready \/ (me.visible /\ doc # me.doc)
                       THEN Content(doc) ELSE me.canvas,
            !.awaiting = me.awaiting /\ ~ready, !.trusted = me.trusted \/ ready,
            !.fresh = me.fresh /\ ~ready, !.reload = me.reload /\ ~ready,
            !.retry = me.retry /\ ~ready,
            !.rebroadcast = me.rebroadcast /\ ~(ready /\ me.leader)]]
    /\ up' = up \cup {g \in {Graph(Sid(t), doc, TRUE)} :
                          ready /\ me.leader /\ me.rebroadcast}
    /\ apart' = (apart \/ (ready /\ Misses(t, doc)))
    /\ UNCHANGED <<views, jobs, server, draft, undone, user>>

\* broadcastCurrentGraph, or a note to do so.
ReceiveResync(t) ==
    /\ Deliver(t, "resync")
    /\ down' = [down EXCEPT ![t] = Tail(@)]
    /\ IF ~tab[t].trusted \/ tab[t].reload
       THEN tab' = [tab EXCEPT ![t].rebroadcast = TRUE] /\ UNCHANGED up
       ELSE /\ tab' = [tab EXCEPT ![t] = [@ EXCEPT !.doc = Seeded(t), !.rebroadcast = FALSE]]
            /\ up' = up \cup LocalChange(t, Seeded(t)) \cup {Graph(Sid(t), Seeded(t), TRUE)}
    /\ UNCHANGED <<views, jobs, server, draft, past, user>>

\* performLocalSync posts the graph of the call, with the hash of the moment when
\* those before it in the queue are done.
Job(t, items, wanted, for) ==
    [items |-> items, wanted |-> wanted, for |-> for, base |-> tab[t].hash]

Ack(ok, items) == [kind |-> "ack", success |-> ok, items |-> items]

\* Mutant: the snapshot of the tab that asks is not imported.
ReceiveSyncBare(t) ==
    LET m == Head(down[t])
        doc == tab[t].doc
    IN
    /\ Deliver(t, "sync")
    /\ tab' = IF CanPersist(t)
              THEN [tab EXCEPT ![t] = [@ EXCEPT !.doc = doc, !.canvas = Content(doc)]]
              ELSE tab
    /\ IF CanPersist(t) /\ tab[t].refresh # "fetching"
       THEN /\ jobs' = [jobs EXCEPT ![t] = Append(@,
                    Job(t, Content(doc), Content(m.doc), m.from))]
            /\ down' = [down EXCEPT ![t] = Tail(@)]
       ELSE /\ down' = Emit([down EXCEPT ![t] = Tail(@)], {m.from}, Ack(FALSE, {}))
            /\ UNCHANGED jobs
    /\ UNCHANGED <<views, up, server, draft, past, user>>

\* A directed save: the snapshot of the tab that asks is imported, the canvas
\* drawn and what it shows put into the queue, be the tab leader or not.
ReceiveSync(t) ==
    LET m == Head(down[t])
        doc == Merge(tab[t].doc, m.doc)
    IN
    /\ Deliver(t, "sync")
    /\ tab' = IF CanPersist(t)
              THEN [tab EXCEPT ![t] = [@ EXCEPT !.doc = doc, !.canvas = Content(doc)]]
              ELSE tab
    /\ IF CanPersist(t) /\ tab[t].refresh # "fetching"
       THEN /\ jobs' = [jobs EXCEPT ![t] = Append(@,
                    Job(t, Content(doc), Content(m.doc), m.from))]
            /\ down' = [down EXCEPT ![t] = Tail(@)]
       ELSE /\ down' = Emit([down EXCEPT ![t] = Tail(@)], {m.from}, Ack(FALSE, {}))
            /\ UNCHANGED jobs
    /\ UNCHANGED <<views, up, server, draft, past, user>>

ReceiveAck(t) ==
    LET m == Head(down[t]) IN
    /\ Deliver(t, "ack")
    /\ down' = [down EXCEPT ![t] = Tail(@)]
    /\ tab' = [tab EXCEPT ![t] = [@ EXCEPT
            !.hash = IF m.success THEN m.items ELSE tab[t].hash]]
    /\ UNCHANGED <<views, jobs, up, server, draft, past, user>>

Receive(t) ==
    \/ ReceiveStatus(t) \/ ReceiveUpdate(t) \/ ReceiveResync(t)
    \/ ReceiveSync(t) \/ ReceiveAck(t)

-----------------------------------------------------------------------------
(* Timers, frames and the reload of the draft. *)

\* scheduleInitialSyncRetry.  A second or more has passed: what was asked before
\* has been answered or lost.
Retries(t) ==
    tab[t].up /\ tab[t].retry /\ ~tab[t].leader /\ ~tab[t].trusted /\ tab[t].awaiting

RetryResync(t) ==
    /\ Retries(t)
    /\ up = {} /\ joining = {} /\ \A u \in Tabs : down[u] = <<>>
    /\ up' = {Resync(Sid(t))}
    /\ UNCHANGED <<views, tab, jobs, down, server, draft, past, user>>

\* Mutant: misspelled state.
ReadDraftMisspelled(t) ==
    /\ tab[t].load = "asked"
    /\ tab' = [tab EXCEPT ![t] = [@ EXCEPT !.load = "reading", !.loaded = draft]]
    /\ UNCHANGED <<views, jobs, down, up, server, draft, past, user>>

\* handleRefreshWorkflowDraft for a reload; one that fails is tried again.
ReadDraft(t) ==
    /\ tab[t].load = "asked"
    /\ tab' = [tab EXCEPT ![t] = [@ EXCEPT !.load = "read", !.loaded = draft]]
    /\ UNCHANGED <<views, jobs, down, up, server, draft, past, user>>

\* replaceGraphFromReactFlow, if isGraphReloadCurrent.
ReplaceGraph(t) ==
    LET me == tab[t]
        current == me.leader /\ me.reload /\ ~me.trusted
        doc == SetItems(me.doc, me.loaded)
    IN
    /\ me.load = "read"
    /\ IF current
       THEN /\ tab' = [tab EXCEPT ![t] = [@ EXCEPT
                    !.load = "none", !.canvas = me.loaded, !.hash = me.loaded,
                    !.doc = doc, !.trusted = TRUE, !.awaiting = FALSE,
                    !.fresh = FALSE, !.reload = FALSE, !.retry = FALSE,
                    !.rebroadcast = FALSE]]
            /\ undone' = undone \cup (Content(me.doc) \ me.loaded)
            /\ apart' = (apart \/ Misses(t, doc))
            /\ up' = up \cup LocalChange(t, doc)
                        \cup {g \in {Graph(Sid(t), doc, TRUE)} : me.rebroadcast}
       ELSE tab' = [tab EXCEPT ![t].load = "none"] /\ UNCHANGED <<past, up>>
    /\ UNCHANGED <<views, jobs, down, server, draft, user>>

-----------------------------------------------------------------------------
(* Users and saving. *)

Edit(t, i) ==
    LET doc == SetItems(Seeded(t), Content(Seeded(t)) \cup {i}) IN
    /\ tab[t].up /\ CanPersist(t)
    /\ i \notin made \cup Loaded
    /\ made' = made \cup {i}
    /\ tab' = [tab EXCEPT ![t] = [@ EXCEPT !.canvas = tab[t].canvas \cup {i}, !.doc = doc]]
    /\ up' = up \cup LocalChange(t, doc)
    /\ UNCHANGED <<views, jobs, down, server, draft, past, disturbances, saves>>

Hide(t) ==
    /\ tab[t].visible /\ MayDisturb
    /\ disturbances' = disturbances + 1
    /\ tab' = [tab EXCEPT ![t].visible = FALSE]
    /\ Report(t, FALSE)
    /\ UNCHANGED <<jobs, down, up, server, draft, past, made, saves>>

\* What was imported meanwhile is drawn; a trusted tab refreshes its hash half a
\* second later.
Show(t) ==
    LET restores == tab[t].up /\ tab[t].trusted /\ ~tab[t].reload IN
    /\ ~tab[t].visible
    /\ tab' = [tab EXCEPT ![t] = [@ EXCEPT
            !.visible = TRUE,
            !.canvas = IF tab[t].doc # Empty THEN Content(tab[t].doc) ELSE tab[t].canvas,
            !.refresh = IF restores /\ tab[t].refresh = "none"
                        THEN "planned" ELSE tab[t].refresh]]
    /\ Report(t, TRUE)
    /\ UNCHANGED <<jobs, down, up, server, draft, past, user>>

\* doSyncWorkflowDraft: a connected tab that is not the leader asks for a save.
CallSave(t) ==
    /\ saves < MaxSaves /\ CanPersist(t) /\ tab[t].refresh # "fetching"
    /\ saves' = saves + 1
    /\ IF tab[t].leader
       THEN /\ jobs' = [jobs EXCEPT ![t] = Append(@, Job(t, tab[t].canvas, {}, NoSid))]
            /\ UNCHANGED up
       ELSE /\ up' = up \cup {SyncRequest(Sid(t), tab[t].doc)}
            /\ UNCHANGED jobs
    /\ UNCHANGED <<views, tab, down, server, draft, past, made, disturbances>>

\* sync_draft_workflow compares the hash under a row lock.  A tab that is refused
\* refreshes its hash, but not its canvas; then, and when the tab may no longer
\* save, the rest of the queue is dropped.
SaveDraft(t) ==
    LET job == Head(jobs[t])
        accepted == job.base = draft
        rest == [j \in DOMAIN Tail(jobs[t]) |->
                    [Tail(jobs[t])[j] EXCEPT !.base = job.items]]
        dropped == {rest[j].for : j \in DOMAIN rest}
    IN
    /\ jobs[t] # <<>>
    /\ draft' = IF accepted THEN job.items ELSE draft
    /\ tab' = [tab EXCEPT ![t] = [@ EXCEPT
            !.hash = IF accepted THEN job.items ELSE tab[t].hash,
            !.refresh = IF accepted THEN tab[t].refresh ELSE "fetching"]]
    /\ LET answered == Emit(down, {job.for}, Ack(accepted, job.items)) IN
       IF accepted /\ CanPersist(t) /\ tab[t].refresh # "fetching"
       THEN jobs' = [jobs EXCEPT ![t] = rest] /\ down' = answered
       ELSE jobs' = [jobs EXCEPT ![t] = <<>>]
            /\ down' = Emit(answered, dropped, Ack(FALSE, {}))
    /\ UNCHANGED <<views, up, server, past, user>>

\* handleRefreshWorkflowDraft for the hash alone; no save starts meanwhile.
RefreshStarts(t) ==
    /\ tab[t].refresh = "planned"
    /\ tab' = [tab EXCEPT ![t].refresh = "fetching"]
    /\ UNCHANGED <<views, jobs, down, up, server, draft, past, user>>

RefreshHash(t) ==
    /\ tab[t].refresh = "fetching"
    /\ tab' = [tab EXCEPT ![t] = [@ EXCEPT !.refresh = "none", !.hash = draft]]
    /\ UNCHANGED <<views, jobs, down, up, server, draft, past, user>>

Server(t) ==
    \/ \E m \in {m \in up : m.sid[1] = t} :
        JoinSession(m.sid) \/ Refuse(m) \/ RelayGraph(m) \/ RelayResync(m)
        \/ RelaySync(m)
    \/ \E s \in Sids, b \in BOOLEAN : s[1] = t /\ JoinAnswer(s, b)
    \/ \E s \in {s \in Sids : s[1] = t} :
        \/ ServerDisconnects(s) \/ RefuseView(s)
        \/ \E n \in DOMAIN views[s] : RelayView(s, n)

Next ==
    \E t \in Tabs :
        \/ Connect(t) \/ Disconnect(t)
        \/ Server(t) \/ Receive(t)
        \/ RetryResync(t) \/ ReadDraft(t) \/ ReplaceGraph(t)
        \/ \E i \in Items : Edit(t, i)
        \/ Hide(t) \/ Show(t)
        \/ CallSave(t) \/ SaveDraft(t)
        \/ RefreshStarts(t) \/ RefreshHash(t)

Spec == Init /\ [][Next]_vars

-----------------------------------------------------------------------------
(* Properties. *)

Quiet == /\ up = {} /\ joining = {}
         /\ \A s \in Sids : views[s] = <<>>
         /\ \A t \in Tabs : down[t] = <<>>

Docs == [Items -> Nat]

TabStates ==
    [up : BOOLEAN, connection : 0 .. MaxDisturbances, leader : BOOLEAN,
     trusted : BOOLEAN, awaiting : BOOLEAN, fresh : BOOLEAN, reload : BOOLEAN,
     rebroadcast : BOOLEAN, visible : BOOLEAN, retry : BOOLEAN, doc : Docs,
     canvas : SUBSET Items, hash : SUBSET Items, load : {"none", "asked", "read"},
     loaded : SUBSET Items, refresh : {"none", "planned", "fetching"}]

Jobs == [items : SUBSET Items, wanted : SUBSET Items, for : Sids \cup {NoSid},
         base : SUBSET Items]

ToServer ==
    [kind : {"join", "resync"}, sid : Sids]
    \cup [kind : {"graph"}, sid : Sids, doc : Docs, snapshot : BOOLEAN]
    \cup [kind : {"sync"}, sid : Sids, doc : Docs]

ToTab ==
    [kind : {"status"}, leader : BOOLEAN] \cup [kind : {"resync"}]
    \cup [kind : {"update"}, doc : Docs, snapshot : BOOLEAN]
    \cup [kind : {"sync"}, from : Sids, doc : Docs]
    \cup [kind : {"ack"}, success : BOOLEAN, items : SUBSET Items]

\* Every variable has its type.
TypeOK ==
    /\ tab \in [Tabs -> TabStates]
    /\ jobs \in [Tabs -> Seq(Jobs)]
    /\ down \in [Tabs -> Seq(ToTab)]
    /\ up \subseteq ToServer
    /\ views \in [Sids -> Seq(BOOLEAN)]
    /\ DOMAIN session \subseteq Sids /\ session \in [DOMAIN session -> [active : BOOLEAN]]
    /\ leader \in Sids \cup {NoSid}
    /\ sockets \subseteq Sids /\ room \subseteq Sids
    /\ joining \subseteq Sids \X BOOLEAN
    /\ draft \subseteq Items /\ made \subseteq Items /\ undone \subseteq Items
    /\ apart \in BOOLEAN
    /\ disturbances \in 0 .. MaxDisturbances /\ saves \in 0 .. MaxSaves

\* Once all is delivered, trusted documents have the same content.
Converged ==
    Quiet /\ ~apart => \A t, u \in Tabs :
        tab[t].trusted /\ tab[u].trusted => Content(tab[t].doc) = Content(tab[u].doc)

\* Once all is delivered, the server knows which tabs are hidden.
VisibilityKnown ==
    Quiet => \A t \in Tabs : tab[t].up =>
        /\ Sid(t) \in DOMAIN session
        /\ session[Sid(t)].active = tab[t].visible

\* A save that is acknowledged holds all that the tab that asked for it had.
AckCoversRequest ==
    [][\A t \in Tabs : Len(jobs'[t]) < Len(jobs[t]) /\ Head(jobs[t]).base = draft =>
          Head(jobs[t]).wanted \subseteq draft' \cup undone]_vars

AtRest ==
    /\ Quiet /\ sockets = {Sid(t) : t \in {t \in Tabs : tab[t].up}}
    /\ \A t \in Tabs : tab[t].load = "none"

\* It is not ready, and asks nobody but itself for the graph.
WaitsInVain(t) ==
    tab[t].up /\ ~tab[t].trusted /\ (Retries(t) => leader = Sid(t))

\* When nothing is under way, no connected tab waits in vain.
NoneLeftWaiting == AtRest => \A t \in Tabs : ~WaitsInVain(t)

\* An election has interrupted the reload of a leader: its timer has been cleared,
\* and it waits as if it had one.
Interrupted(t) == tab[t].reload /\ ~tab[t].leader

\* When the tabs know who the leader is, only interrupted ones do.
NoneLeftWaitingIfLed ==
    AtRest /\ (\A t \in Tabs : tab[t].up => (tab[t].leader <=> leader = Sid(t)))
    => \A t \in Tabs : WaitsInVain(t) => Interrupted(t)
=============================================================================
