------------------------- MODULE GraphCollabProofs -------------------------
(* Proofs about GraphCollab, for any number of tabs, items, connections and *)
(* saves.                                                                   *)
EXTENDS GraphCollab, TLAPS

(* The documents. *)

LEMMA ContentType == ASSUME NEW doc PROVE Content(doc) \subseteq Items
BY DEF Content

LEMMA SetItemsType ==
    ASSUME NEW doc \in Docs, NEW items
    PROVE  SetItems(doc, items) \in Docs
BY DEF SetItems, Docs

LEMMA MergeType ==
    ASSUME NEW d \in Docs, NEW e \in Docs
    PROVE  Merge(d, e) \in Docs
BY DEF Merge, Docs

LEMMA SeededType ==
    ASSUME TypeOK, NEW t \in Tabs
    PROVE  tab[t].doc \in Docs /\ Seeded(t) \in Docs
BY SetItemsType DEF Seeded, TypeOK, TabStates

LEMMA EmptyType == Empty \in Docs
BY DEF Empty, Docs

(* The messages. *)

LEMMA MessageType ==
    ASSUME NEW s \in Sids, NEW doc \in Docs, NEW b \in BOOLEAN
    PROVE  /\ Join(s) \in ToServer /\ Resync(s) \in ToServer
           /\ Graph(s, doc, b) \in ToServer /\ SyncRequest(s, doc) \in ToServer
BY DEF Join, Resync, Graph, SyncRequest, ToServer

LEMMA ToTabType ==
    ASSUME NEW doc \in Docs, NEW b \in BOOLEAN, NEW s \in Sids, NEW items \in SUBSET Items
    PROVE  /\ [kind |-> "status", leader |-> b] \in ToTab
           /\ [kind |-> "resync"] \in ToTab
           /\ [kind |-> "update", doc |-> doc, snapshot |-> b] \in ToTab
           /\ [kind |-> "sync", from |-> s, doc |-> doc] \in ToTab
           /\ Ack(b, items) \in ToTab
BY DEF ToTab, Ack

\* What a message of each kind holds.
LEMMA ToServerFields ==
    ASSUME NEW m \in ToServer
    PROVE  /\ m.sid \in Sids
           /\ m.kind = "graph" => m.doc \in Docs /\ m.snapshot \in BOOLEAN
           /\ m.kind = "sync" => m.doc \in Docs
BY DEF ToServer

LEMMA ToTabFields ==
    ASSUME NEW m \in ToTab
    PROVE  /\ m.kind = "status" => m.leader \in BOOLEAN
           /\ m.kind = "update" => m.doc \in Docs /\ m.snapshot \in BOOLEAN
           /\ m.kind = "sync" => m.doc \in Docs /\ m.from \in Sids
           /\ m.kind = "ack" => m.success \in BOOLEAN /\ m.items \subseteq Items
BY DEF ToTab

Queues == [Tabs -> Seq(ToTab)]

LEMMA EmitType ==
    ASSUME NEW queues \in Queues, NEW sids, NEW message \in ToTab
    PROVE  Emit(queues, sids, message) \in Queues
BY DEF Emit, Queues

LEMMA AnnounceType ==
    ASSUME NEW queues \in Queues, NEW sids, NEW new
    PROVE  Announce(queues, sids, new) \in Queues
<1>1. \A b \in BOOLEAN : [kind |-> "status", leader |-> b] \in ToTab
    BY DEF ToTab
<1>2. \A t \in Tabs : [kind |-> "status", leader |-> Sid(t) = new] \in ToTab
    BY <1>1
<1> QED BY <1>2 DEF Announce, Queues

LEMMA ToldType == TypeOK => \A s : Told(s) \in Queues
BY AnnounceType DEF TypeOK, Told, Queues

-----------------------------------------------------------------------------
(* Type correctness *)

\* A tab is connected under a number within the bound; only a connected one is
\* leader or trusted.
Connected ==
    \A t \in Tabs :
        /\ tab[t].connection <= disturbances
        /\ tab[t].up => tab[t].connection > 0
        /\ tab[t].leader \/ tab[t].trusted => tab[t].up

Typed == TypeOK /\ Connected

LEMMA Bounds == MaxDisturbances \in Nat /\ MaxSaves \in Nat /\ Loaded \subseteq Items
BY GraphAssumption

LEMMA SidType ==
    ASSUME Typed, NEW t \in Tabs, tab[t].up
    PROVE  Sid(t) \in Sids
BY Bounds DEF Sid, Sids, Typed, TypeOK, Connected, TabStates

LEMMA InitTyped == Init => Typed
<1> SUFFICES ASSUME Init PROVE Typed
    OBVIOUS
<1>1. tab \in [Tabs -> TabStates] /\ Connected
    BY EmptyType, Bounds DEF Init, TabStates, Connected
<1>2. session \in [DOMAIN session -> [active : BOOLEAN]] /\ DOMAIN session \subseteq Sids
    BY DEF Init
<1>3. jobs \in [Tabs -> Seq(Jobs)] /\ down \in [Tabs -> Seq(ToTab)]
      /\ views \in [Sids -> Seq(BOOLEAN)]
    BY DEF Init
<1>4. /\ up \subseteq ToServer /\ leader \in Sids \cup {NoSid}
      /\ sockets \subseteq Sids /\ room \subseteq Sids /\ joining \subseteq Sids \X BOOLEAN
    BY DEF Init
<1>5. draft \subseteq Items /\ made \subseteq Items /\ undone \subseteq Items
    BY Bounds DEF Init
<1>6. disturbances \in 0 .. MaxDisturbances /\ saves \in 0 .. MaxSaves
    BY Bounds DEF Init
<1>7. apart \in BOOLEAN
    BY DEF Init
<1> QED BY <1>1, <1>2, <1>3, <1>4, <1>5, <1>6, <1>7 DEF TypeOK, Typed

\* Steps of the server leave the tabs alone.
LEMMA ServerTyped ==
    ASSUME Typed, UNCHANGED <<tab, jobs, draft, made, undone, disturbances, saves>>,
           down' \in Queues, up' \subseteq ToServer, views' \in [Sids -> Seq(BOOLEAN)],
           DOMAIN session' \subseteq Sids,
           session' \in [DOMAIN session' -> [active : BOOLEAN]],
           leader' \in Sids \cup {NoSid}, sockets' \subseteq Sids, room' \subseteq Sids,
           joining' \subseteq Sids \X BOOLEAN, apart' \in BOOLEAN
    PROVE  Typed'
<1>1. Connected'
    BY DEF Typed, Connected
<1> QED BY <1>1 DEF Typed, TypeOK, Queues

LEMMA WithoutType ==
    ASSUME TypeOK, NEW s
    PROVE  /\ DOMAIN Without(session, s) \subseteq Sids
           /\ Without(session, s) \in [DOMAIN Without(session, s) -> [active : BOOLEAN]]
BY DEF Without, TypeOK

LEMMA CandidatesType == ASSUME NEW sessions PROVE Candidates(sessions) \subseteq DOMAIN sessions
BY DEF Candidates

LEMMA JoinSessionTyped ==
    ASSUME Typed, NEW s \in Sids, JoinSession(s)
    PROVE  Typed'
<1> DEFINE left == IF Active(leader) THEN session ELSE Without(session, leader)
           joined == [r \in DOMAIN left \cup {s} |->
                         IF r = s THEN [active |-> TRUE] ELSE left[r]]
           new == IF Active(leader) THEN leader ELSE s
<1>0. TypeOK
    BY DEF Typed
<1>1. DOMAIN left \subseteq Sids /\ left \in [DOMAIN left -> [active : BOOLEAN]]
    BY <1>0, WithoutType DEF TypeOK
<1>2. DOMAIN joined \subseteq Sids /\ joined \in [DOMAIN joined -> [active : BOOLEAN]]
    BY <1>1
<1>3. session' = joined /\ leader' = new /\ new \in Sids \cup {NoSid}
    BY <1>0 DEF JoinSession, TypeOK
<1>4. down' \in Queues
    BY <1>0, AnnounceType DEF JoinSession, TypeOK, Queues
<1>5. up' \subseteq ToServer /\ joining' \subseteq Sids \X BOOLEAN
    <2>1. joining' = joining \cup {<<s, new = s>>} /\ up' = up \ {Join(s)}
        BY DEF JoinSession
    <2>2. (new = s) \in BOOLEAN
        OBVIOUS
    <2> HIDE DEF new
    <2>3. <<s, new = s>> \in Sids \X BOOLEAN
        BY <2>2
    <2> QED BY <1>0, <2>1, <2>3 DEF TypeOK
<1> HIDE DEF left, joined, new
<1> QED BY <1>0, <1>2, <1>3, <1>4, <1>5, ServerTyped
    DEF JoinSession, past, user, TypeOK

LEMMA JoinAnswerTyped ==
    ASSUME Typed, NEW s \in Sids, NEW b \in BOOLEAN, JoinAnswer(s, b)
    PROVE  Typed'
<1> DEFINE left == [r \in {r \in DOMAIN session : r \in sockets} |-> session[r]]
<1>0. TypeOK
    BY DEF Typed
<1>1. DOMAIN left \subseteq Sids /\ left \in [DOMAIN left -> [active : BOOLEAN]]
    BY <1>0 DEF TypeOK
<1>2. session' = left /\ leader' \in Sids \cup {NoSid}
    BY <1>0, <1>1, CandidatesType DEF JoinAnswer, TypeOK
<1>3. down' \in Queues
    <2>1. down \in Queues /\ [kind |-> "status", leader |-> b] \in ToTab
        BY <1>0 DEF TypeOK, Queues, ToTab
    <2>2. \/ down' = Emit(down, {s}, [kind |-> "status", leader |-> b])
          \/ down' = Emit(Announce(down, DOMAIN left, leader'), {s},
                          [kind |-> "status", leader |-> b])
        BY DEF JoinAnswer
    <2> HIDE DEF left
    <2> QED BY <2>1, <2>2, EmitType, AnnounceType
<1> HIDE DEF left
<1> QED BY <1>0, <1>1, <1>2, <1>3, ServerTyped DEF JoinAnswer, past, user, TypeOK

LEMMA ServerDisconnectsTyped ==
    ASSUME Typed, NEW s \in Sids, ServerDisconnects(s)
    PROVE  Typed'
<1>0. TypeOK
    BY DEF Typed
<1>1. /\ DOMAIN session' \subseteq Sids
      /\ session' \in [DOMAIN session' -> [active : BOOLEAN]]
    BY <1>0, WithoutType DEF ServerDisconnects
<1>2. down' \in Queues /\ leader' \in Sids \cup {NoSid}
    <2>1. down \in Queues
        BY <1>0 DEF TypeOK, Queues
    <2>2. down' = down \/ down' = Announce(down, DOMAIN session', leader')
        BY DEF ServerDisconnects
    <2>3. leader' = leader \/ leader' = NoSid \/ leader' \in DOMAIN session'
        BY CandidatesType DEF ServerDisconnects
    <2> QED BY <1>0, <1>1, <2>1, <2>2, <2>3, AnnounceType DEF TypeOK
<1> QED BY <1>0, <1>1, <1>2, ServerTyped DEF ServerDisconnects, past, user, TypeOK

LEMMA RefuseTyped ==
    ASSUME Typed, NEW m \in ToServer, Refuse(m)
    PROVE  Typed'
<1>0. TypeOK
    BY DEF Typed
<1>1. \A s \in Sids : Join(s) \in ToServer
    BY DEF Join, ToServer
<1>2. up' \subseteq ToServer
    BY <1>0, <1>1 DEF Refuse, TypeOK
<1>3. apart' \in BOOLEAN
    BY <1>0 DEF Refuse, TypeOK
<1> QED BY <1>0, <1>2, <1>3, ServerTyped DEF Refuse, server, user, TypeOK, Queues

LEMMA RefuseViewTyped ==
    ASSUME Typed, NEW s \in Sids, RefuseView(s)
    PROVE  Typed'
<1>0. TypeOK
    BY DEF Typed
<1>1. \A r \in Sids : Join(r) \in ToServer
    BY DEF Join, ToServer
<1>2. up' \subseteq ToServer
    BY <1>0, <1>1 DEF RefuseView, TypeOK
<1>3. views' \in [Sids -> Seq(BOOLEAN)]
    BY <1>0 DEF RefuseView, TypeOK
<1> QED BY <1>0, <1>2, <1>3, ServerTyped DEF RefuseView, server, past, user, TypeOK, Queues

LEMMA RelayViewTyped ==
    ASSUME Typed, NEW s \in Sids, NEW n \in DOMAIN views[s], RelayView(s, n)
    PROVE  Typed'
<1>0. TypeOK
    BY DEF Typed
<1>1. n \in 1 .. Len(views[s]) /\ views[s][n] \in BOOLEAN /\ views[s] \in Seq(BOOLEAN)
    BY <1>0 DEF TypeOK
<1>2. SubSeq(views[s], n + 1, Len(views[s])) \in Seq(BOOLEAN)
    BY <1>1
<1>3. views' \in [Sids -> Seq(BOOLEAN)]
    BY <1>0, <1>2 DEF RelayView, TypeOK
<1>4. session' \in [DOMAIN session -> [active : BOOLEAN]] /\ DOMAIN session' = DOMAIN session
    BY <1>0, <1>1 DEF RelayView, TypeOK
<1>5. down' \in Queues
    BY <1>0, ToldType, AnnounceType DEF RelayView
<1>6. leader' \in Sids \cup {NoSid}
    BY <1>0 DEF RelayView, Ensured, TypeOK
<1> QED BY <1>0, <1>3, <1>4, <1>5, <1>6, ServerTyped DEF RelayView, past, user, TypeOK

LEMMA RelayTyped ==
    ASSUME Typed, NEW m \in ToServer, RelayGraph(m) \/ RelayResync(m) \/ RelaySync(m)
    PROVE  Typed'
<1>0. TypeOK
    BY DEF Typed
<1>1. CASE RelayGraph(m)
    <2>1. m.sid \in Sids /\ [kind |-> "update", doc |-> m.doc, snapshot |-> m.snapshot] \in ToTab
        BY <1>1, ToServerFields DEF RelayGraph, ToTab
    <2>2. down' \in Queues
        BY <1>0, <1>1, <2>1, ToldType, EmitType DEF RelayGraph
    <2> QED BY <1>0, <1>1, <2>1, <2>2, ServerTyped
        DEF RelayGraph, Relay, Ensured, past, user, TypeOK
<1>2. CASE RelayResync(m)
    <2>1. m.sid \in Sids /\ [kind |-> "resync"] \in ToTab
        BY ToServerFields DEF ToTab
    <2>2. down' \in Queues
        BY <1>0, <1>2, <2>1, ToldType, EmitType DEF RelayResync
    <2> QED BY <1>0, <1>2, <2>1, <2>2, ServerTyped
        DEF RelayResync, Relay, Ensured, past, user, TypeOK
<1>3. CASE RelaySync(m)
    <2>1. m.sid \in Sids /\ [kind |-> "sync", from |-> m.sid, doc |-> m.doc] \in ToTab
        BY <1>3, ToServerFields DEF RelaySync, ToTab
    <2>2. down' \in Queues
        BY <1>0, <1>3, <2>1, ToldType, EmitType, AnnounceType DEF RelaySync
    <2>3. leader' \in Sids \cup {NoSid}
        BY <1>0, <1>3, <2>1, CandidatesType DEF RelaySync, Preferred, Ensured, TypeOK
    <2> QED BY <1>0, <1>3, <2>2, <2>3, ServerTyped DEF RelaySync, Relay, past, user, TypeOK
<1> QED BY <1>1, <1>2, <1>3

\* Steps of a tab leave the server alone.
LEMMA TabTyped ==
    ASSUME Typed, UNCHANGED server, NEW t \in Tabs, NEW r \in TabStates,
           tab' = [tab EXCEPT ![t] = r],
           r.connection <= disturbances', disturbances <= disturbances',
           r.up => r.connection > 0, r.leader \/ r.trusted => r.up,
           jobs' \in [Tabs -> Seq(Jobs)], down' \in Queues, up' \subseteq ToServer,
           views' \in [Sids -> Seq(BOOLEAN)],
           draft' \subseteq Items, made' \subseteq Items, undone' \subseteq Items,
           apart' \in BOOLEAN,
           disturbances' \in 0 .. MaxDisturbances, saves' \in 0 .. MaxSaves
    PROVE  Typed'
<1>0. TypeOK
    BY DEF Typed
<1>1. tab' \in [Tabs -> TabStates]
    BY <1>0 DEF TypeOK
<1>2. \A u \in Tabs : tab'[u] = IF u = t THEN r ELSE tab[u]
    BY <1>0 DEF TypeOK
<1>3. \A u \in Tabs : tab[u].connection \in Nat
    BY <1>0, Bounds DEF TypeOK, TabStates
<1>4. Connected'
    <2>1. \A u \in Tabs : tab[u].connection <= disturbances'
        BY <1>0, <1>3, Bounds DEF Typed, Connected, TypeOK
    <2> QED BY <1>2, <2>1 DEF Typed, Connected
<1>5. DOMAIN session' \subseteq Sids /\ session' \in [DOMAIN session' -> [active : BOOLEAN]]
      /\ sockets' \subseteq Sids /\ room' \subseteq Sids
    BY <1>0 DEF TypeOK, server
<1>6. leader' \in Sids \cup {NoSid} /\ joining' \subseteq Sids \X BOOLEAN
    BY <1>0 DEF TypeOK, server
<1> QED BY <1>1, <1>4, <1>5, <1>6 DEF Typed, TypeOK, Queues

\* The parts of the type of a tab, and of the variables that its steps change.
LEMMA TabFields ==
    ASSUME Typed, NEW t \in Tabs
    PROVE  /\ tab[t] \in TabStates /\ tab \in [Tabs -> TabStates]
           /\ tab[t].doc \in Docs /\ tab[t].canvas \subseteq Items /\ tab[t].hash \subseteq Items
           /\ tab[t].loaded \subseteq Items
           /\ jobs \in [Tabs -> Seq(Jobs)] /\ down \in Queues /\ up \subseteq ToServer
           /\ views \in [Sids -> Seq(BOOLEAN)]
           /\ draft \subseteq Items /\ made \subseteq Items /\ undone \subseteq Items
           /\ apart \in BOOLEAN
           /\ disturbances \in 0 .. MaxDisturbances /\ saves \in 0 .. MaxSaves
           /\ tab[t].connection \in Nat /\ disturbances \in Nat
           /\ tab[t].connection <= disturbances
           /\ tab[t].up => tab[t].connection > 0
           /\ tab[t].leader \/ tab[t].trusted => tab[t].up
<1>1. TypeOK /\ Connected
    BY DEF Typed
<1>2. tab[t] \in TabStates
    BY <1>1 DEF TypeOK
<1>3. disturbances \in 0 .. MaxDisturbances /\ disturbances \in Nat
    BY <1>1, Bounds DEF TypeOK
<1> QED BY <1>1, <1>2, <1>3, Bounds DEF TypeOK, Connected, TabStates, Queues

\* Of a step without a connection, a hiding or a save.
LEMMA TabKept ==
    ASSUME Typed, NEW t \in Tabs, NEW r \in TabStates, tab' = [tab EXCEPT ![t] = r],
           r.connection = tab[t].connection,
           r.up => tab[t].up, r.leader \/ r.trusted => r.up,
           jobs' \in [Tabs -> Seq(Jobs)], down' \in Queues, up' \subseteq ToServer,
           views' \in [Sids -> Seq(BOOLEAN)],
           draft' \subseteq Items, made' \subseteq Items, undone' \subseteq Items,
           apart' \in BOOLEAN,
           server' = server, disturbances' = disturbances, saves' = saves
    PROVE  Typed'
<1>1. /\ r.connection <= disturbances' /\ disturbances <= disturbances'
      /\ r.up => r.connection > 0
      /\ disturbances' \in 0 .. MaxDisturbances /\ saves' \in 0 .. MaxSaves
    BY TabFields
<1> QED BY <1>1, TabTyped

LEMMA ReportType ==
    ASSUME Typed, NEW t \in Tabs, NEW b \in BOOLEAN, Report(t, b)
    PROVE  views' \in [Sids -> Seq(BOOLEAN)]
BY TabFields, SidType DEF Report

LEMMA LocalChangeType ==
    ASSUME NEW t \in Tabs, Sid(t) \in Sids, NEW doc \in Docs
    PROVE  LocalChange(t, doc) \subseteq ToServer
BY MessageType DEF LocalChange

LEMMA DeliverType ==
    ASSUME Typed, NEW t \in Tabs, NEW kind, Deliver(t, kind)
    PROVE  /\ Head(down[t]) \in ToTab /\ Head(down[t]).kind = kind
           /\ [down EXCEPT ![t] = Tail(@)] \in Queues
           /\ tab[t].up /\ Sid(t) \in Sids
<1>1. down[t] \in Seq(ToTab) /\ down[t] # <<>>
    BY TabFields DEF Deliver, Queues
<1>2. Head(down[t]) \in ToTab /\ Tail(down[t]) \in Seq(ToTab)
    BY <1>1
<1> QED BY <1>2, TabFields, SidType DEF Deliver, Queues

LEMMA ConnectTyped == ASSUME Typed, NEW t \in Tabs, Connect(t) PROVE Typed'
<1> DEFINE again == tab[t].connection > 0
           next == tab[t].connection + 1
           s == <<t, next>>
           r == [tab[t] EXCEPT !.up = TRUE, !.connection = next,
                     !.fresh = again, !.doc = Empty, !.rebroadcast = FALSE,
                     !.load = "none", !.loaded = {}, !.awaiting = FALSE, !.trusted = FALSE]
<1>0. Typed /\ TypeOK /\ Connected
    BY DEF Typed
<1>1. disturbances' = disturbances + 1 /\ disturbances < MaxDisturbances
    BY DEF Connect, MayDisturb
<1>2. /\ next \in 1 .. MaxDisturbances /\ next \in 0 .. MaxDisturbances
      /\ next \in Nat /\ next > 0 /\ next <= disturbances'
    BY <1>1, TabFields, Bounds
<1>3. /\ tab' = [tab EXCEPT ![t] = r]
      /\ sockets' = sockets \cup {s} /\ up' = up \cup {Join(s)}
      /\ down' = [down EXCEPT ![t] = <<>>]
      /\ UNCHANGED <<views, jobs, session, leader, joining, room, draft, past, made, saves>>
    BY DEF Connect
<1>4. again \in BOOLEAN
    OBVIOUS
<1> HIDE DEF again, next
<1>5. s \in Sids /\ Join(s) \in ToServer
    BY <1>2 DEF Sids, Join, ToServer
<1>6. r \in TabStates
    BY <1>2, <1>4, TabFields, EmptyType DEF TabStates
<1>7. r.up = TRUE /\ r.connection = next /\ r.trusted = FALSE
    BY TabFields DEF TabStates
<1> HIDE DEF r, s
<1>8. Connected'
    <2>1. \A u \in Tabs : tab'[u] = IF u = t THEN r ELSE tab[u]
        BY <1>3, TabFields
    <2>2. \A u \in Tabs : tab[u].connection <= disturbances'
        BY <1>1, TabFields
    <2>3. ASSUME NEW u \in Tabs
          PROVE  /\ tab'[u].connection <= disturbances'
                 /\ tab'[u].up => tab'[u].connection > 0
                 /\ tab'[u].leader \/ tab'[u].trusted => tab'[u].up
        <3>1. CASE u = t
            BY <1>2, <1>7, <2>1, <3>1
        <3>2. CASE u # t
            BY <2>1, <2>2, <3>2, TabFields
        <3> QED BY <3>1, <3>2
    <2> QED BY <2>3 DEF Connected
<1>9. /\ tab' \in [Tabs -> TabStates] /\ down' \in Queues /\ up' \subseteq ToServer
      /\ sockets' \subseteq Sids
    BY <1>0, <1>3, <1>5, <1>6, TabFields DEF TypeOK, Queues
<1>10. disturbances' \in 0 .. MaxDisturbances
    BY <1>1, TabFields, Bounds
<1> QED BY <1>0, <1>3, <1>8, <1>9, <1>10 DEF Typed, TypeOK, Queues, past

LEMMA DisconnectTyped == ASSUME Typed, NEW t \in Tabs, Disconnect(t) PROVE Typed'
<1> DEFINE r == [tab[t] EXCEPT !.up = FALSE, !.leader = FALSE, !.trusted = FALSE,
                    !.fresh = FALSE, !.awaiting = FALSE, !.reload = FALSE, !.retry = FALSE]
<1>1. /\ r \in TabStates
      /\ r.connection = tab[t].connection /\ ~r.leader /\ ~r.trusted /\ ~r.up
    BY TabFields DEF TabStates
<1>2. tab' = [tab EXCEPT ![t] = r] /\ down' \in Queues
      /\ UNCHANGED <<views, jobs, up, server, draft, past, user>>
    BY TabFields DEF Disconnect, Queues
<1> HIDE DEF r
<1> QED BY <1>1, <1>2, TabFields, TabKept DEF past, user

LEMMA ReceiveStatusTyped == ASSUME Typed, NEW t \in Tabs, ReceiveStatus(t) PROVE Typed'
<1> DEFINE me == tab[t]
           leads == Head(down[t]).leader
           reloads == leads /\ (me.fresh \/ me.awaiting \/ me.reload)
           doc == IF leads /\ ~reloads THEN Seeded(t) ELSE me.doc
           asks == ~leads /\ ~me.trusted /\ ~me.awaiting
           reload == me.reload \/ reloads
           load == IF reloads /\ (~me.reload \/ ~me.leader) THEN "asked" ELSE me.load
           trusted == me.trusted \/ (leads /\ ~reloads)
           awaiting == IF leads THEN me.awaiting ELSE ~me.trusted
           rebroadcast == me.rebroadcast /\ leads
           retry == asks \/ (me.retry /\ ~leads /\ ~me.trusted)
           r == [tab[t] EXCEPT !.leader = leads, !.reload = reload, !.load = load,
                    !.trusted = trusted, !.awaiting = awaiting,
                    !.rebroadcast = rebroadcast, !.retry = retry, !.doc = doc]
<1>0. Typed /\ TypeOK
    BY DEF Typed
<1>1. Deliver(t, "status") /\ Report(t, me.visible) /\ tab' = [tab EXCEPT ![t] = r]
      /\ down' = [down EXCEPT ![t] = Tail(@)]
      /\ up' = up \cup LocalChange(t, doc) \cup {q \in {Resync(Sid(t))} : asks}
      /\ apart' = (apart \/ (leads /\ ~reloads /\ Misses(t, doc)))
      /\ UNCHANGED <<jobs, server, draft, undone, user>>
    BY DEF ReceiveStatus
<1>2. leads \in BOOLEAN /\ tab[t].up /\ Sid(t) \in Sids /\ down' \in Queues
    BY <1>1, DeliverType, ToTabFields
<1>3. /\ me.fresh \in BOOLEAN /\ me.awaiting \in BOOLEAN /\ me.reload \in BOOLEAN
      /\ me.trusted \in BOOLEAN /\ me.rebroadcast \in BOOLEAN /\ me.retry \in BOOLEAN
      /\ me.leader \in BOOLEAN /\ me.visible \in BOOLEAN
      /\ me.load \in {"none", "asked", "read"}
    BY TabFields DEF TabStates
<1>4. doc \in Docs
    BY <1>0, SeededType
<1>5. views' \in [Sids -> Seq(BOOLEAN)]
    BY <1>1, <1>3, ReportType
<1>6. up' \subseteq ToServer
    BY <1>1, <1>2, <1>4, TabFields, LocalChangeType, MessageType
<1>7. apart' \in BOOLEAN
    BY <1>1, TabFields
<1>8. /\ leads \in BOOLEAN /\ reload \in BOOLEAN /\ load \in {"none", "asked", "read"}
      /\ trusted \in BOOLEAN /\ awaiting \in BOOLEAN /\ rebroadcast \in BOOLEAN /\ retry \in BOOLEAN
    BY <1>2, <1>3
<1> HIDE DEF me, leads, reloads, asks, reload, load, trusted, awaiting, rebroadcast, retry, doc
<1>9. tab[t] \in TabStates
    BY TabFields
<1>10. r \in TabStates
    BY <1>4, <1>8, <1>9 DEF TabStates
<1>11. r.connection = tab[t].connection /\ r.up = tab[t].up
    BY <1>9 DEF TabStates
<1> HIDE DEF r
<1> QED BY <1>0, <1>1, <1>2, <1>5, <1>6, <1>7, <1>10, <1>11, TabFields, TabKept DEF user

LEMMA ReceiveUpdateTyped == ASSUME Typed, NEW t \in Tabs, ReceiveUpdate(t) PROVE Typed'
<1> DEFINE me == tab[t]
           m == Head(down[t])
           imports == ~m.snapshot \/ ~me.leader \/ me.awaiting
           doc == IF imports THEN Merge(me.doc, m.doc) ELSE me.doc
           ready == imports /\ m.snapshot /\ me.awaiting
           canvas == IF ready \/ (me.visible /\ doc # me.doc) THEN Content(doc)
                     ELSE me.canvas
           awaiting == me.awaiting /\ ~ready
           trusted == me.trusted \/ ready
           fresh == me.fresh /\ ~ready
           reload == me.reload /\ ~ready
           retry == me.retry /\ ~ready
           rebroadcast == me.rebroadcast /\ ~(ready /\ me.leader)
           r == [tab[t] EXCEPT !.doc = doc, !.canvas = canvas, !.awaiting = awaiting,
                    !.trusted = trusted, !.fresh = fresh, !.reload = reload,
                    !.retry = retry, !.rebroadcast = rebroadcast]
<1>0. Typed /\ TypeOK
    BY DEF Typed
<1>1. Deliver(t, "update") /\ tab' = [tab EXCEPT ![t] = r]
      /\ down' = [down EXCEPT ![t] = Tail(@)]
      /\ up' = up \cup {g \in {Graph(Sid(t), doc, TRUE)} :
                            ready /\ me.leader /\ me.rebroadcast}
      /\ apart' = (apart \/ (ready /\ Misses(t, doc)))
      /\ UNCHANGED <<views, jobs, server, draft, undone, user>>
    BY DEF ReceiveUpdate
<1>2. /\ tab[t].up /\ Sid(t) \in Sids /\ down' \in Queues
      /\ m.doc \in Docs /\ m.snapshot \in BOOLEAN
    BY <1>1, DeliverType, ToTabFields
<1>3. /\ me.fresh \in BOOLEAN /\ me.awaiting \in BOOLEAN /\ me.reload \in BOOLEAN
      /\ me.trusted \in BOOLEAN /\ me.rebroadcast \in BOOLEAN /\ me.retry \in BOOLEAN
      /\ me.leader \in BOOLEAN /\ me.visible \in BOOLEAN
    BY TabFields DEF TabStates
<1>4. doc \in Docs
    BY <1>2, TabFields, MergeType
<1>5. canvas \subseteq Items
    BY TabFields, ContentType
<1>6. up' \subseteq ToServer
    BY <1>1, <1>2, <1>4, TabFields, MessageType
<1>7. apart' \in BOOLEAN
    BY <1>1, TabFields
<1>8. /\ fresh \in BOOLEAN /\ reload \in BOOLEAN /\ trusted \in BOOLEAN
      /\ awaiting \in BOOLEAN /\ rebroadcast \in BOOLEAN /\ retry \in BOOLEAN
    BY <1>2, <1>3
<1> HIDE DEF me, m, imports, ready, reload, trusted, awaiting, rebroadcast, retry, fresh,
            doc, canvas
<1>9. tab[t] \in TabStates
    BY TabFields
<1>10. r \in TabStates
    BY <1>4, <1>5, <1>8, <1>9 DEF TabStates
<1>11. r.connection = tab[t].connection /\ r.up = tab[t].up
    BY <1>9 DEF TabStates
<1> HIDE DEF r
<1> QED BY <1>0, <1>1, <1>2, <1>6, <1>7, <1>10, <1>11, TabFields, TabKept DEF user

LEMMA ReceiveResyncTyped == ASSUME Typed, NEW t \in Tabs, ReceiveResync(t) PROVE Typed'
<1>0. Typed /\ TypeOK
    BY DEF Typed
<1>1. tab[t].up /\ Sid(t) \in Sids /\ down' \in Queues
    BY DeliverType DEF ReceiveResync
<1>2. UNCHANGED <<views, jobs, server, draft, past, user>>
    BY DEF ReceiveResync
<1>3. CASE ~tab[t].trusted \/ tab[t].reload
    <2> DEFINE r == [tab[t] EXCEPT !.rebroadcast = TRUE]
    <2>1. tab' = [tab EXCEPT ![t] = r] /\ up' = up
        BY <1>3 DEF ReceiveResync
    <2>2. /\ r \in TabStates /\ r.connection = tab[t].connection /\ r.up = tab[t].up
        BY TabFields DEF TabStates
    <2> HIDE DEF r
    <2> QED BY <1>0, <1>1, <1>2, <2>1, <2>2, TabFields, TabKept DEF past, user
<1>4. CASE ~(~tab[t].trusted \/ tab[t].reload)
    <2> DEFINE r == [tab[t] EXCEPT !.doc = Seeded(t), !.rebroadcast = FALSE]
    <2>1. tab' = [tab EXCEPT ![t] = r]
          /\ up' = up \cup LocalChange(t, Seeded(t)) \cup {Graph(Sid(t), Seeded(t), TRUE)}
        BY <1>4 DEF ReceiveResync
    <2>2. Seeded(t) \in Docs
        BY <1>0, SeededType
    <2>3. /\ r \in TabStates /\ r.connection = tab[t].connection /\ r.up = tab[t].up
        BY <2>2, TabFields DEF TabStates
    <2>4. up' \subseteq ToServer
        BY <1>1, <2>1, <2>2, TabFields, LocalChangeType, MessageType
    <2> HIDE DEF r
    <2> QED BY <1>0, <1>1, <1>2, <2>1, <2>3, <2>4, TabFields, TabKept DEF past, user
<1> QED BY <1>3, <1>4

\* A step that changes no tab.
LEMMA NoTabTyped ==
    ASSUME Typed, UNCHANGED <<tab, server, made, undone, apart, draft, disturbances>>,
           jobs' \in [Tabs -> Seq(Jobs)], down' \in Queues, up' \subseteq ToServer,
           views' \in [Sids -> Seq(BOOLEAN)], saves' \in 0 .. MaxSaves
    PROVE  Typed'
BY DEF Typed, TypeOK, Connected, server, Queues

LEMMA JobType ==
    ASSUME Typed, NEW t \in Tabs, NEW items \in SUBSET Items, NEW wanted \in SUBSET Items,
           NEW for \in Sids \cup {NoSid}
    PROVE  Job(t, items, wanted, for) \in Jobs
BY TabFields DEF Job, Jobs

LEMMA ReceiveSyncTyped == ASSUME Typed, NEW t \in Tabs, ReceiveSync(t) PROVE Typed'
<1> DEFINE m == Head(down[t])
           doc == Merge(tab[t].doc, m.doc)
           r == IF CanPersist(t) THEN [tab[t] EXCEPT !.doc = doc, !.canvas = Content(doc)]
                ELSE tab[t]
           taken == [down EXCEPT ![t] = Tail(@)]
           job == Job(t, Content(doc), Content(m.doc), m.from)
<1>0. Typed /\ TypeOK
    BY DEF Typed
<1>1. /\ tab[t].up /\ Sid(t) \in Sids /\ taken \in Queues
      /\ m.doc \in Docs /\ m.from \in Sids
    BY DeliverType, ToTabFields DEF ReceiveSync
<1>2. UNCHANGED <<views, up, server, draft, past, user>>
    BY DEF ReceiveSync
<1>3. doc \in Docs /\ Content(doc) \subseteq Items /\ Content(m.doc) \subseteq Items
    BY <1>1, TabFields, MergeType, ContentType
<1>4. job \in Jobs
    BY <1>0, <1>1, <1>3, JobType
<1>5. Ack(FALSE, {}) \in ToTab
    BY DEF Ack, ToTab
<1>6. tab' = [tab EXCEPT ![t] = r]
    <2>1. tab = [tab EXCEPT ![t] = tab[t]]
        BY TabFields
    <2> QED BY <2>1 DEF ReceiveSync
<1>7. \/ jobs' = [jobs EXCEPT ![t] = Append(@, job)] /\ down' = taken
      \/ down' = Emit(taken, {m.from}, Ack(FALSE, {})) /\ jobs' = jobs
    BY DEF ReceiveSync
<1> HIDE DEF m, doc, taken, job
<1>8. down' \in Queues
    BY <1>1, <1>5, <1>7, EmitType
<1>9. jobs' \in [Tabs -> Seq(Jobs)]
    <2>1. jobs \in [Tabs -> Seq(Jobs)] /\ jobs[t] \in Seq(Jobs)
        BY TabFields
    <2>2. Append(jobs[t], job) \in Seq(Jobs)
        BY <1>4, <2>1
    <2> QED BY <1>7, <2>1, <2>2
<1>10. /\ r \in TabStates /\ r.connection = tab[t].connection /\ r.up = tab[t].up
    BY <1>3, TabFields DEF TabStates
<1> HIDE DEF r
<1> QED BY <1>0, <1>1, <1>2, <1>6, <1>8, <1>9, <1>10, TabFields, TabKept DEF past, user

LEMMA ReceiveAckTyped == ASSUME Typed, NEW t \in Tabs, ReceiveAck(t) PROVE Typed'
<1> DEFINE m == Head(down[t])
           hash == IF m.success THEN m.items ELSE tab[t].hash
           r == [tab[t] EXCEPT !.hash = hash]
<1>0. Typed /\ TypeOK
    BY DEF Typed
<1>1. /\ tab[t].up /\ down' \in Queues /\ m.items \subseteq Items
    BY DeliverType, ToTabFields DEF ReceiveAck
<1>2. UNCHANGED <<views, jobs, up, server, draft, past, user>> /\ tab' = [tab EXCEPT ![t] = r]
    BY DEF ReceiveAck
<1>3. hash \subseteq Items
    BY <1>1, TabFields
<1> HIDE DEF hash
<1>4. /\ r \in TabStates /\ r.connection = tab[t].connection /\ r.up = tab[t].up
    BY <1>3, TabFields DEF TabStates
<1> HIDE DEF r
<1> QED BY <1>0, <1>1, <1>2, <1>4, TabFields, TabKept DEF past, user

LEMMA RetryResyncTyped == ASSUME Typed, NEW t \in Tabs, RetryResync(t) PROVE Typed'
<1>1. up' \subseteq ToServer
    BY SidType, MessageType, EmptyType DEF RetryResync, Retries
<1> QED BY <1>1, TabFields, NoTabTyped DEF RetryResync, past, user

LEMMA ReadDraftTyped == ASSUME Typed, NEW t \in Tabs, ReadDraft(t) PROVE Typed'
<1> DEFINE r == [tab[t] EXCEPT !.load = "read", !.loaded = draft]
<1>1. tab' = [tab EXCEPT ![t] = r] /\ UNCHANGED <<views, jobs, down, up, server, draft, past, user>>
    BY DEF ReadDraft
<1>2. /\ r \in TabStates /\ r.connection = tab[t].connection /\ r.up = tab[t].up
      /\ r.leader = tab[t].leader /\ r.trusted = tab[t].trusted
    BY TabFields DEF TabStates
<1> HIDE DEF r
<1> QED BY <1>1, <1>2, TabFields, TabKept DEF past, user

LEMMA ReplaceGraphTyped == ASSUME Typed, NEW t \in Tabs, ReplaceGraph(t) PROVE Typed'
<1> DEFINE me == tab[t]
           current == me.leader /\ me.reload /\ ~me.trusted
           doc == SetItems(me.doc, me.loaded)
<1>0. Typed /\ TypeOK /\ tab[t] \in TabStates
    BY TabFields DEF Typed
<1>1. UNCHANGED <<views, jobs, down, server, draft, user>>
    BY DEF ReplaceGraph
<1>2. CASE current
    <2> DEFINE r == [tab[t] EXCEPT !.load = "none", !.canvas = me.loaded,
                        !.hash = me.loaded, !.doc = doc, !.trusted = TRUE,
                        !.awaiting = FALSE, !.fresh = FALSE, !.reload = FALSE,
                        !.retry = FALSE, !.rebroadcast = FALSE]
    <2>1. /\ tab' = [tab EXCEPT ![t] = r]
          /\ undone' = undone \cup (Content(me.doc) \ me.loaded)
          /\ apart' = (apart \/ Misses(t, doc))
          /\ up' = up \cup LocalChange(t, doc)
                      \cup {g \in {Graph(Sid(t), doc, TRUE)} : me.rebroadcast}
        BY <1>2 DEF ReplaceGraph
    <2>2. doc \in Docs /\ me.loaded \subseteq Items
        BY TabFields, SetItemsType
    <2>3. tab[t].up /\ Sid(t) \in Sids
        BY <1>2, TabFields, SidType
    <2>4. up' \subseteq ToServer
        BY <2>1, <2>2, <2>3, TabFields, LocalChangeType, MessageType
    <2>5. undone' \subseteq Items /\ apart' \in BOOLEAN
        BY <2>1, TabFields, ContentType
    <2> HIDE DEF doc
    <2>6. r \in TabStates
        BY <1>0, <2>2 DEF TabStates
    <2>7. r.connection = tab[t].connection /\ r.up = tab[t].up
        BY <1>0 DEF TabStates
    <2> HIDE DEF r, me
    <2> QED BY <1>0, <1>1, <2>1, <2>3, <2>4, <2>5, <2>6, <2>7, TabFields, TabKept DEF user
<1>3. CASE ~current
    <2> DEFINE r == [tab[t] EXCEPT !.load = "none"]
    <2>1. tab' = [tab EXCEPT ![t] = r] /\ UNCHANGED <<past, up>>
        BY <1>3 DEF ReplaceGraph
    <2>2. r \in TabStates /\ r.connection = tab[t].connection /\ r.up = tab[t].up
          /\ r.leader = tab[t].leader /\ r.trusted = tab[t].trusted
        BY <1>0 DEF TabStates
    <2> HIDE DEF r
    <2> QED BY <1>0, <1>1, <2>1, <2>2, TabFields, TabKept DEF past, user
<1> QED BY <1>2, <1>3

LEMMA EditTyped == ASSUME Typed, NEW t \in Tabs, NEW i \in Items, Edit(t, i) PROVE Typed'
<1> DEFINE doc == SetItems(Seeded(t), Content(Seeded(t)) \cup {i})
           canvas == tab[t].canvas \cup {i}
           r == [tab[t] EXCEPT !.canvas = canvas, !.doc = doc]
<1>0. Typed /\ TypeOK /\ tab[t] \in TabStates
    BY TabFields DEF Typed
<1>1. /\ tab[t].up /\ tab' = [tab EXCEPT ![t] = r] /\ made' = made \cup {i}
      /\ up' = up \cup LocalChange(t, doc)
      /\ UNCHANGED <<views, jobs, down, server, draft, past, disturbances, saves>>
    BY DEF Edit
<1>2. doc \in Docs /\ canvas \subseteq Items
    BY <1>0, TabFields, SeededType, SetItemsType
<1> HIDE DEF doc, canvas
<1>3. r \in TabStates /\ r.connection = tab[t].connection /\ r.up = tab[t].up
    BY <1>0, <1>2 DEF TabStates
<1>4. up' \subseteq ToServer /\ made' \subseteq Items
    BY <1>0, <1>1, <1>2, TabFields, SidType, LocalChangeType
<1> HIDE DEF r
<1> QED BY <1>0, <1>1, <1>3, <1>4, TabFields, TabKept DEF past

LEMMA HideTyped == ASSUME Typed, NEW t \in Tabs, Hide(t) PROVE Typed'
<1> DEFINE r == [tab[t] EXCEPT !.visible = FALSE]
<1>0. Typed /\ TypeOK /\ tab[t] \in TabStates
    BY TabFields DEF Typed
<1>1. /\ tab' = [tab EXCEPT ![t] = r] /\ disturbances' = disturbances + 1
      /\ disturbances < MaxDisturbances /\ Report(t, FALSE)
      /\ UNCHANGED <<jobs, down, up, server, draft, past, made, saves>>
    BY DEF Hide, MayDisturb
<1>2. r \in TabStates /\ r.connection = tab[t].connection /\ r.up = tab[t].up
      /\ r.leader = tab[t].leader /\ r.trusted = tab[t].trusted
    BY <1>0 DEF TabStates
<1>3. views' \in [Sids -> Seq(BOOLEAN)]
    BY <1>1, ReportType
<1>4. /\ disturbances' \in 0 .. MaxDisturbances /\ disturbances <= disturbances'
      /\ r.connection <= disturbances'
    BY <1>1, <1>2, TabFields, Bounds
<1> HIDE DEF r
<1>5. (r.up => r.connection > 0) /\ (r.leader \/ r.trusted => r.up)
    BY <1>2, TabFields
<1> QED BY <1>1, <1>2, <1>3, <1>4, <1>5, TabFields, TabTyped DEF past

LEMMA ShowTyped == ASSUME Typed, NEW t \in Tabs, Show(t) PROVE Typed'
<1> DEFINE restores == tab[t].up /\ tab[t].trusted /\ ~tab[t].reload
           canvas == IF tab[t].doc # Empty THEN Content(tab[t].doc) ELSE tab[t].canvas
           refresh == IF restores /\ tab[t].refresh = "none" THEN "planned"
                      ELSE tab[t].refresh
           r == [tab[t] EXCEPT !.visible = TRUE, !.canvas = canvas, !.refresh = refresh]
<1>0. Typed /\ TypeOK /\ tab[t] \in TabStates
    BY TabFields DEF Typed
<1>1. /\ tab' = [tab EXCEPT ![t] = r] /\ Report(t, TRUE)
      /\ UNCHANGED <<jobs, down, up, server, draft, past, user>>
    BY DEF Show
<1>2. canvas \subseteq Items /\ refresh \in {"none", "planned", "fetching"}
    BY <1>0, TabFields, ContentType DEF TabStates
<1>3. views' \in [Sids -> Seq(BOOLEAN)]
    BY <1>1, ReportType
<1> HIDE DEF canvas, refresh
<1>4. r \in TabStates /\ r.connection = tab[t].connection /\ r.up = tab[t].up
      /\ r.leader = tab[t].leader /\ r.trusted = tab[t].trusted
    BY <1>0, <1>2 DEF TabStates
<1> HIDE DEF r
<1> QED BY <1>0, <1>1, <1>3, <1>4, TabFields, TabKept DEF past, user

LEMMA CallSaveTyped == ASSUME Typed, NEW t \in Tabs, CallSave(t) PROVE Typed'
<1> DEFINE job == Job(t, tab[t].canvas, {}, NoSid)
<1>1. /\ saves' = saves + 1 /\ saves < MaxSaves /\ tab[t].trusted
      /\ UNCHANGED <<views, tab, down, server, draft, past, made, disturbances>>
    BY DEF CallSave, CanPersist
<1>2. saves' \in 0 .. MaxSaves
    BY <1>1, TabFields, Bounds
<1>3. job \in Jobs /\ jobs[t] \in Seq(Jobs) /\ tab[t].up
    BY <1>1, TabFields, JobType
<1>4. Append(jobs[t], job) \in Seq(Jobs)
    BY <1>3
<1>5. up' = up \cup {SyncRequest(Sid(t), tab[t].doc)} \/ up' = up
    BY DEF CallSave
<1>6. up' \subseteq ToServer
    BY <1>3, <1>5, TabFields, SidType, MessageType
<1>7. jobs' = [jobs EXCEPT ![t] = Append(jobs[t], job)] \/ jobs' = jobs
    BY DEF CallSave
<1> HIDE DEF job
<1>8. jobs' \in [Tabs -> Seq(Jobs)]
    BY <1>4, <1>7, TabFields
<1> QED BY <1>1, <1>2, <1>6, <1>8, TabFields, NoTabTyped DEF past

LEMMA SaveDraftTyped == ASSUME Typed, NEW t \in Tabs, SaveDraft(t) PROVE Typed'
<1> DEFINE job == Head(jobs[t])
           accepted == job.base = draft
           rest == [j \in DOMAIN Tail(jobs[t]) |->
                       [Tail(jobs[t])[j] EXCEPT !.base = job.items]]
           dropped == {rest[j].for : j \in DOMAIN rest}
           hash == IF accepted THEN job.items ELSE tab[t].hash
           refresh == IF accepted THEN tab[t].refresh ELSE "fetching"
           r == [tab[t] EXCEPT !.hash = hash, !.refresh = refresh]
           answered == Emit(down, {job.for}, Ack(accepted, job.items))
<1>0. Typed /\ TypeOK /\ tab[t] \in TabStates
    BY TabFields DEF Typed
<1>1. /\ tab' = [tab EXCEPT ![t] = r] /\ jobs[t] # <<>>
      /\ draft' = IF accepted THEN job.items ELSE draft
      /\ UNCHANGED <<views, up, server, past, user>>
    BY DEF SaveDraft
<1>2. \/ jobs' = [jobs EXCEPT ![t] = rest] /\ down' = answered
      \/ /\ jobs' = [jobs EXCEPT ![t] = <<>>]
         /\ down' = Emit(answered, dropped, Ack(FALSE, {}))
    BY DEF SaveDraft
<1>3. jobs[t] \in Seq(Jobs)
    BY TabFields
<1>4. job \in Jobs /\ Tail(jobs[t]) \in Seq(Jobs)
    BY <1>1, <1>3
<1>5. job.items \subseteq Items
    BY <1>4 DEF Jobs
<1>6. rest \in Seq(Jobs)
    <2>1. \A q \in Jobs : [q EXCEPT !.base = job.items] \in Jobs
        BY <1>5 DEF Jobs
    <2>2. \A j \in DOMAIN Tail(jobs[t]) : Tail(jobs[t])[j] \in Jobs
        BY <1>4
    <2>3. DOMAIN Tail(jobs[t]) = 1 .. Len(Tail(jobs[t])) /\ Len(Tail(jobs[t])) \in Nat
        BY <1>4
    <2> DEFINE tail == Tail(jobs[t])
    <2> HIDE DEF tail, job
    <2>4. \A j \in DOMAIN tail : [tail[j] EXCEPT !.base = job.items] \in Jobs
        BY <2>1, <2>2 DEF tail
    <2>5. rest \in [1 .. Len(tail) -> Jobs]
        BY <2>3, <2>4 DEF tail
    <2> QED BY <2>3, <2>5 DEF tail
<1>7. answered \in Queues
    <2>1. accepted \in BOOLEAN
        OBVIOUS
    <2> HIDE DEF accepted
    <2>2. Ack(accepted, job.items) \in ToTab
        BY <1>5, <2>1 DEF Ack, ToTab
    <2> HIDE DEF job
    <2> QED BY <2>2, TabFields, EmitType
<1>8. Ack(FALSE, {}) \in ToTab
    BY DEF Ack, ToTab
<1>9. hash \subseteq Items /\ refresh \in {"none", "planned", "fetching"} /\ draft' \subseteq Items
    BY <1>0, <1>1, <1>5, TabFields DEF TabStates
<1> HIDE DEF job, accepted, rest, dropped, hash, refresh, answered
<1>10. r \in TabStates /\ r.connection = tab[t].connection /\ r.up = tab[t].up
      /\ r.leader = tab[t].leader /\ r.trusted = tab[t].trusted
    BY <1>0, <1>9 DEF TabStates
<1>11. down' \in Queues
    BY <1>2, <1>7, <1>8, EmitType
<1>12. jobs' \in [Tabs -> Seq(Jobs)]
    <2>1. <<>> \in Seq(Jobs)
        OBVIOUS
    <2>2. jobs' = [jobs EXCEPT ![t] = rest] \/ jobs' = [jobs EXCEPT ![t] = <<>>]
        BY <1>2
    <2> QED BY <1>6, <2>1, <2>2, TabFields
<1> HIDE DEF r
<1> QED BY <1>0, <1>1, <1>9, <1>10, <1>11, <1>12, TabFields, TabKept DEF past, user

LEMMA RefreshTyped ==
    ASSUME Typed, NEW t \in Tabs, RefreshStarts(t) \/ RefreshHash(t)
    PROVE  Typed'
<1>0. Typed /\ TypeOK /\ tab[t] \in TabStates
    BY TabFields DEF Typed
<1>1. CASE RefreshStarts(t)
    <2> DEFINE r == [tab[t] EXCEPT !.refresh = "fetching"]
    <2>1. tab' = [tab EXCEPT ![t] = r]
          /\ UNCHANGED <<views, jobs, down, up, server, draft, past, user>>
        BY <1>1 DEF RefreshStarts
    <2>2. r \in TabStates /\ r.connection = tab[t].connection /\ r.up = tab[t].up
          /\ r.leader = tab[t].leader /\ r.trusted = tab[t].trusted
        BY <1>0 DEF TabStates
    <2> HIDE DEF r
    <2> QED BY <1>0, <2>1, <2>2, TabFields, TabKept DEF past, user
<1>2. CASE RefreshHash(t)
    <2> DEFINE r == [tab[t] EXCEPT !.refresh = "none", !.hash = draft]
    <2>1. tab' = [tab EXCEPT ![t] = r]
          /\ UNCHANGED <<views, jobs, down, up, server, draft, past, user>>
        BY <1>2 DEF RefreshHash
    <2>2. r \in TabStates /\ r.connection = tab[t].connection /\ r.up = tab[t].up
          /\ r.leader = tab[t].leader /\ r.trusted = tab[t].trusted
        BY <1>0, TabFields DEF TabStates
    <2> HIDE DEF r
    <2> QED BY <1>0, <2>1, <2>2, TabFields, TabKept DEF past, user
<1> QED BY <1>1, <1>2

LEMMA StepTyped == Typed /\ [Next]_vars => Typed'
<1> SUFFICES ASSUME Typed, [Next]_vars PROVE Typed'
    OBVIOUS
<1>1. CASE UNCHANGED vars
    BY <1>1 DEF Typed, TypeOK, Connected, vars, server, user, past
<1>2. CASE Next
    <2>1. PICK t \in Tabs :
              \/ Connect(t) \/ Disconnect(t)
              \/ Server(t) \/ Receive(t)
              \/ RetryResync(t) \/ ReadDraft(t) \/ ReplaceGraph(t)
              \/ \E i \in Items : Edit(t, i)
              \/ Hide(t) \/ Show(t)
              \/ CallSave(t) \/ SaveDraft(t)
              \/ RefreshStarts(t) \/ RefreshHash(t)
        BY <1>2 DEF Next
    <2>2. up \subseteq ToServer
        BY DEF Typed, TypeOK
    <2>3. CASE Server(t)
        <3>1. CASE \E m \in {m \in up : m.sid[1] = t} :
                      JoinSession(m.sid) \/ Refuse(m) \/ RelayGraph(m) \/ RelayResync(m)
                      \/ RelaySync(m)
            <4>1. PICK m \in up : JoinSession(m.sid) \/ Refuse(m) \/ RelayGraph(m)
                                  \/ RelayResync(m) \/ RelaySync(m)
                BY <3>1
            <4>2. m \in ToServer /\ m.sid \in Sids
                BY <2>2, ToServerFields
            <4> QED BY <4>1, <4>2, JoinSessionTyped, RefuseTyped, RelayTyped
        <3>2. CASE \E s \in Sids, b \in BOOLEAN : s[1] = t /\ JoinAnswer(s, b)
            BY <3>2, JoinAnswerTyped
        <3>3. CASE \E s \in {s \in Sids : s[1] = t} :
                      \/ ServerDisconnects(s) \/ RefuseView(s)
                      \/ \E n \in DOMAIN views[s] : RelayView(s, n)
            BY <3>3, ServerDisconnectsTyped, RefuseViewTyped, RelayViewTyped
        <3> QED BY <2>3, <3>1, <3>2, <3>3 DEF Server
    <2>4. CASE Receive(t)
        BY <2>4, ReceiveStatusTyped, ReceiveUpdateTyped, ReceiveResyncTyped,
           ReceiveSyncTyped, ReceiveAckTyped DEF Receive
    <2>5. CASE Connect(t) \/ Disconnect(t) \/ RetryResync(t)
        BY <2>5, ConnectTyped, DisconnectTyped, RetryResyncTyped
    <2>6. CASE ReadDraft(t) \/ ReplaceGraph(t) \/ \E i \in Items : Edit(t, i)
        BY <2>6, ReadDraftTyped, ReplaceGraphTyped, EditTyped
    <2>7. CASE Hide(t) \/ Show(t) \/ CallSave(t) \/ SaveDraft(t)
        BY <2>7, HideTyped, ShowTyped, CallSaveTyped, SaveDraftTyped
    <2>8. CASE RefreshStarts(t) \/ RefreshHash(t)
        BY <2>8, RefreshTyped
    <2> QED BY <2>1, <2>3, <2>4, <2>5, <2>6, <2>7, <2>8
<1> QED BY <1>1, <1>2

\* Every variable has its type, whatever the tabs, items and bounds are.
THEOREM TypeCorrect == Spec => []TypeOK
<1>1. Typed => TypeOK
    BY DEF Typed
<1> QED BY <1>1, InitTyped, StepTyped, PTL DEF Spec

-----------------------------------------------------------------------------
(* Saves that are acknowledged hold what was asked to be saved.  An item that *)
(* was added more than once to a document was removed by a reload before; so  *)
(* the document of the tab that saves may overrule the one of the tab that    *)
(* asks only on items that a reload has removed.                              *)

KnownDocs(removed) == {d \in Docs : \A i \in Items : d[i] > 1 => i \in removed}

KnownToServer(removed) ==
    {m \in ToServer : m.kind \in {"graph", "sync"} => m.doc \in KnownDocs(removed)}

KnownToTab(removed) ==
    {m \in ToTab : m.kind \in {"update", "sync"} => m.doc \in KnownDocs(removed)}

KnownJobs(removed) == {j \in Jobs : j.wanted \subseteq j.items \cup removed}

\* Holds of every document, the ones on their way included, and of every save.
Remembered ==
    /\ \A t \in Tabs : tab[t].doc \in KnownDocs(undone)
    /\ up \subseteq KnownToServer(undone)
    /\ down \in [Tabs -> Seq(KnownToTab(undone))]
    /\ jobs \in [Tabs -> Seq(KnownJobs(undone))]

LEMMA KnownGrows ==
    ASSUME NEW removed, NEW more, removed \subseteq more
    PROVE  /\ KnownDocs(removed) \subseteq KnownDocs(more)
           /\ KnownToServer(removed) \subseteq KnownToServer(more)
           /\ KnownToTab(removed) \subseteq KnownToTab(more)
           /\ KnownJobs(removed) \subseteq KnownJobs(more)
<1>1. KnownDocs(removed) \subseteq KnownDocs(more)
    BY DEF KnownDocs
<1>2. KnownJobs(removed) \subseteq KnownJobs(more)
    BY DEF KnownJobs
<1> QED BY <1>1, <1>2 DEF KnownToServer, KnownToTab

\* A merge keeps the items of both, but for those that a reload has removed.
LEMMA MergeKnown ==
    ASSUME NEW removed, NEW d \in KnownDocs(removed), NEW e \in KnownDocs(removed)
    PROVE  /\ Merge(d, e) \in KnownDocs(removed)
           /\ Content(e) \subseteq Content(Merge(d, e)) \cup removed
<1>1. d \in Docs /\ e \in Docs /\ Merge(d, e) \in Docs
    BY MergeType DEF KnownDocs
<1>2. \A i \in Items : Merge(d, e)[i] = IF d[i] > e[i] THEN d[i] ELSE e[i]
    BY DEF Merge
<1>3. Merge(d, e) \in KnownDocs(removed)
    BY <1>1, <1>2 DEF KnownDocs
<1>4. ASSUME NEW i \in Content(e), i \notin removed
      PROVE  i \in Content(Merge(d, e))
    <2>1. i \in Items /\ e[i] % 2 = 1 /\ e[i] \in Nat /\ d[i] \in Nat
        BY <1>1 DEF Content, Docs
    <2>2. d[i] <= 1 /\ e[i] <= 1
        BY <1>4, <2>1 DEF KnownDocs
    <2>3. e[i] = 1
        BY <2>1, <2>2
    <2> QED BY <1>2, <2>1, <2>2, <2>3 DEF Content
<1> QED BY <1>3, <1>4

\* Giving a document other items marks the ones that it loses.
LEMMA SetItemsKnown ==
    ASSUME NEW removed, NEW d \in KnownDocs(removed), NEW items
    PROVE  SetItems(d, items) \in KnownDocs(removed \cup (Content(d) \ items))
<1>1. d \in Docs /\ SetItems(d, items) \in Docs
    BY SetItemsType DEF KnownDocs
<1>2. ASSUME NEW i \in Items, SetItems(d, items)[i] > 1
      PROVE  i \in removed \cup (Content(d) \ items)
    <2>1. d[i] \in Nat
        BY <1>1 DEF Docs
    <2>2. CASE (i \in items) = (i \in Content(d))
        BY <1>2, <2>2 DEF SetItems, KnownDocs
    <2>3. CASE (i \in items) # (i \in Content(d))
        <3>1. d[i] + 1 > 1
            BY <1>2, <2>3 DEF SetItems
        <3>2. CASE i \in Content(d)
            BY <2>3, <3>2
        <3>3. CASE i \notin Content(d)
            <4>1. d[i] # 1
                BY <3>3 DEF Content
            <4>2. d[i] > 1
                BY <2>1, <3>1, <4>1
            <4> QED BY <4>2 DEF KnownDocs
        <3> QED BY <3>2, <3>3
    <2> QED BY <2>2, <2>3
<1> QED BY <1>1, <1>2 DEF KnownDocs

LEMMA SetMoreKnown ==
    ASSUME NEW removed, NEW d \in KnownDocs(removed), NEW items, Content(d) \subseteq items
    PROVE  SetItems(d, items) \in KnownDocs(removed)
<1>1. removed \cup (Content(d) \ items) = removed
    OBVIOUS
<1> QED BY <1>1, SetItemsKnown

LEMMA SeededKnown ==
    ASSUME Remembered, NEW t \in Tabs
    PROVE  tab[t].doc \in KnownDocs(undone) /\ Seeded(t) \in KnownDocs(undone)
BY SetMoreKnown DEF Remembered, Seeded

LEMMA EmptyKnown == ASSUME NEW removed PROVE Empty \in KnownDocs(removed)
BY EmptyType DEF Empty, KnownDocs

LEMMA ToServerKnown ==
    ASSUME NEW removed, NEW s \in Sids, NEW doc \in KnownDocs(removed), NEW b \in BOOLEAN
    PROVE  /\ Join(s) \in KnownToServer(removed) /\ Resync(s) \in KnownToServer(removed)
           /\ Graph(s, doc, b) \in KnownToServer(removed)
           /\ SyncRequest(s, doc) \in KnownToServer(removed)
<1>1. doc \in Docs
    BY DEF KnownDocs
<1> QED BY <1>1, MessageType DEF KnownToServer, Join, Resync, Graph, SyncRequest

LEMMA ToTabKnown ==
    ASSUME NEW removed, NEW s \in Sids, NEW doc \in KnownDocs(removed), NEW b \in BOOLEAN,
           NEW items \in SUBSET Items
    PROVE  /\ [kind |-> "status", leader |-> b] \in KnownToTab(removed)
           /\ [kind |-> "resync"] \in KnownToTab(removed)
           /\ [kind |-> "update", doc |-> doc, snapshot |-> b] \in KnownToTab(removed)
           /\ [kind |-> "sync", from |-> s, doc |-> doc] \in KnownToTab(removed)
           /\ Ack(b, items) \in KnownToTab(removed)
<1>1. doc \in Docs
    BY DEF KnownDocs
<1> QED BY <1>1, ToTabType DEF KnownToTab, Ack

KnownQueues == [Tabs -> Seq(KnownToTab(undone))]

LEMMA EmitKnown ==
    ASSUME NEW queues \in KnownQueues, NEW sids, NEW message \in KnownToTab(undone)
    PROVE  Emit(queues, sids, message) \in KnownQueues
BY DEF Emit, KnownQueues

LEMMA StatusKnown ==
    ASSUME NEW b \in BOOLEAN
    PROVE  [kind |-> "status", leader |-> b] \in KnownToTab(undone)
BY DEF KnownToTab, ToTab

LEMMA AnnounceKnown ==
    ASSUME NEW queues \in KnownQueues, NEW sids, NEW new
    PROVE  Announce(queues, sids, new) \in KnownQueues
<1>1. \A t \in Tabs : [kind |-> "status", leader |-> Sid(t) = new] \in KnownToTab(undone)
    BY StatusKnown
<1> QED BY <1>1 DEF Announce, KnownQueues

LEMMA ToldKnown == Remembered => \A s : Told(s) \in KnownQueues
BY AnnounceKnown DEF Remembered, Told, KnownQueues

\* Steps of the server leave the documents of the tabs and the saves alone.
LEMMA ServerRemembers ==
    ASSUME Remembered, tab' = tab, jobs' = jobs, undone' = undone,
           up' \subseteq KnownToServer(undone), down' \in KnownQueues
    PROVE  Remembered'
BY DEF Remembered, KnownQueues

LEMMA RoomRemembers ==
    ASSUME Remembered, NEW s \in Sids, NEW b \in BOOLEAN,
           JoinSession(s) \/ JoinAnswer(s, b) \/ ServerDisconnects(s) \/ RefuseView(s)
    PROVE  Remembered'
<1>0. down \in KnownQueues /\ up \subseteq KnownToServer(undone)
    BY DEF Remembered, KnownQueues
<1>1. CASE JoinSession(s)
    <2>1. down' \in KnownQueues /\ up' \subseteq up
        BY <1>0, <1>1, AnnounceKnown DEF JoinSession
    <2> QED BY <1>0, <1>1, <2>1, ServerRemembers DEF JoinSession, past
<1>2. CASE JoinAnswer(s, b)
    <2> DEFINE left == [r \in {r \in DOMAIN session : r \in sockets} |-> session[r]]
    <2>1. \/ down' = Emit(down, {s}, [kind |-> "status", leader |-> b])
          \/ down' = Emit(Announce(down, DOMAIN left, leader'), {s},
                          [kind |-> "status", leader |-> b])
        BY <1>2 DEF JoinAnswer
    <2> HIDE DEF left
    <2>2. down' \in KnownQueues
        BY <1>0, <2>1, StatusKnown, EmitKnown, AnnounceKnown
    <2> QED BY <1>0, <1>2, <2>2, ServerRemembers DEF JoinAnswer, past
<1>3. CASE ServerDisconnects(s)
    <2>1. down' \in KnownQueues /\ up' \subseteq up
        BY <1>0, <1>3, AnnounceKnown DEF ServerDisconnects
    <2> QED BY <1>0, <1>3, <2>1, ServerRemembers DEF ServerDisconnects, past
<1>4. CASE RefuseView(s)
    <2>1. \A r \in Sids : Join(r) \in KnownToServer(undone)
        BY ToServerKnown, EmptyKnown
    <2>2. up' \subseteq KnownToServer(undone)
        BY <1>0, <1>4, <2>1 DEF RefuseView
    <2> QED BY <1>0, <1>4, <2>2, ServerRemembers DEF RefuseView, past
<1> QED BY <1>1, <1>2, <1>3, <1>4

LEMMA RelayViewRemembers ==
    ASSUME Remembered, NEW s \in Sids, NEW n \in DOMAIN views[s], RelayView(s, n)
    PROVE  Remembered'
<1>1. down' \in KnownQueues
    BY ToldKnown, AnnounceKnown DEF RelayView
<1> QED BY <1>1, ServerRemembers DEF RelayView, past, Remembered

LEMMA RelayRemembers ==
    ASSUME Remembered, NEW m \in up,
           Refuse(m) \/ RelayGraph(m) \/ RelayResync(m) \/ RelaySync(m)
    PROVE  Remembered'
<1>0. /\ down \in KnownQueues /\ up \subseteq KnownToServer(undone)
      /\ m \in KnownToServer(undone) /\ m \in ToServer
    BY DEF Remembered, KnownQueues, KnownToServer
<1>1. m.sid \in Sids
    BY <1>0, ToServerFields
<1>2. CASE Refuse(m)
    <2>1. \A r \in Sids : Join(r) \in KnownToServer(undone)
        BY ToServerKnown, EmptyKnown
    <2>2. up' \subseteq KnownToServer(undone)
        BY <1>0, <1>1, <1>2, <2>1 DEF Refuse
    <2> QED BY <1>0, <1>2, <2>2, ServerRemembers DEF Refuse
<1>3. CASE RelayGraph(m)
    <2>1. m.doc \in KnownDocs(undone) /\ m.snapshot \in BOOLEAN
        BY <1>0, <1>3, ToServerFields DEF RelayGraph, KnownToServer
    <2>2. [kind |-> "update", doc |-> m.doc, snapshot |-> m.snapshot] \in KnownToTab(undone)
        BY <1>1, <2>1, ToTabKnown
    <2>3. down' \in KnownQueues /\ up' \subseteq up
        BY <1>3, <2>2, ToldKnown, EmitKnown DEF RelayGraph, Relay
    <2> QED BY <1>0, <1>3, <2>3, ServerRemembers DEF RelayGraph, past
<1>4. CASE RelayResync(m)
    <2>1. [kind |-> "resync"] \in KnownToTab(undone)
        BY DEF KnownToTab, ToTab
    <2>2. down' \in KnownQueues /\ up' \subseteq up
        BY <1>4, <2>1, ToldKnown, EmitKnown DEF RelayResync, Relay
    <2> QED BY <1>0, <1>4, <2>2, ServerRemembers DEF RelayResync, past
<1>5. CASE RelaySync(m)
    <2>1. m.doc \in KnownDocs(undone)
        BY <1>0, <1>5 DEF RelaySync, KnownToServer
    <2>2. [kind |-> "sync", from |-> m.sid, doc |-> m.doc] \in KnownToTab(undone)
        BY <1>1, <2>1, ToTabKnown
    <2>3. down' \in KnownQueues /\ up' \subseteq up
        BY <1>5, <2>2, ToldKnown, EmitKnown, AnnounceKnown DEF RelaySync, Relay
    <2> QED BY <1>0, <1>5, <2>3, ServerRemembers DEF RelaySync, past
<1> QED BY <1>2, <1>3, <1>4, <1>5

\* Steps of a tab that reload nothing change its document alone.
LEMMA TabRemembers ==
    ASSUME Remembered, NEW t \in Tabs, tab \in [Tabs -> TabStates], NEW r,
           tab' = [tab EXCEPT ![t] = r], r.doc \in KnownDocs(undone), undone' = undone,
           up' \subseteq KnownToServer(undone), down' \in KnownQueues,
           jobs' \in [Tabs -> Seq(KnownJobs(undone))]
    PROVE  Remembered'
<1>1. \A u \in Tabs : tab'[u] = IF u = t THEN r ELSE tab[u]
    OBVIOUS
<1> QED BY <1>1 DEF Remembered, KnownQueues

LEMMA TailKnown ==
    ASSUME Remembered, NEW t \in Tabs, NEW kind, Deliver(t, kind)
    PROVE  /\ Head(down[t]) \in KnownToTab(undone)
           /\ [down EXCEPT ![t] = Tail(@)] \in KnownQueues
<1>1. down[t] \in Seq(KnownToTab(undone)) /\ down[t] # <<>>
    BY DEF Deliver, Remembered
<1>2. Head(down[t]) \in KnownToTab(undone) /\ Tail(down[t]) \in Seq(KnownToTab(undone))
    BY <1>1
<1> QED BY <1>2 DEF Remembered, KnownQueues

LEMMA LocalChangeKnown ==
    ASSUME NEW removed, NEW t \in Tabs, Sid(t) \in Sids, NEW doc \in KnownDocs(removed)
    PROVE  LocalChange(t, doc) \subseteq KnownToServer(removed)
BY ToServerKnown DEF LocalChange

LEMMA ReceiveStatusRemembers ==
    ASSUME Typed, Remembered, NEW t \in Tabs, ReceiveStatus(t)
    PROVE  Remembered'
<1> DEFINE me == tab[t]
           leads == Head(down[t]).leader
           reloads == leads /\ (me.fresh \/ me.awaiting \/ me.reload)
           doc == IF leads /\ ~reloads THEN Seeded(t) ELSE me.doc
           asks == ~leads /\ ~me.trusted /\ ~me.awaiting
           r == [tab[t] EXCEPT
                    !.leader = leads,
                    !.reload = me.reload \/ reloads,
                    !.load = IF reloads /\ (~me.reload \/ ~me.leader) THEN "asked"
                             ELSE me.load,
                    !.trusted = me.trusted \/ (leads /\ ~reloads),
                    !.awaiting = IF leads THEN me.awaiting ELSE ~me.trusted,
                    !.rebroadcast = me.rebroadcast /\ leads,
                    !.retry = asks \/ (me.retry /\ ~leads /\ ~me.trusted),
                    !.doc = doc]
<1>1. /\ Deliver(t, "status") /\ tab' = [tab EXCEPT ![t] = r]
      /\ down' = [down EXCEPT ![t] = Tail(@)] /\ jobs' = jobs /\ undone' = undone
      /\ up' = up \cup LocalChange(t, doc) \cup {q \in {Resync(Sid(t))} : asks}
    BY DEF ReceiveStatus
<1>2. doc \in KnownDocs(undone)
    BY SeededKnown
<1>3. r.doc = doc
    BY TabFields DEF TabStates
<1> HIDE DEF doc, asks, r
<1>4. Sid(t) \in Sids /\ down' \in KnownQueues
    BY <1>1, DeliverType, TailKnown
<1>5. up' \subseteq KnownToServer(undone)
    <2>1. Resync(Sid(t)) \in KnownToServer(undone) /\ up \subseteq KnownToServer(undone)
        BY <1>2, <1>4, ToServerKnown DEF Remembered
    <2> QED BY <1>1, <1>2, <1>4, <2>1, LocalChangeKnown
<1>6. jobs' \in [Tabs -> Seq(KnownJobs(undone))]
    BY <1>1 DEF Remembered
<1> QED BY <1>1, <1>2, <1>3, <1>4, <1>5, <1>6, TabFields, TabRemembers

LEMMA ReceiveUpdateRemembers ==
    ASSUME Typed, Remembered, NEW t \in Tabs, ReceiveUpdate(t)
    PROVE  Remembered'
<1> DEFINE me == tab[t]
           m == Head(down[t])
           imports == ~m.snapshot \/ ~me.leader \/ me.awaiting
           doc == IF imports THEN Merge(me.doc, m.doc) ELSE me.doc
           ready == imports /\ m.snapshot /\ me.awaiting
           r == [tab[t] EXCEPT
                    !.doc = doc,
                    !.canvas = IF ready \/ (me.visible /\ doc # me.doc)
                               THEN Content(doc) ELSE me.canvas,
                    !.awaiting = me.awaiting /\ ~ready, !.trusted = me.trusted \/ ready,
                    !.fresh = me.fresh /\ ~ready, !.reload = me.reload /\ ~ready,
                    !.retry = me.retry /\ ~ready,
                    !.rebroadcast = me.rebroadcast /\ ~(ready /\ me.leader)]
           answers == ready /\ me.leader /\ me.rebroadcast
<1>1. /\ Deliver(t, "update") /\ tab' = [tab EXCEPT ![t] = r]
      /\ down' = [down EXCEPT ![t] = Tail(@)] /\ jobs' = jobs /\ undone' = undone
      /\ up' = up \cup {g \in {Graph(Sid(t), doc, TRUE)} : answers}
    BY DEF ReceiveUpdate, past
<1>2. /\ Sid(t) \in Sids /\ down' \in KnownQueues
      /\ m \in KnownToTab(undone) /\ m.kind = "update"
    BY <1>1, DeliverType, TailKnown
<1>3. doc \in KnownDocs(undone)
    <2>1. m.doc \in KnownDocs(undone)
        BY <1>2 DEF KnownToTab
    <2>2. me.doc \in KnownDocs(undone)
        BY DEF Remembered
    <2> QED BY <2>1, <2>2, MergeKnown
<1>4. r.doc = doc
    BY TabFields DEF TabStates
<1> HIDE DEF doc, answers, r
<1>5. up' \subseteq KnownToServer(undone)
    BY <1>1, <1>2, <1>3, ToServerKnown DEF Remembered
<1>6. jobs' \in [Tabs -> Seq(KnownJobs(undone))]
    BY <1>1 DEF Remembered
<1> QED BY <1>1, <1>2, <1>3, <1>4, <1>5, <1>6, TabFields, TabRemembers

LEMMA ReceiveResyncRemembers ==
    ASSUME Typed, Remembered, NEW t \in Tabs, ReceiveResync(t)
    PROVE  Remembered'
<1>1. /\ Sid(t) \in Sids /\ down' \in KnownQueues /\ undone' = undone
      /\ jobs' \in [Tabs -> Seq(KnownJobs(undone))]
    BY DeliverType, TailKnown DEF ReceiveResync, past, Remembered
<1>2. Seeded(t) \in KnownDocs(undone) /\ tab[t].doc \in KnownDocs(undone)
    BY SeededKnown
<1>3. CASE ~tab[t].trusted \/ tab[t].reload
    <2> DEFINE r == [tab[t] EXCEPT !.rebroadcast = TRUE]
    <2>1. tab' = [tab EXCEPT ![t] = r] /\ up' \subseteq KnownToServer(undone)
        BY <1>3 DEF ReceiveResync, Remembered
    <2>2. r.doc = tab[t].doc
        BY TabFields DEF TabStates
    <2> HIDE DEF r
    <2> QED BY <1>1, <1>2, <2>1, <2>2, TabFields, TabRemembers
<1>4. CASE ~(~tab[t].trusted \/ tab[t].reload)
    <2> DEFINE r == [tab[t] EXCEPT !.doc = Seeded(t), !.rebroadcast = FALSE]
    <2>1. /\ tab' = [tab EXCEPT ![t] = r]
          /\ up' = up \cup LocalChange(t, Seeded(t)) \cup {Graph(Sid(t), Seeded(t), TRUE)}
        BY <1>4 DEF ReceiveResync
    <2>2. r.doc = Seeded(t)
        BY TabFields DEF TabStates
    <2>3. up' \subseteq KnownToServer(undone)
        BY <1>1, <1>2, <2>1, LocalChangeKnown, ToServerKnown DEF Remembered
    <2> HIDE DEF r
    <2> QED BY <1>1, <1>2, <2>1, <2>2, <2>3, TabFields, TabRemembers
<1> QED BY <1>3, <1>4

\* A directed save holds the items of the tab that asks, but for removed ones.
LEMMA ReceiveSyncRemembers ==
    ASSUME Typed, Remembered, NEW t \in Tabs, ReceiveSync(t)
    PROVE  Remembered'
<1> DEFINE m == Head(down[t])
           doc == Merge(tab[t].doc, m.doc)
           r == IF CanPersist(t) THEN [tab[t] EXCEPT !.doc = doc, !.canvas = Content(doc)]
                ELSE tab[t]
           taken == [down EXCEPT ![t] = Tail(@)]
           job == Job(t, Content(doc), Content(m.doc), m.from)
<1>0. TypeOK
    BY DEF Typed
<1>1. /\ taken \in KnownQueues /\ m \in KnownToTab(undone) /\ m.kind = "sync"
      /\ m \in ToTab
    BY DeliverType, TailKnown DEF ReceiveSync
<1>2. m.doc \in KnownDocs(undone) /\ tab[t].doc \in KnownDocs(undone) /\ m.from \in Sids
    BY <1>1, ToTabFields DEF KnownToTab, Remembered
<1>3. doc \in KnownDocs(undone) /\ Content(m.doc) \subseteq Content(doc) \cup undone
    BY <1>2, MergeKnown
<1>4. job \in KnownJobs(undone)
    <2>1. job \in Jobs
        BY <1>2, ContentType, JobType
    <2>2. job.items = Content(doc) /\ job.wanted = Content(m.doc)
        BY DEF Job
    <2> HIDE DEF job, doc, m
    <2> QED BY <1>3, <2>1, <2>2 DEF KnownJobs
<1>5. tab' = [tab EXCEPT ![t] = r]
    <2>1. tab = [tab EXCEPT ![t] = tab[t]]
        BY TabFields
    <2> QED BY <2>1 DEF ReceiveSync
<1>6. r.doc \in KnownDocs(undone)
    <2>1. CASE CanPersist(t)
        <3>1. r.doc = doc
            BY <2>1, TabFields DEF TabStates
        <3> QED BY <1>3, <3>1
    <2>2. CASE ~CanPersist(t)
        BY <1>2, <2>2
    <2> QED BY <2>1, <2>2
<1>7. \/ jobs' = [jobs EXCEPT ![t] = Append(@, job)] /\ down' = taken
      \/ down' = Emit(taken, {m.from}, Ack(FALSE, {})) /\ jobs' = jobs
    BY DEF ReceiveSync
<1>8. Ack(FALSE, {}) \in KnownToTab(undone)
    BY DEF Ack, ToTab, KnownToTab
<1> HIDE DEF m, doc, taken, job, r
<1>9. down' \in KnownQueues
    BY <1>1, <1>7, <1>8, EmitKnown
<1>10. jobs' \in [Tabs -> Seq(KnownJobs(undone))]
    <2>1. jobs \in [Tabs -> Seq(KnownJobs(undone))] /\ jobs[t] \in Seq(KnownJobs(undone))
        BY DEF Remembered
    <2>2. Append(jobs[t], job) \in Seq(KnownJobs(undone))
        BY <1>4, <2>1
    <2> QED BY <1>7, <2>1, <2>2
<1>11. up' \subseteq KnownToServer(undone) /\ undone' = undone
    BY DEF ReceiveSync, past, Remembered
<1> QED BY <1>5, <1>6, <1>9, <1>10, <1>11, TabFields, TabRemembers

\* Steps that change no document.
LEMMA DocsKept ==
    ASSUME Remembered, \A u \in Tabs : tab'[u].doc = tab[u].doc, undone' = undone,
           up' \subseteq KnownToServer(undone), down' \in KnownQueues,
           jobs' \in [Tabs -> Seq(KnownJobs(undone))]
    PROVE  Remembered'
BY DEF Remembered, KnownQueues

LEMMA ReceiveAckRemembers ==
    ASSUME Typed, Remembered, NEW t \in Tabs, ReceiveAck(t)
    PROVE  Remembered'
<1>1. down' \in KnownQueues /\ jobs' = jobs /\ up' = up /\ undone' = undone
    BY TailKnown DEF ReceiveAck, past
<1>2. \A u \in Tabs : tab'[u].doc = tab[u].doc
    BY TabFields DEF ReceiveAck, TabStates
<1> QED BY <1>1, <1>2, DocsKept DEF Remembered

LEMMA QuietTabRemembers ==
    ASSUME Typed, Remembered, NEW t \in Tabs,
           \/ Disconnect(t) \/ ReadDraft(t) \/ Hide(t) \/ Show(t)
           \/ RefreshStarts(t) \/ RefreshHash(t) \/ RetryResync(t)
    PROVE  Remembered'
<1>1. \A u \in Tabs : tab'[u].doc = tab[u].doc
    <2>1. CASE Disconnect(t)
        BY <2>1, TabFields DEF Disconnect, TabStates
    <2>2. CASE ReadDraft(t)
        BY <2>2, TabFields DEF ReadDraft, TabStates
    <2>3. CASE RefreshStarts(t)
        BY <2>3, TabFields DEF RefreshStarts, TabStates
    <2>4. CASE RefreshHash(t)
        BY <2>4, TabFields DEF RefreshHash, TabStates
    <2>5. CASE Hide(t)
        BY <2>5, TabFields DEF Hide, TabStates
    <2>6. CASE Show(t)
        BY <2>6, TabFields DEF Show, TabStates
    <2>7. CASE RetryResync(t)
        BY <2>7 DEF RetryResync
    <2> QED BY <2>1, <2>2, <2>3, <2>4, <2>5, <2>6, <2>7
<1>2. undone' = undone /\ jobs' = jobs
    BY DEF Disconnect, ReadDraft, Hide, Show, RefreshStarts, RefreshHash, RetryResync, past
<1>3. up' \subseteq KnownToServer(undone)
    <2>1. CASE RetryResync(t)
        BY <2>1, SidType, ToServerKnown, EmptyKnown DEF RetryResync, Retries
    <2>2. CASE up' = up
        BY <2>2 DEF Remembered
    <2> QED BY <2>1, <2>2
        DEF Disconnect, ReadDraft, Hide, Show, RefreshStarts, RefreshHash
<1>4. down' \in KnownQueues
    <2>1. down' = [down EXCEPT ![t] = <<>>] \/ down' = down
        BY DEF Disconnect, ReadDraft, Hide, Show, RefreshStarts, RefreshHash, RetryResync
    <2>2. <<>> \in Seq(KnownToTab(undone))
        OBVIOUS
    <2> QED BY <2>1, <2>2 DEF Remembered, KnownQueues
<1> QED BY <1>1, <1>2, <1>3, <1>4, DocsKept DEF Remembered

LEMMA ConnectRemembers ==
    ASSUME Typed, Remembered, NEW t \in Tabs, Connect(t)
    PROVE  Remembered'
<1> DEFINE s == <<t, tab[t].connection + 1>>
           r == [tab[t] EXCEPT !.up = TRUE, !.connection = tab[t].connection + 1,
                     !.fresh = tab[t].connection > 0, !.doc = Empty, !.rebroadcast = FALSE,
                     !.load = "none", !.loaded = {}, !.awaiting = FALSE, !.trusted = FALSE]
<1>1. /\ tab' = [tab EXCEPT ![t] = r] /\ up' = up \cup {Join(s)}
      /\ down' = [down EXCEPT ![t] = <<>>] /\ jobs' = jobs /\ undone' = undone
    BY DEF Connect, past
<1>2. r.doc = Empty
    BY TabFields DEF TabStates
<1>3. s \in Sids
    BY TabFields, Bounds DEF Connect, MayDisturb, Sids
<1> HIDE DEF r, s
<1>4. up' \subseteq KnownToServer(undone) /\ r.doc \in KnownDocs(undone)
    BY <1>1, <1>2, <1>3, EmptyKnown, ToServerKnown DEF Remembered
<1>5. down' \in KnownQueues /\ jobs' \in [Tabs -> Seq(KnownJobs(undone))]
    BY <1>1 DEF Remembered, KnownQueues
<1> QED BY <1>1, <1>4, <1>5, TabFields, TabRemembers

\* A reload is the one step that removes items; it says which.
LEMMA ReplaceGraphRemembers ==
    ASSUME Typed, Remembered, NEW t \in Tabs, ReplaceGraph(t)
    PROVE  Remembered'
<1> DEFINE me == tab[t]
           current == me.leader /\ me.reload /\ ~me.trusted
           doc == SetItems(me.doc, me.loaded)
<1>1. CASE current
    <2> DEFINE r == [tab[t] EXCEPT !.load = "none", !.canvas = me.loaded,
                        !.hash = me.loaded, !.doc = doc, !.trusted = TRUE,
                        !.awaiting = FALSE, !.fresh = FALSE, !.reload = FALSE,
                        !.retry = FALSE, !.rebroadcast = FALSE]
    <2>1. /\ tab' = [tab EXCEPT ![t] = r]
          /\ undone' = undone \cup (Content(me.doc) \ me.loaded)
          /\ up' = up \cup LocalChange(t, doc)
                      \cup {g \in {Graph(Sid(t), doc, TRUE)} : me.rebroadcast}
          /\ down' = down /\ jobs' = jobs
        BY <1>1 DEF ReplaceGraph
    <2>2. doc \in KnownDocs(undone')
        BY <2>1, SetItemsKnown DEF Remembered
    <2>3. Sid(t) \in Sids
        BY <1>1, TabFields, SidType
    <2>4. r.doc = doc
        BY TabFields DEF TabStates
    <2> HIDE DEF r, doc
    <2>5. /\ KnownDocs(undone) \subseteq KnownDocs(undone')
          /\ KnownToServer(undone) \subseteq KnownToServer(undone')
          /\ KnownToTab(undone) \subseteq KnownToTab(undone')
          /\ KnownJobs(undone) \subseteq KnownJobs(undone')
        BY <2>1, KnownGrows
    <2>6. \A u \in Tabs : tab'[u].doc \in KnownDocs(undone')
        <3>1. \A u \in Tabs : tab'[u] = IF u = t THEN r ELSE tab[u]
            BY <2>1, TabFields
        <3> QED BY <2>2, <2>4, <2>5, <3>1 DEF Remembered
    <2>7. up' \subseteq KnownToServer(undone')
        <3>1. Graph(Sid(t), doc, TRUE) \in KnownToServer(undone')
            BY <2>2, <2>3, ToServerKnown
        <3>2. LocalChange(t, doc) \subseteq KnownToServer(undone')
            BY <2>2, <2>3, LocalChangeKnown
        <3> HIDE DEF me
        <3> QED BY <2>1, <2>5, <3>1, <3>2 DEF Remembered
    <2>8. /\ down' \in [Tabs -> Seq(KnownToTab(undone'))]
          /\ jobs' \in [Tabs -> Seq(KnownJobs(undone'))]
        <3>1. /\ Seq(KnownToTab(undone)) \subseteq Seq(KnownToTab(undone'))
              /\ Seq(KnownJobs(undone)) \subseteq Seq(KnownJobs(undone'))
            BY <2>5
        <3> QED BY <2>1, <3>1 DEF Remembered
    <2> QED BY <2>6, <2>7, <2>8 DEF Remembered
<1>2. CASE ~current
    <2>1. /\ tab' = [tab EXCEPT ![t].load = "none"]
          /\ UNCHANGED <<undone, up, down, jobs>>
        BY <1>2 DEF ReplaceGraph, past
    <2>2. \A u \in Tabs : tab'[u].doc = tab[u].doc
        BY <2>1, TabFields DEF TabStates
    <2> QED BY <2>1, <2>2, DocsKept DEF Remembered, KnownQueues
<1> QED BY <1>1, <1>2

LEMMA EditRemembers ==
    ASSUME Typed, Remembered, NEW t \in Tabs, NEW i \in Items, Edit(t, i)
    PROVE  Remembered'
<1> DEFINE items == Content(Seeded(t)) \cup {i}
           doc == SetItems(Seeded(t), items)
           r == [tab[t] EXCEPT !.canvas = tab[t].canvas \cup {i}, !.doc = doc]
<1>1. /\ tab[t].up /\ tab' = [tab EXCEPT ![t] = r] /\ undone' = undone
      /\ up' = up \cup LocalChange(t, doc) /\ down' = down /\ jobs' = jobs
    BY DEF Edit, past
<1>2. doc \in KnownDocs(undone)
    BY SeededKnown, SetMoreKnown
<1>3. r.doc = doc
    BY TabFields DEF TabStates
<1> HIDE DEF doc, r
<1>4. up' \subseteq KnownToServer(undone)
    BY <1>1, <1>2, SidType, LocalChangeKnown DEF Remembered
<1>5. down' \in KnownQueues /\ jobs' \in [Tabs -> Seq(KnownJobs(undone))]
    BY <1>1 DEF Remembered, KnownQueues
<1> QED BY <1>1, <1>2, <1>3, <1>4, <1>5, TabFields, TabRemembers

LEMMA CallSaveRemembers ==
    ASSUME Typed, Remembered, NEW t \in Tabs, CallSave(t)
    PROVE  Remembered'
<1> DEFINE job == Job(t, tab[t].canvas, {}, NoSid)
<1>1. tab[t].up /\ UNCHANGED <<tab, down, undone>>
    BY TabFields DEF CallSave, CanPersist, past
<1>2. job \in KnownJobs(undone)
    <2>1. job \in Jobs
        BY TabFields, JobType
    <2>2. job.wanted = {}
        BY DEF Job
    <2> HIDE DEF job
    <2> QED BY <2>1, <2>2 DEF KnownJobs
<1>3. jobs' = [jobs EXCEPT ![t] = Append(jobs[t], job)] \/ jobs' = jobs
    BY DEF CallSave
<1> HIDE DEF job
<1>4. jobs' \in [Tabs -> Seq(KnownJobs(undone))]
    <2>1. jobs \in [Tabs -> Seq(KnownJobs(undone))] /\ jobs[t] \in Seq(KnownJobs(undone))
        BY DEF Remembered
    <2>2. Append(jobs[t], job) \in Seq(KnownJobs(undone))
        BY <1>2, <2>1
    <2> QED BY <1>3, <2>1, <2>2
<1>5. up' \subseteq KnownToServer(undone)
    <2>1. SyncRequest(Sid(t), tab[t].doc) \in KnownToServer(undone)
        BY <1>1, SidType, ToServerKnown DEF Remembered
    <2> QED BY <2>1 DEF CallSave, Remembered
<1> QED BY <1>1, <1>4, <1>5, DocsKept DEF Remembered, KnownQueues

LEMMA SaveDraftRemembers ==
    ASSUME Typed, Remembered, NEW t \in Tabs, SaveDraft(t)
    PROVE  Remembered'
<1> DEFINE job == Head(jobs[t])
           accepted == job.base = draft
           tail == Tail(jobs[t])
           rest == [j \in DOMAIN tail |-> [tail[j] EXCEPT !.base = job.items]]
           dropped == {rest[j].for : j \in DOMAIN rest}
           answered == Emit(down, {job.for}, Ack(accepted, job.items))
<1>1. jobs[t] # <<>> /\ UNCHANGED <<up, undone>>
    BY DEF SaveDraft, past
<1>2. \/ jobs' = [jobs EXCEPT ![t] = rest] /\ down' = answered
      \/ /\ jobs' = [jobs EXCEPT ![t] = <<>>]
         /\ down' = Emit(answered, dropped, Ack(FALSE, {}))
    BY DEF SaveDraft
<1>3. jobs[t] \in Seq(KnownJobs(undone))
    BY DEF Remembered
<1>4. job \in KnownJobs(undone) /\ tail \in Seq(KnownJobs(undone))
    BY <1>1, <1>3
<1>5. job.items \subseteq Items
    BY <1>4 DEF Jobs, KnownJobs
<1>6. \A u \in Tabs : tab'[u].doc = tab[u].doc
    BY TabFields DEF SaveDraft, TabStates
<1>7. answered \in KnownQueues
    <2>1. accepted \in BOOLEAN
        OBVIOUS
    <2> HIDE DEF accepted, job
    <2>2. Ack(accepted, job.items) \in KnownToTab(undone)
        BY <1>5, <2>1 DEF Ack, ToTab, KnownToTab
    <2> QED BY <2>2, EmitKnown DEF Remembered, KnownQueues
<1> HIDE DEF job, tail
<1>8. rest \in Seq(KnownJobs(undone))
    <2>1. \A q \in KnownJobs(undone) : [q EXCEPT !.base = job.items] \in KnownJobs(undone)
        BY <1>5 DEF Jobs, KnownJobs
    <2>2. DOMAIN tail = 1 .. Len(tail) /\ Len(tail) \in Nat
          /\ \A j \in DOMAIN tail : tail[j] \in KnownJobs(undone)
        BY <1>4
    <2>3. rest \in [1 .. Len(tail) -> KnownJobs(undone)]
        BY <2>1, <2>2
    <2> QED BY <2>2, <2>3
<1> HIDE DEF rest, answered, dropped
<1>9. Ack(FALSE, {}) \in KnownToTab(undone)
    BY DEF Ack, ToTab, KnownToTab
<1>10. down' \in KnownQueues
    BY <1>2, <1>7, <1>9, EmitKnown
<1>11. jobs' \in [Tabs -> Seq(KnownJobs(undone))]
    <2>1. <<>> \in Seq(KnownJobs(undone))
        OBVIOUS
    <2>2. jobs' = [jobs EXCEPT ![t] = rest] \/ jobs' = [jobs EXCEPT ![t] = <<>>]
        BY <1>2
    <2> QED BY <1>8, <2>1, <2>2 DEF Remembered
<1> QED BY <1>1, <1>6, <1>10, <1>11, DocsKept DEF Remembered

LEMMA InitRemembers == Init => Remembered
BY EmptyKnown DEF Init, Remembered

LEMMA StepRemembers == Typed /\ Remembered /\ [Next]_vars => Remembered'
<1> SUFFICES ASSUME Typed, Remembered, [Next]_vars PROVE Remembered'
    OBVIOUS
<1>1. CASE UNCHANGED vars
    BY <1>1 DEF Remembered, vars, past
<1>2. CASE Next
    <2>1. PICK t \in Tabs :
              \/ Connect(t) \/ Disconnect(t)
              \/ Server(t) \/ Receive(t)
              \/ RetryResync(t) \/ ReadDraft(t) \/ ReplaceGraph(t)
              \/ \E i \in Items : Edit(t, i)
              \/ Hide(t) \/ Show(t)
              \/ CallSave(t) \/ SaveDraft(t)
              \/ RefreshStarts(t) \/ RefreshHash(t)
        BY <1>2 DEF Next
    <2>2. CASE Server(t)
        <3>1. CASE \E m \in {m \in up : m.sid[1] = t} :
                      JoinSession(m.sid) \/ Refuse(m) \/ RelayGraph(m) \/ RelayResync(m)
                      \/ RelaySync(m)
            <4>1. PICK m \in up : JoinSession(m.sid) \/ Refuse(m) \/ RelayGraph(m)
                                  \/ RelayResync(m) \/ RelaySync(m)
                BY <3>1
            <4>2. m.sid \in Sids
                BY ToServerFields DEF Typed, TypeOK
            <4>3. CASE JoinSession(m.sid)
                BY <4>2, <4>3, RoomRemembers
            <4> QED BY <4>1, <4>3, RelayRemembers
        <3>2. CASE \E s \in Sids, b \in BOOLEAN : s[1] = t /\ JoinAnswer(s, b)
            BY <3>2, RoomRemembers
        <3>3. CASE \E s \in {s \in Sids : s[1] = t} :
                      \/ ServerDisconnects(s) \/ RefuseView(s)
                      \/ \E n \in DOMAIN views[s] : RelayView(s, n)
            <4>1. PICK s \in Sids : \/ ServerDisconnects(s) \/ RefuseView(s)
                                    \/ \E n \in DOMAIN views[s] : RelayView(s, n)
                BY <3>3
            <4>2. CASE ServerDisconnects(s) \/ RefuseView(s)
                <5>1. TRUE \in BOOLEAN
                    OBVIOUS
                <5> QED BY <4>2, <5>1, RoomRemembers
            <4> QED BY <4>1, <4>2, RelayViewRemembers
        <3> QED BY <2>2, <3>1, <3>2, <3>3 DEF Server
    <2>3. CASE Receive(t)
        BY <2>3, ReceiveStatusRemembers, ReceiveUpdateRemembers, ReceiveResyncRemembers,
           ReceiveSyncRemembers, ReceiveAckRemembers DEF Receive
    <2>4. CASE \/ Disconnect(t) \/ ReadDraft(t) \/ Hide(t) \/ Show(t)
               \/ RefreshStarts(t) \/ RefreshHash(t) \/ RetryResync(t)
        BY <2>4, QuietTabRemembers
    <2>5. CASE Connect(t) \/ ReplaceGraph(t) \/ \E i \in Items : Edit(t, i)
        BY <2>5, ConnectRemembers, ReplaceGraphRemembers, EditRemembers
    <2>6. CASE CallSave(t) \/ SaveDraft(t)
        BY <2>6, CallSaveRemembers, SaveDraftRemembers
    <2> QED BY <2>1, <2>2, <2>3, <2>4, <2>5, <2>6
<1> QED BY <1>1, <1>2

\* Only a save takes a job from the queue of its tab.
LEMMA SavesShorten ==
    ASSUME Typed, Next, NEW t \in Tabs, Len(jobs'[t]) < Len(jobs[t])
    PROVE  SaveDraft(t)
<1>1. jobs \in [Tabs -> Seq(Jobs)] /\ \A u \in Tabs : Len(jobs[u]) \in Nat
    BY TabFields
<1>2. jobs' # jobs
    BY <1>1
<1>3. PICK u \in Tabs : ReceiveSync(u) \/ CallSave(u) \/ SaveDraft(u)
    <2>1. PICK u \in Tabs :
              \/ Connect(u) \/ Disconnect(u)
              \/ Server(u) \/ Receive(u)
              \/ RetryResync(u) \/ ReadDraft(u) \/ ReplaceGraph(u)
              \/ \E i \in Items : Edit(u, i)
              \/ Hide(u) \/ Show(u)
              \/ CallSave(u) \/ SaveDraft(u)
              \/ RefreshStarts(u) \/ RefreshHash(u)
        BY DEF Next
    <2>2. Server(u) => jobs' = jobs
        BY DEF Server, JoinSession, Refuse, RelayGraph, RelayResync, RelaySync, JoinAnswer,
               ServerDisconnects, RefuseView, RelayView
    <2>3. Receive(u) => jobs' = jobs \/ ReceiveSync(u)
        BY DEF Receive, ReceiveStatus, ReceiveUpdate, ReceiveResync, ReceiveAck
    <2>4. \/ Connect(u) \/ Disconnect(u) \/ RetryResync(u) \/ ReadDraft(u) \/ ReplaceGraph(u)
          \/ Hide(u) \/ Show(u) \/ RefreshStarts(u) \/ RefreshHash(u)
          \/ \E i \in Items : Edit(u, i)
          => jobs' = jobs
        BY DEF Connect, Disconnect, RetryResync, ReadDraft, ReplaceGraph, Edit, Hide, Show,
               RefreshStarts, RefreshHash
    <2> QED BY <1>2, <2>1, <2>2, <2>3, <2>4
<1>4. CASE SaveDraft(u)
    <2>1. PICK q : jobs' = [jobs EXCEPT ![u] = q]
        BY <1>4 DEF SaveDraft
    <2>2. u = t
        BY <1>1, <2>1
    <2> QED BY <1>4, <2>2
<1>5. CASE ReceiveSync(u) \/ CallSave(u)
    <2>1. \/ jobs' = jobs
          \/ \E job : jobs' = [jobs EXCEPT ![u] = Append(jobs[u], job)]
        BY <1>5 DEF ReceiveSync, CallSave
    <2>2. PICK job : jobs' = [jobs EXCEPT ![u] = Append(jobs[u], job)]
        BY <1>2, <2>1
    <2>3. u = t /\ jobs'[t] = Append(jobs[t], job)
        BY <1>1, <2>2
    <2>4. Len(jobs'[t]) = Len(jobs[t]) + 1
        BY <1>1, <2>3
    <2> QED BY <1>1, <2>4
<1> QED BY <1>3, <1>4, <1>5

\* A save that is acknowledged holds all that the tab that asked for it had, but
\* for what a reload has removed: a directed save merges the request into the
\* document of its tab and posts the result, and the accepted graph is the draft
\* (doSyncWorkflowDraft, executeDirectedSave, sync_draft_workflow).
THEOREM AcknowledgedSavesCover == Spec => AckCoversRequest
<1>1. Typed /\ Remembered /\ [Next]_vars =>
          [\A t \in Tabs : Len(jobs'[t]) < Len(jobs[t]) /\ Head(jobs[t]).base = draft =>
              Head(jobs[t]).wanted \subseteq draft' \cup undone]_vars
    <2> SUFFICES ASSUME Typed, Remembered, Next, NEW t \in Tabs,
                        Len(jobs'[t]) < Len(jobs[t]), Head(jobs[t]).base = draft
                 PROVE  Head(jobs[t]).wanted \subseteq draft' \cup undone
        OBVIOUS
    <2>1. SaveDraft(t)
        BY SavesShorten
    <2>2. jobs[t] # <<>> /\ draft' = Head(jobs[t]).items
        BY <2>1 DEF SaveDraft
    <2>3. jobs[t] \in Seq(KnownJobs(undone))
        BY DEF Remembered
    <2>4. Head(jobs[t]) \in KnownJobs(undone)
        BY <2>2, <2>3
    <2> QED BY <2>2, <2>4 DEF KnownJobs
<1>2. Spec => [](Typed /\ Remembered)
    BY InitTyped, StepTyped, InitRemembers, StepRemembers, PTL DEF Spec
<1> QED BY <1>1, <1>2, PTL DEF Spec, AckCoversRequest

-----------------------------------------------------------------------------
(* The server learns which tabs are hidden, and no tab waits in vain.        *)

HasStatus(queue) == \E k \in DOMAIN queue : queue[k].kind = "status"

\* The answer to a join of tab t is still to come, and with it a report.
AnswerDue(t) ==
    (\E b \in BOOLEAN : <<Sid(t), b>> \in joining) \/ HasStatus(down[t])

\* A connected tab has a session or has asked for one, and what it has last
\* reported, or what the session says, is so, unless the tab will report again.
Informed(t) ==
    tab[t].up =>
        /\ Sid(t) \in sockets
        /\ Sid(t) \in DOMAIN session \/ Join(Sid(t)) \in up
        /\ views[Sid(t)] # <<>> => Last(views[Sid(t)]) = tab[t].visible
        /\ views[Sid(t)] = <<>> /\ Sid(t) \in DOMAIN session =>
               session[Sid(t)].active = tab[t].visible \/ AnswerDue(t)

\* Nothing is known of connections to come.
NoFuture ==
    \A s \in Sids : s[2] > tab[s[1]].connection =>
        s \notin sockets /\ s \notin DOMAIN session /\ views[s] = <<>>

Reporting == NoFuture /\ \A t \in Tabs : Informed(t)

\* A leader that is not trusted is reloading; one that waits without a timer has been
\* interrupted in that; every other one that is not trusted has a timer, or will
\* set it when its join is answered.
Asked(t) ==
    /\ tab[t].leader /\ ~tab[t].trusted => tab[t].reload /\ tab[t].load # "none"
    /\ tab[t].awaiting /\ ~tab[t].retry => tab[t].reload \/ tab[t].trusted
    /\ /\ tab[t].up /\ Sid(t) \in DOMAIN session
       /\ ~tab[t].trusted /\ ~tab[t].leader /\ ~tab[t].reload
       => (tab[t].awaiting /\ tab[t].retry) \/ AnswerDue(t)

Asking == \A t \in Tabs : Asked(t)

LEMMA StatusAppended ==
    ASSUME NEW q \in Seq(ToTab), NEW m \in ToTab, HasStatus(q) \/ m.kind = "status"
    PROVE  HasStatus(Append(q, m))
<1>1. Len(q) \in Nat /\ DOMAIN Append(q, m) = 1 .. Len(q) + 1
      /\ Append(q, m)[Len(q) + 1] = m /\ Len(q) + 1 \in 1 .. Len(q) + 1
      /\ \A k \in 1 .. Len(q) : Append(q, m)[k] = q[k] /\ k \in 1 .. Len(q) + 1
      /\ DOMAIN q = 1 .. Len(q)
    OBVIOUS
<1>2. CASE m.kind = "status"
    BY <1>1, <1>2 DEF HasStatus
<1>3. CASE HasStatus(q)
    BY <1>1, <1>3 DEF HasStatus
<1> QED BY <1>2, <1>3

LEMMA StatusNotTaken ==
    ASSUME NEW q \in Seq(ToTab), q # <<>>, HasStatus(q), Head(q).kind # "status"
    PROVE  HasStatus(Tail(q))
<1>1. PICK k \in 1 .. Len(q) : q[k].kind = "status"
    BY DEF HasStatus
<1>2. k # 1 /\ Len(q) \in Nat /\ k \in Nat
    BY <1>1
<1>3. k - 1 \in 1 .. Len(q) - 1 /\ Tail(q)[k - 1] = q[k]
    BY <1>2
<1>4. DOMAIN Tail(q) = 1 .. Len(q) - 1
    OBVIOUS
<1> QED BY <1>1, <1>3, <1>4 DEF HasStatus

LEMMA EmitKeepsStatus ==
    ASSUME NEW queues \in Queues, NEW sids, NEW message \in ToTab, NEW t \in Tabs,
           HasStatus(queues[t])
    PROVE  HasStatus(Emit(queues, sids, message)[t])
<1>1. queues[t] \in Seq(ToTab)
    BY DEF Queues
<1>2. HasStatus(Append(queues[t], message))
    BY <1>1, StatusAppended
<1> QED BY <1>2 DEF Emit

LEMMA StatusEmitted ==
    ASSUME NEW queues \in Queues, NEW sids, NEW message \in ToTab, NEW t \in Tabs,
           message.kind = "status", tab[t].up, Sid(t) \in sids
    PROVE  HasStatus(Emit(queues, sids, message)[t])
<1>1. queues[t] \in Seq(ToTab)
    BY DEF Queues
<1>2. HasStatus(Append(queues[t], message))
    BY <1>1, StatusAppended
<1> QED BY <1>2 DEF Emit

LEMMA AnnounceKeepsStatus ==
    ASSUME NEW queues \in Queues, NEW sids, NEW new, NEW t \in Tabs, HasStatus(queues[t])
    PROVE  HasStatus(Announce(queues, sids, new)[t])
<1> DEFINE isNew == Sid(t) = new
           message == [kind |-> "status", leader |-> isNew]
<1>1. isNew \in BOOLEAN
    OBVIOUS
<1>2. \/ Announce(queues, sids, new)[t] = Append(queues[t], message)
      \/ Announce(queues, sids, new)[t] = queues[t]
    BY DEF Announce
<1> HIDE DEF isNew
<1>3. message \in ToTab
    BY <1>1 DEF ToTab
<1>4. queues[t] \in Seq(ToTab)
    BY DEF Queues
<1> HIDE DEF message
<1>5. HasStatus(Append(queues[t], message))
    BY <1>3, <1>4, StatusAppended
<1> QED BY <1>2, <1>5

LEMMA ToldKeepsStatus ==
    ASSUME TypeOK, NEW s, NEW t \in Tabs, HasStatus(down[t])
    PROVE  HasStatus(Told(s)[t])
BY AnnounceKeepsStatus DEF Told, TypeOK, Queues

\* What the server does, but for handling a report.
LEMMA ServerInforms ==
    ASSUME Typed, Reporting, tab' = tab, views' = views,
           sockets' \subseteq sockets,
           \A s \in DOMAIN session' : s \in DOMAIN session \/ s \in sockets,
           \A t \in Tabs : tab[t].up /\ Sid(t) \in sockets =>
               /\ Sid(t) \in sockets'
               /\ Sid(t) \in DOMAIN session \/ Join(Sid(t)) \in up
                  => Sid(t) \in DOMAIN session' \/ Join(Sid(t)) \in up'
               /\ Sid(t) \in DOMAIN session' =>
                      \/ /\ Sid(t) \in DOMAIN session
                         /\ session'[Sid(t)].active = session[Sid(t)].active
                      \/ \E b \in BOOLEAN : <<Sid(t), b>> \in joining'
               /\ (\E b \in BOOLEAN : <<Sid(t), b>> \in joining) \/ HasStatus(down[t])
                  => (\E b \in BOOLEAN : <<Sid(t), b>> \in joining') \/ HasStatus(down'[t])
    PROVE  Reporting' /\ (Asking => Asking')
<1>1. NoFuture'
    BY DEF Reporting, NoFuture
<1>2. ASSUME NEW t \in Tabs
      PROVE  Informed(t)'
    <2>1. Sid(t)' = Sid(t) /\ Informed(t)
        BY DEF Sid, Reporting
    <2> QED BY <2>1 DEF Informed, AnswerDue
<1>3. ASSUME Asking, NEW t \in Tabs
      PROVE  Asked(t)'
    <2>1. Sid(t)' = Sid(t) /\ Informed(t) /\ Asked(t)
        BY <1>3 DEF Sid, Reporting, Asking
    <2> QED BY <2>1 DEF Informed, Asked, AnswerDue
<1> QED BY <1>1, <1>2, <1>3 DEF Reporting, Asking

LEMMA JoinNames == ASSUME NEW r, NEW s, Join(r) = Join(s) PROVE r = s
<1>1. Join(r).sid = r /\ Join(s).sid = s
    BY DEF Join
<1> QED BY <1>1

LEMMA JoinSessionInforms ==
    ASSUME Typed, Reporting, NEW s \in Sids, JoinSession(s)
    PROVE  Reporting' /\ (Asking => Asking')
<1> DEFINE left == IF Active(leader) THEN session ELSE Without(session, leader)
           joined == [r \in DOMAIN left \cup {s} |->
                         IF r = s THEN [active |-> TRUE] ELSE left[r]]
           new == IF Active(leader) THEN leader ELSE s
           isNew == new = s
<1>0. TypeOK /\ down \in Queues
    BY DEF Typed, TypeOK, Queues
<1>1. /\ s \in sockets /\ session' = joined /\ up' = up \ {Join(s)}
      /\ joining' = joining \cup {<<s, isNew>>}
      /\ tab' = tab /\ views' = views /\ sockets' = sockets
    BY DEF JoinSession
<1>2. down' = down \/ down' = Announce(down, DOMAIN joined, new)
    BY DEF JoinSession
<1>3. /\ DOMAIN left \subseteq DOMAIN session
      /\ \A r \in DOMAIN left : left[r] = session[r]
      /\ \A r \in DOMAIN session : r \in sockets => r \in DOMAIN left
    BY DEF Without, Active
<1>4. isNew \in BOOLEAN
    OBVIOUS
<1> HIDE DEF left, new, isNew
<1>5. DOMAIN joined = DOMAIN left \cup {s} /\ \A r \in DOMAIN left \ {s} : joined[r] = left[r]
    OBVIOUS
<1>6. \A r \in DOMAIN session' : r \in DOMAIN session \/ r \in sockets
    BY <1>1, <1>3, <1>5
<1> HIDE DEF joined
<1>7. ASSUME NEW t \in Tabs, tab[t].up, Sid(t) \in sockets
      PROVE  /\ Sid(t) \in DOMAIN session \/ Join(Sid(t)) \in up
                => Sid(t) \in DOMAIN session' \/ Join(Sid(t)) \in up'
             /\ Sid(t) \in DOMAIN session' =>
                    \/ /\ Sid(t) \in DOMAIN session
                       /\ session'[Sid(t)].active = session[Sid(t)].active
                    \/ \E b \in BOOLEAN : <<Sid(t), b>> \in joining'
             /\ (\E b \in BOOLEAN : <<Sid(t), b>> \in joining) \/ HasStatus(down[t])
                => (\E b \in BOOLEAN : <<Sid(t), b>> \in joining') \/ HasStatus(down'[t])
    <2>1. CASE Sid(t) = s
        BY <1>1, <1>4, <1>5, <2>1
    <2>2. CASE Sid(t) # s
        <3>1. Join(Sid(t)) # Join(s)
            BY <2>2, JoinNames
        <3>2. HasStatus(down[t]) => HasStatus(down'[t])
            BY <1>0, <1>2, AnnounceKeepsStatus
        <3> QED BY <1>1, <1>3, <1>5, <1>7, <2>2, <3>1, <3>2
    <2> QED BY <2>1, <2>2
<1> QED BY <1>1, <1>6, <1>7, ServerInforms

LEMMA JoinAnswerInforms ==
    ASSUME Typed, Reporting, NEW s \in Sids, NEW b \in BOOLEAN, JoinAnswer(s, b)
    PROVE  Reporting' /\ (Asking => Asking')
<1> DEFINE left == [r \in {r \in DOMAIN session : r \in sockets} |-> session[r]]
           answer == [kind |-> "status", leader |-> b]
<1>0. TypeOK /\ down \in Queues /\ answer \in ToTab /\ answer.kind = "status"
    BY DEF Typed, TypeOK, Queues, ToTab
<1>1. /\ session' = left /\ joining' = joining \ {<<s, b>>}
      /\ tab' = tab /\ views' = views /\ sockets' = sockets /\ up' = up
    BY DEF JoinAnswer
<1>2. \/ down' = Emit(down, {s}, answer)
      \/ down' = Emit(Announce(down, DOMAIN left, leader'), {s}, answer)
    BY DEF JoinAnswer
<1>3. /\ DOMAIN left \subseteq DOMAIN session
      /\ \A r \in DOMAIN left : left[r] = session[r]
      /\ \A r \in DOMAIN session : r \in sockets => r \in DOMAIN left
    OBVIOUS
<1> HIDE DEF left, answer
<1>4. Announce(down, DOMAIN left, leader') \in Queues
    BY <1>0, AnnounceType
<1>5. ASSUME NEW t \in Tabs, tab[t].up, Sid(t) \in sockets
      PROVE  /\ Sid(t) \in DOMAIN session \/ Join(Sid(t)) \in up
                => Sid(t) \in DOMAIN session' \/ Join(Sid(t)) \in up'
             /\ Sid(t) \in DOMAIN session' =>
                    \/ /\ Sid(t) \in DOMAIN session
                       /\ session'[Sid(t)].active = session[Sid(t)].active
                    \/ \E c \in BOOLEAN : <<Sid(t), c>> \in joining'
             /\ (\E c \in BOOLEAN : <<Sid(t), c>> \in joining) \/ HasStatus(down[t])
                => (\E c \in BOOLEAN : <<Sid(t), c>> \in joining') \/ HasStatus(down'[t])
    <2>1. HasStatus(down[t]) => HasStatus(down'[t])
        BY <1>0, <1>2, <1>4, EmitKeepsStatus, AnnounceKeepsStatus
    <2>2. Sid(t) = s => HasStatus(down'[t])
        BY <1>0, <1>2, <1>4, <1>5, StatusEmitted
    <2> QED BY <1>1, <1>3, <1>5, <2>1, <2>2
<1> QED BY <1>1, <1>3, <1>5, ServerInforms

LEMMA ServerDisconnectsInforms ==
    ASSUME Typed, Reporting, NEW s \in Sids, ServerDisconnects(s)
    PROVE  Reporting' /\ (Asking => Asking')
<1>0. TypeOK /\ down \in Queues
    BY DEF Typed, TypeOK, Queues
<1>1. /\ session' = Without(session, s) /\ joining' = joining /\ sockets' = sockets \ {s}
      /\ tab' = tab /\ views' = views /\ up' = up \ {Join(s)}
    BY DEF ServerDisconnects
<1>2. down' = down \/ down' = Announce(down, DOMAIN session', leader')
    BY DEF ServerDisconnects
<1>3. /\ DOMAIN session' = DOMAIN session \ {s}
      /\ \A r \in DOMAIN session' : session'[r] = session[r]
    BY <1>1 DEF Without
<1>4. ASSUME NEW t \in Tabs, tab[t].up
      PROVE  Sid(t) # s /\ Join(Sid(t)) # Join(s)
    <2>1. ~tab[s[1]].up \/ Sid(s[1]) # s
        BY DEF ServerDisconnects
    <2>2. Sid(t) # s
        BY <1>4, <2>1 DEF Sid
    <2> QED BY <2>2, JoinNames
<1>5. \A t \in Tabs : HasStatus(down[t]) => HasStatus(down'[t])
    BY <1>0, <1>2, AnnounceKeepsStatus
<1> QED BY <1>1, <1>3, <1>4, <1>5, ServerInforms

LEMMA RelayInforms ==
    ASSUME Typed, Reporting, NEW m \in up,
           Refuse(m) \/ RelayGraph(m) \/ RelayResync(m) \/ RelaySync(m)
    PROVE  Reporting' /\ (Asking => Asking')
<1>0. TypeOK /\ m \in ToServer
    BY DEF Typed, TypeOK
<1>1. m.kind # "join"
    BY DEF Refuse, RelayGraph, RelayResync, RelaySync
<1>2. \A s : Join(s) # m
    <2>1. \A s : Join(s).kind = "join"
        BY DEF Join
    <2> QED BY <1>1, <2>1
<1>3. \A s : Join(s) \in up => Join(s) \in up'
    BY <1>2 DEF Refuse, RelayGraph, RelayResync, RelaySync, Relay
<1>4. session' = session /\ joining' = joining /\ sockets' = sockets /\ tab' = tab /\ views' = views
    BY DEF Refuse, RelayGraph, RelayResync, RelaySync, server
<1>5. ASSUME NEW t \in Tabs, HasStatus(down[t])
      PROVE  HasStatus(down'[t])
    <2>1. /\ Told(m.sid) \in Queues /\ HasStatus(Told(m.sid)[t])
        BY <1>0, <1>5, ToldType, ToldKeepsStatus
    <2>2. CASE Refuse(m)
        BY <1>5, <2>2 DEF Refuse
    <2>3. CASE RelayGraph(m)
        <3>1. [kind |-> "update", doc |-> m.doc, snapshot |-> m.snapshot] \in ToTab
            BY <1>0, <2>3, ToServerFields DEF RelayGraph, ToTab
        <3> QED BY <2>1, <2>3, <3>1, EmitKeepsStatus DEF RelayGraph
    <2>4. CASE RelayResync(m)
        <3>1. [kind |-> "resync"] \in ToTab
            BY DEF ToTab
        <3> QED BY <2>1, <2>4, <3>1, EmitKeepsStatus DEF RelayResync
    <2>5. CASE RelaySync(m)
        <3>1. [kind |-> "sync", from |-> m.sid, doc |-> m.doc] \in ToTab
            BY <1>0, <2>5, ToServerFields DEF RelaySync, ToTab
        <3>2. /\ Announce(Told(m.sid), DOMAIN session, leader') \in Queues
              /\ HasStatus(Announce(Told(m.sid), DOMAIN session, leader')[t])
            BY <2>1, AnnounceType, AnnounceKeepsStatus
        <3> QED BY <2>1, <2>5, <3>1, <3>2, EmitKeepsStatus DEF RelaySync
    <2> QED BY <2>2, <2>3, <2>4, <2>5
<1> QED BY <1>3, <1>4, <1>5, ServerInforms

LEMMA LastOfTail ==
    ASSUME NEW q \in Seq(BOOLEAN), q # <<>>, Tail(q) # <<>>
    PROVE  Last(Tail(q)) = Last(q)
<1>1. Len(q) \in Nat /\ Len(Tail(q)) = Len(q) - 1 /\ Len(Tail(q)) >= 1
    OBVIOUS
<1>2. Tail(q)[Len(q) - 1] = q[Len(q)]
    BY <1>1
<1> QED BY <1>1, <1>2 DEF Last

LEMMA LastOfRest ==
    ASSUME NEW q \in Seq(BOOLEAN), NEW n \in 1 .. Len(q)
    PROVE  /\ SubSeq(q, n + 1, Len(q)) # <<>> => Last(SubSeq(q, n + 1, Len(q))) = Last(q)
           /\ SubSeq(q, n + 1, Len(q)) = <<>> => q[n] = Last(q)
<1> DEFINE rest == SubSeq(q, n + 1, Len(q))
<1>1. Len(q) \in Nat /\ n \in Nat /\ n <= Len(q)
    OBVIOUS
<1>2. CASE n = Len(q)
    <2>1. rest = <<>>
        BY <1>1, <1>2
    <2> QED BY <1>2, <2>1 DEF Last
<1>3. CASE n < Len(q)
    <2>1. rest \in Seq(BOOLEAN) /\ Len(rest) = Len(q) - n /\ Len(rest) >= 1
        BY <1>1, <1>3
    <2>2. rest[Len(q) - n] = q[Len(q)]
        BY <1>1, <1>3
    <2> HIDE DEF rest
    <2>3. rest # <<>>
        BY <2>1
    <2>4. Last(rest) = Last(q)
        BY <2>1, <2>2 DEF Last
    <2> QED BY <1>1, <1>3, <2>3, <2>4 DEF rest
<1> QED BY <1>1, <1>2, <1>3

LEMMA RefuseViewInforms ==
    ASSUME Typed, Reporting, NEW s \in Sids, RefuseView(s)
    PROVE  Reporting' /\ (Asking => Asking')
<1>1. /\ views[s] # <<>> /\ s \notin DOMAIN session
      /\ views' = [views EXCEPT ![s] = Tail(views[s])] /\ up \subseteq up'
      /\ UNCHANGED <<tab, down, sockets, session, joining>>
    BY DEF RefuseView, server
<1>2. views \in [Sids -> Seq(BOOLEAN)]
    BY DEF Typed, TypeOK
<1>3. \A r \in Sids : r # s => views'[r] = views[r]
    BY <1>1, <1>2
<1>4. views'[s] = Tail(views[s])
    BY <1>1, <1>2
<1>5. views'[s] # <<>> => Last(views'[s]) = Last(views[s])
    BY <1>1, <1>2, <1>4, LastOfTail
<1>6. NoFuture'
    BY <1>1, <1>3 DEF Reporting, NoFuture
<1>7. ASSUME NEW t \in Tabs
      PROVE  Informed(t)'
    <2>1. Sid(t)' = Sid(t) /\ Informed(t) /\ (tab[t].up => Sid(t) \in Sids)
        BY <1>1, SidType DEF Sid, Reporting
    <2>2. CASE Sid(t) = s
        BY <1>1, <1>5, <2>1, <2>2 DEF Informed, AnswerDue
    <2>3. CASE Sid(t) # s
        BY <1>1, <1>3, <2>1, <2>3 DEF Informed, AnswerDue
    <2> QED BY <2>2, <2>3
<1>8. Asking => Asking'
    BY <1>1 DEF Asking, Asked, AnswerDue, Sid
<1> QED BY <1>6, <1>7, <1>8 DEF Reporting

LEMMA RelayViewInforms ==
    ASSUME Typed, Reporting, NEW s \in Sids, NEW n \in DOMAIN views[s], RelayView(s, n)
    PROVE  Reporting' /\ (Asking => Asking')
<1>0. TypeOK
    BY DEF Typed
<1>1. views \in [Sids -> Seq(BOOLEAN)] /\ views[s] \in Seq(BOOLEAN) /\ n \in 1 .. Len(views[s])
    BY <1>0 DEF TypeOK
<1>2. /\ s \in DOMAIN session
      /\ views' = [views EXCEPT ![s] = SubSeq(views[s], n + 1, Len(views[s]))]
      /\ session' = [session EXCEPT ![s].active = views[s][n]]
      /\ UNCHANGED <<tab, up, sockets, joining>>
    BY DEF RelayView
<1>3. views'[s] = SubSeq(views[s], n + 1, Len(views[s]))
      /\ \A r \in Sids : r # s => views'[r] = views[r]
    BY <1>1, <1>2
<1>4. /\ views'[s] # <<>> => Last(views'[s]) = Last(views[s])
      /\ views'[s] = <<>> => views[s][n] = Last(views[s])
      /\ views[s] # <<>>
    BY <1>1, <1>3, LastOfRest
<1>5. /\ DOMAIN session' = DOMAIN session /\ session'[s].active = views[s][n]
      /\ \A r \in DOMAIN session : r # s => session'[r] = session[r]
    BY <1>0, <1>2 DEF TypeOK
<1>6. \A t \in Tabs : HasStatus(down[t]) => HasStatus(down'[t])
    <2>1. Told(s) \in Queues /\ \A t \in Tabs : HasStatus(down[t]) => HasStatus(Told(s)[t])
        BY <1>0, ToldType, ToldKeepsStatus
    <2>2. \/ down' = Told(s)
          \/ \E now : down' = Announce(Told(s), DOMAIN now, leader')
        BY DEF RelayView
    <2> QED BY <2>1, <2>2, AnnounceKeepsStatus
<1>7. NoFuture'
    BY <1>2, <1>3, <1>4, <1>5 DEF Reporting, NoFuture
<1>8. ASSUME NEW t \in Tabs
      PROVE  Informed(t)'
    <2>1. Sid(t)' = Sid(t) /\ Informed(t) /\ (tab[t].up => Sid(t) \in Sids)
        BY <1>2, SidType DEF Sid, Reporting
    <2>2. CASE Sid(t) = s
        BY <1>2, <1>4, <1>5, <2>1, <2>2 DEF Informed
    <2>3. CASE Sid(t) # s
        BY <1>2, <1>3, <1>5, <1>6, <2>1, <2>3 DEF Informed, AnswerDue
    <2> QED BY <2>2, <2>3
<1>9. Asking => Asking'
    BY <1>2, <1>5, <1>6 DEF Asking, Asked, AnswerDue, Sid
<1> QED BY <1>7, <1>8, <1>9 DEF Reporting

\* Steps of a tab that neither connect nor report.
LEMMA SilentInforms ==
    ASSUME Typed, Reporting, server' = server, views' = views,
           \A t \in Tabs : /\ tab'[t].connection = tab[t].connection
                           /\ tab'[t].up => tab[t].up
                           /\ tab'[t].visible = tab[t].visible
                           /\ tab'[t].up /\ HasStatus(down[t]) => HasStatus(down'[t]),
           \A s : Join(s) \in up => Join(s) \in up'
    PROVE  Reporting'
<1>1. \A t \in Tabs : Sid(t)' = Sid(t)
    BY DEF Sid
<1>2. sockets' = sockets /\ session' = session /\ joining' = joining
    BY DEF server
<1>3. ASSUME NEW s \in Sids
      PROVE  tab'[s[1]].connection = tab[s[1]].connection
    <2>1. s[1] \in Tabs
        BY DEF Sids
    <2> QED BY <2>1
<1>4. NoFuture'
    BY <1>2, <1>3 DEF Reporting, NoFuture
<1>5. \A t \in Tabs : Informed(t)'
    BY <1>1, <1>2 DEF Informed, AnswerDue, Reporting
<1> QED BY <1>4, <1>5 DEF Reporting

\* A tab that reports is known to be what it says, once the report is handled.
LEMMA ReportInforms ==
    ASSUME Typed, Reporting, NEW t \in Tabs, NEW visible \in BOOLEAN, Report(t, visible),
           server' = server,
           \A u \in Tabs : /\ tab'[u].connection = tab[u].connection
                           /\ tab'[u].up = tab[u].up
                           /\ tab'[u].visible = IF u = t THEN visible ELSE tab[u].visible
                           /\ u # t => (HasStatus(down[u]) => HasStatus(down'[u])),
           \A s : Join(s) \in up => Join(s) \in up'
    PROVE  Reporting'
<1> DEFINE repeats == IF views[Sid(t)] # <<>> THEN Last(views[Sid(t)]) = visible
                      ELSE Sid(t) \in DOMAIN session /\ session[Sid(t)].active = visible
<1>1. \A u \in Tabs : Sid(u)' = Sid(u)
    BY DEF Sid
<1>2. sockets' = sockets /\ session' = session /\ joining' = joining
    BY DEF server
<1>3. views' = IF tab[t].up /\ ~repeats
               THEN [views EXCEPT ![Sid(t)] = Append(views[Sid(t)], visible)] ELSE views
    BY DEF Report
<1>4. views \in [Sids -> Seq(BOOLEAN)] /\ (tab[t].up => Sid(t) \in Sids)
    BY SidType DEF Typed, TypeOK
<1>5. \A s \in Sids : s # Sid(t) => views'[s] = views[s]
    BY <1>3, <1>4
<1>6. ASSUME tab[t].up
      PROVE  /\ views'[Sid(t)] # <<>> => Last(views'[Sid(t)]) = visible
             /\ views'[Sid(t)] = <<>> => Sid(t) \in DOMAIN session
                                         /\ session[Sid(t)].active = visible
    <2>1. CASE repeats
        BY <1>3, <2>1
    <2>2. CASE ~repeats
        <3>1. views'[Sid(t)] = Append(views[Sid(t)], visible) /\ views[Sid(t)] \in Seq(BOOLEAN)
            BY <1>3, <1>4, <1>6, <2>2
        <3>2. Append(views[Sid(t)], visible) # <<>>
              /\ Last(Append(views[Sid(t)], visible)) = visible
            BY <3>1 DEF Last
        <3> QED BY <3>1, <3>2
    <2> QED BY <2>1, <2>2
<1>7. ASSUME NEW s \in Sids, s[2] > tab[s[1]].connection
      PROVE  views'[s] = <<>>
    <2>1. CASE tab[t].up /\ s = Sid(t)
        <3>1. s[1] = t /\ s[2] = tab[t].connection
            BY <2>1 DEF Sid
        <3>2. tab[t].connection \in Nat
            BY TabFields
        <3> QED BY <1>7, <3>1, <3>2
    <2>2. CASE ~(tab[t].up /\ s = Sid(t))
        BY <1>3, <1>4, <1>7, <2>2 DEF Reporting, NoFuture
    <2> QED BY <2>1, <2>2
<1>8. NoFuture'
    <2>1. \A s \in Sids : tab'[s[1]].connection = tab[s[1]].connection
        <3>1. \A s \in Sids : s[1] \in Tabs
            BY DEF Sids
        <3> QED BY <3>1
    <2> QED BY <1>2, <1>7, <2>1 DEF Reporting, NoFuture
<1>9. ASSUME NEW u \in Tabs
      PROVE  Informed(u)'
    <2>1. CASE u = t
        BY <1>1, <1>2, <1>6, <2>1 DEF Informed, Reporting
    <2>2. CASE u # t
        <3>1. Sid(u) # Sid(t)
            BY <2>2 DEF Sid
        <3>2. tab[u].up => views'[Sid(u)] = views[Sid(u)]
            BY <1>5, <3>1, SidType
        <3> QED BY <1>1, <1>2, <2>2, <3>2 DEF Informed, AnswerDue, Reporting
    <2> QED BY <2>1, <2>2
<1> QED BY <1>8, <1>9 DEF Reporting

LEMMA InitReports == Init => Reporting
BY DEF Init, Reporting, NoFuture, Informed

LEMMA ConnectInforms ==
    ASSUME Typed, Reporting, NEW t \in Tabs, Connect(t)
    PROVE  Reporting'
<1> DEFINE next == tab[t].connection + 1
           s == <<t, next>>
           r == [tab[t] EXCEPT !.up = TRUE, !.connection = next,
                     !.fresh = tab[t].connection > 0, !.doc = Empty, !.rebroadcast = FALSE,
                     !.load = "none", !.loaded = {}, !.awaiting = FALSE, !.trusted = FALSE]
<1>1. /\ tab' = [tab EXCEPT ![t] = r] /\ up' = up \cup {Join(s)}
      /\ sockets' = sockets \cup {s} /\ down' = [down EXCEPT ![t] = <<>>]
      /\ UNCHANGED <<views, session, joining>>
    BY DEF Connect
<1>2. tab[t].connection \in Nat /\ next > tab[t].connection
    BY TabFields
<1>3. s \in Sids
    BY TabFields, Bounds DEF Connect, MayDisturb, Sids
<1>4. s[1] = t /\ s[2] = next /\ s \notin DOMAIN session /\ views[s] = <<>>
    BY <1>2, <1>3 DEF Reporting, NoFuture
<1>5. r.connection = next
    BY TabFields DEF TabStates
<1> HIDE DEF r
<1>6. \A u \in Tabs : tab'[u] = IF u = t THEN r ELSE tab[u]
    BY <1>1, TabFields
<1>7. Sid(t)' = s /\ \A u \in Tabs : u # t => Sid(u)' = Sid(u)
    BY <1>5, <1>6 DEF Sid
<1>8. NoFuture'
    <2>1. ASSUME NEW q \in Sids, q[2] > tab'[q[1]].connection
          PROVE  q \notin sockets' /\ q \notin DOMAIN session' /\ views'[q] = <<>>
        <3>1. q[1] \in Tabs /\ q[2] \in Nat
            BY Bounds DEF Sids
        <3>2. q[2] > tab[q[1]].connection /\ q # s
            <4>1. CASE q[1] = t
                <5>1. q[2] > next
                    BY <1>5, <1>6, <2>1, <3>1, <4>1
                <5> QED BY <1>2, <1>4, <3>1, <4>1, <5>1
            <4>2. CASE q[1] # t
                BY <1>4, <1>6, <2>1, <3>1, <4>2
            <4> QED BY <4>1, <4>2
        <3> QED BY <1>1, <3>2 DEF Reporting, NoFuture
    <2> QED BY <2>1 DEF NoFuture
<1> HIDE DEF s
<1>9. ASSUME NEW u \in Tabs
      PROVE  Informed(u)'
    <2>1. CASE u = t
        BY <1>1, <1>4, <1>7, <2>1 DEF Informed
    <2>2. CASE u # t
        <3>1. down'[u] = down[u]
            BY <1>1, <2>2, TabFields DEF Queues
        <3> QED BY <1>1, <1>6, <1>7, <2>2, <3>1 DEF Informed, AnswerDue, Reporting
    <2> QED BY <2>1, <2>2
<1> QED BY <1>8, <1>9 DEF Reporting

\* What a tab takes from its socket, but for a status, leaves the statuses.
LEMMA TakenKeepsStatus ==
    ASSUME Typed, NEW t \in Tabs, NEW kind, kind # "status", Deliver(t, kind), NEW u \in Tabs,
           HasStatus(down[u])
    PROVE  HasStatus([down EXCEPT ![t] = Tail(@)][u])
<1>1. down[u] \in Seq(ToTab) /\ down \in Queues
    BY TabFields DEF Queues
<1>2. CASE u = t
    <2>1. down[t] # <<>> /\ Head(down[t]).kind # "status"
        BY DEF Deliver
    <2>2. HasStatus(Tail(down[t]))
        BY <1>1, <1>2, <2>1, StatusNotTaken
    <2> QED BY <1>1, <1>2, <2>2 DEF Queues
<1>3. CASE u # t
    BY <1>1, <1>3 DEF Queues
<1> QED BY <1>2, <1>3

LEMMA ReceiveStatusInforms ==
    ASSUME Typed, Reporting, NEW t \in Tabs, ReceiveStatus(t)
    PROVE  Reporting'
<1>1. Report(t, tab[t].visible) /\ server' = server /\ tab[t].visible \in BOOLEAN
    BY TabFields DEF ReceiveStatus, TabStates
<1>2. up \subseteq up' /\ down' = [down EXCEPT ![t] = Tail(@)]
    BY DEF ReceiveStatus
<1>3. \E r : /\ tab' = [tab EXCEPT ![t] = r]
             /\ r.connection = tab[t].connection /\ r.up = tab[t].up
             /\ r.visible = tab[t].visible
    <2> DEFINE me == tab[t]
               leads == Head(down[t]).leader
               reloads == leads /\ (me.fresh \/ me.awaiting \/ me.reload)
               doc == IF leads /\ ~reloads THEN Seeded(t) ELSE me.doc
               asks == ~leads /\ ~me.trusted /\ ~me.awaiting
               r == [tab[t] EXCEPT
                        !.leader = leads,
                        !.reload = me.reload \/ reloads,
                        !.load = IF reloads /\ (~me.reload \/ ~me.leader) THEN "asked"
                                 ELSE me.load,
                        !.trusted = me.trusted \/ (leads /\ ~reloads),
                        !.awaiting = IF leads THEN me.awaiting ELSE ~me.trusted,
                        !.rebroadcast = me.rebroadcast /\ leads,
                        !.retry = asks \/ (me.retry /\ ~leads /\ ~me.trusted),
                        !.doc = doc]
    <2>1. tab' = [tab EXCEPT ![t] = r]
        BY DEF ReceiveStatus
    <2>2. r.connection = tab[t].connection /\ r.up = tab[t].up /\ r.visible = tab[t].visible
        BY TabFields DEF TabStates
    <2> HIDE DEF r
    <2> QED BY <2>1, <2>2
<1>4. PICK r : /\ tab' = [tab EXCEPT ![t] = r]
               /\ r.connection = tab[t].connection /\ r.up = tab[t].up
               /\ r.visible = tab[t].visible
    BY <1>3
<1>5. \A u \in Tabs : /\ tab'[u].connection = tab[u].connection
                      /\ tab'[u].up = tab[u].up
                      /\ tab'[u].visible = IF u = t THEN tab[t].visible ELSE tab[u].visible
                      /\ u # t => (HasStatus(down[u]) => HasStatus(down'[u]))
    BY <1>2, <1>4, TabFields DEF Queues
<1> QED BY <1>1, <1>2, <1>5, ReportInforms

LEMMA HideShowInforms ==
    ASSUME Typed, Reporting, NEW t \in Tabs, Hide(t) \/ Show(t)
    PROVE  Reporting'
<1>1. server' = server /\ up' = up /\ down' = down
    BY DEF Hide, Show
<1>2. CASE Hide(t)
    <2>1. \A u \in Tabs : /\ tab'[u].connection = tab[u].connection
                          /\ tab'[u].up = tab[u].up
                          /\ tab'[u].visible = IF u = t THEN FALSE ELSE tab[u].visible
        BY <1>2, TabFields DEF Hide, TabStates
    <2>2. Report(t, FALSE) /\ FALSE \in BOOLEAN
        BY <1>2 DEF Hide
    <2> QED BY <1>1, <2>1, <2>2, ReportInforms
<1>3. CASE Show(t)
    <2>1. \A u \in Tabs : /\ tab'[u].connection = tab[u].connection
                          /\ tab'[u].up = tab[u].up
                          /\ tab'[u].visible = IF u = t THEN TRUE ELSE tab[u].visible
        BY <1>3, TabFields DEF Show, TabStates
    <2>2. Report(t, TRUE) /\ TRUE \in BOOLEAN
        BY <1>3 DEF Show
    <2> QED BY <1>1, <2>1, <2>2, ReportInforms
<1> QED BY <1>2, <1>3

LEMMA ReceiveKeepsStatus ==
    ASSUME Typed, NEW t \in Tabs, NEW u \in Tabs, HasStatus(down[u]),
           ReceiveUpdate(t) \/ ReceiveResync(t) \/ ReceiveSync(t) \/ ReceiveAck(t)
    PROVE  HasStatus(down'[u])
<1>1. PICK kind : kind # "status" /\ Deliver(t, kind)
    <2>1. "update" # "status" /\ "resync" # "status" /\ "sync" # "status" /\ "ack" # "status"
        OBVIOUS
    <2> QED BY <2>1 DEF ReceiveUpdate, ReceiveResync, ReceiveSync, ReceiveAck
<1> DEFINE taken == [down EXCEPT ![t] = Tail(@)]
<1>2. taken \in Queues /\ \A v \in Tabs : HasStatus(down[v]) => HasStatus(taken[v])
    BY <1>1, DeliverType, TakenKeepsStatus
<1>3. Ack(FALSE, {}) \in ToTab
    BY DEF Ack, ToTab
<1>4. down' = taken \/ \E s : down' = Emit(taken, {s}, Ack(FALSE, {}))
    BY DEF ReceiveUpdate, ReceiveResync, ReceiveSync, ReceiveAck
<1> HIDE DEF taken
<1> QED BY <1>2, <1>3, <1>4, EmitKeepsStatus

LEMMA ReceiveInforms ==
    ASSUME Typed, Reporting, NEW t \in Tabs,
           ReceiveUpdate(t) \/ ReceiveResync(t) \/ ReceiveSync(t) \/ ReceiveAck(t)
    PROVE  Reporting'
<1>1. server' = server /\ views' = views /\ up \subseteq up'
    BY DEF ReceiveUpdate, ReceiveResync, ReceiveSync, ReceiveAck
<1>2. \A u \in Tabs : /\ tab'[u].connection = tab[u].connection
                      /\ tab'[u].up = tab[u].up
                      /\ tab'[u].visible = tab[u].visible
    <2>1. CASE ReceiveUpdate(t)
        BY <2>1, TabFields DEF ReceiveUpdate, TabStates
    <2>2. CASE ReceiveResync(t)
        <3>1. \/ tab' = [tab EXCEPT ![t].rebroadcast = TRUE]
              \/ tab' = [tab EXCEPT ![t] =
                            [@ EXCEPT !.doc = Seeded(t), !.rebroadcast = FALSE]]
            BY <2>2 DEF ReceiveResync
        <3>2. CASE tab' = [tab EXCEPT ![t].rebroadcast = TRUE]
            BY <3>2, TabFields DEF TabStates
        <3>3. CASE tab' = [tab EXCEPT ![t] =
                              [@ EXCEPT !.doc = Seeded(t), !.rebroadcast = FALSE]]
            BY <3>3, TabFields DEF TabStates
        <3> QED BY <3>1, <3>2, <3>3
    <2>3. CASE ReceiveSync(t)
        BY <2>3, TabFields DEF ReceiveSync, TabStates
    <2>4. CASE ReceiveAck(t)
        BY <2>4, TabFields DEF ReceiveAck, TabStates
    <2> QED BY <2>1, <2>2, <2>3, <2>4
<1>3. \A u \in Tabs : HasStatus(down[u]) => HasStatus(down'[u])
    BY ReceiveKeepsStatus
<1> QED BY <1>1, <1>2, <1>3, SilentInforms

LEMMA SaveKeepsStatus ==
    ASSUME Typed, NEW t \in Tabs, SaveDraft(t), NEW u \in Tabs, HasStatus(down[u])
    PROVE  HasStatus(down'[u])
<1> DEFINE job == Head(jobs[t])
           accepted == job.base = draft
           answered == Emit(down, {job.for}, Ack(accepted, job.items))
<1>1. down' = answered \/ \E dropped : down' = Emit(answered, dropped, Ack(FALSE, {}))
    BY DEF SaveDraft
<1>2. Ack(FALSE, {}) \in ToTab /\ Ack(accepted, job.items) \in ToTab /\ down \in Queues
    <2>1. jobs[t] \in Seq(Jobs) /\ jobs[t] # <<>>
        BY TabFields DEF SaveDraft
    <2>2. job \in Jobs
        BY <2>1
    <2>3. job.items \subseteq Items
        BY <2>2 DEF Jobs
    <2>4. accepted \in BOOLEAN
        OBVIOUS
    <2> HIDE DEF accepted, job
    <2> QED BY <2>3, <2>4, TabFields DEF Ack, ToTab
<1> HIDE DEF accepted, job
<1>3. answered \in Queues /\ \A v \in Tabs : HasStatus(down[v]) => HasStatus(answered[v])
    BY <1>2, EmitType, EmitKeepsStatus
<1> HIDE DEF answered
<1> QED BY <1>1, <1>2, <1>3, EmitKeepsStatus

LEMMA SaveDraftInforms ==
    ASSUME Typed, Reporting, NEW t \in Tabs, SaveDraft(t)
    PROVE  Reporting'
<1>1. server' = server /\ views' = views /\ up' = up
    BY DEF SaveDraft
<1>2. \A u \in Tabs : /\ tab'[u].connection = tab[u].connection
                      /\ tab'[u].up = tab[u].up
                      /\ tab'[u].visible = tab[u].visible
    BY TabFields DEF SaveDraft, TabStates
<1>3. \A u \in Tabs : HasStatus(down[u]) => HasStatus(down'[u])
    BY SaveKeepsStatus
<1> QED BY <1>1, <1>2, <1>3, SilentInforms

LEMMA SilentTabInforms ==
    ASSUME Typed, Reporting, NEW t \in Tabs,
           \/ Disconnect(t) \/ RetryResync(t) \/ ReadDraft(t) \/ ReplaceGraph(t)
           \/ \E i \in Items : Edit(t, i)
           \/ CallSave(t) \/ RefreshStarts(t) \/ RefreshHash(t)
    PROVE  Reporting'
<1>1. server' = server /\ views' = views
    BY DEF Disconnect, RetryResync, ReadDraft, ReplaceGraph, Edit, CallSave, RefreshStarts,
           RefreshHash
<1>2. \A s : Join(s) \in up => Join(s) \in up'
    BY DEF Disconnect, RetryResync, ReadDraft, ReplaceGraph, Edit, CallSave, RefreshStarts,
           RefreshHash
<1>3. \A u \in Tabs : /\ tab'[u].connection = tab[u].connection
                      /\ tab'[u].up => tab[u].up
                      /\ tab'[u].visible = tab[u].visible
                      /\ tab'[u].up /\ HasStatus(down[u]) => HasStatus(down'[u])
    <2>1. CASE Disconnect(t)
        <3>1. \A u \in Tabs : u # t => tab'[u] = tab[u] /\ down'[u] = down[u]
            BY <2>1, TabFields DEF Disconnect, Queues
        <3>2. ~tab'[t].up /\ tab'[t].connection = tab[t].connection
              /\ tab'[t].visible = tab[t].visible
            BY <2>1, TabFields DEF Disconnect, TabStates
        <3> QED BY <3>1, <3>2
    <2>2. CASE RetryResync(t) \/ CallSave(t)
        BY <2>2 DEF RetryResync, CallSave
    <2>3. CASE ReadDraft(t)
        BY <2>3, TabFields DEF ReadDraft, TabStates
    <2>4. CASE ReplaceGraph(t)
        <3>1. \/ tab' = [tab EXCEPT ![t].load = "none"]
              \/ \E doc : tab' = [tab EXCEPT ![t] = [@ EXCEPT
                     !.load = "none", !.canvas = tab[t].loaded, !.hash = tab[t].loaded,
                     !.doc = doc, !.trusted = TRUE, !.awaiting = FALSE,
                     !.fresh = FALSE, !.reload = FALSE, !.retry = FALSE,
                     !.rebroadcast = FALSE]]
            BY <2>4 DEF ReplaceGraph
        <3>2. down' = down
            BY <2>4 DEF ReplaceGraph
        <3>3. CASE tab' = [tab EXCEPT ![t].load = "none"]
            BY <3>2, <3>3, TabFields DEF TabStates
        <3>4. ASSUME NEW doc,
                     tab' = [tab EXCEPT ![t] = [@ EXCEPT
                     !.load = "none", !.canvas = tab[t].loaded, !.hash = tab[t].loaded,
                     !.doc = doc, !.trusted = TRUE, !.awaiting = FALSE,
                     !.fresh = FALSE, !.reload = FALSE, !.retry = FALSE,
                     !.rebroadcast = FALSE]]
              PROVE  \A u \in Tabs : /\ tab'[u].connection = tab[u].connection
                                     /\ tab'[u].up = tab[u].up
                                     /\ tab'[u].visible = tab[u].visible
            BY <3>4, TabFields DEF TabStates
        <3> QED BY <3>1, <3>2, <3>3, <3>4
    <2>5. CASE \E i \in Items : Edit(t, i)
        <3>1. PICK i \in Items : Edit(t, i)
            BY <2>5
        <3>2. \E canvas, doc : tab' = [tab EXCEPT ![t] =
                  [@ EXCEPT !.canvas = canvas, !.doc = doc]]
            BY <3>1 DEF Edit
        <3>3. down' = down
            BY <3>1 DEF Edit
        <3> QED BY <3>2, <3>3, TabFields DEF TabStates
    <2>6. CASE RefreshStarts(t)
        BY <2>6, TabFields DEF RefreshStarts, TabStates
    <2>7. CASE RefreshHash(t)
        BY <2>7, TabFields DEF RefreshHash, TabStates
    <2> QED BY <2>1, <2>2, <2>3, <2>4, <2>5, <2>6, <2>7
<1> QED BY <1>1, <1>2, <1>3, SilentInforms

LEMMA StepReports == Typed /\ Reporting /\ [Next]_vars => Reporting'
<1> SUFFICES ASSUME Typed, Reporting, [Next]_vars PROVE Reporting'
    OBVIOUS
<1>1. CASE UNCHANGED vars
    BY <1>1, SilentInforms DEF vars
<1>2. CASE Next
    <2>1. PICK t \in Tabs :
              \/ Connect(t) \/ Disconnect(t)
              \/ Server(t) \/ Receive(t)
              \/ RetryResync(t) \/ ReadDraft(t) \/ ReplaceGraph(t)
              \/ \E i \in Items : Edit(t, i)
              \/ Hide(t) \/ Show(t)
              \/ CallSave(t) \/ SaveDraft(t)
              \/ RefreshStarts(t) \/ RefreshHash(t)
        BY <1>2 DEF Next
    <2>2. CASE Server(t)
        <3>1. CASE \E m \in {m \in up : m.sid[1] = t} :
                      JoinSession(m.sid) \/ Refuse(m) \/ RelayGraph(m) \/ RelayResync(m)
                      \/ RelaySync(m)
            <4>1. PICK m \in up : JoinSession(m.sid) \/ Refuse(m) \/ RelayGraph(m)
                                  \/ RelayResync(m) \/ RelaySync(m)
                BY <3>1
            <4>2. m.sid \in Sids
                BY ToServerFields DEF Typed, TypeOK
            <4>3. CASE JoinSession(m.sid)
                BY <4>2, <4>3, JoinSessionInforms
            <4> QED BY <4>1, <4>3, RelayInforms
        <3>2. CASE \E s \in Sids, b \in BOOLEAN : s[1] = t /\ JoinAnswer(s, b)
            BY <3>2, JoinAnswerInforms
        <3>3. CASE \E s \in {s \in Sids : s[1] = t} :
                      \/ ServerDisconnects(s) \/ RefuseView(s)
                      \/ \E n \in DOMAIN views[s] : RelayView(s, n)
            BY <3>3, ServerDisconnectsInforms, RefuseViewInforms, RelayViewInforms
        <3> QED BY <2>2, <3>1, <3>2, <3>3 DEF Server
    <2>3. CASE Receive(t)
        BY <2>3, ReceiveStatusInforms, ReceiveInforms DEF Receive
    <2>4. CASE \/ Disconnect(t) \/ RetryResync(t) \/ ReadDraft(t) \/ ReplaceGraph(t)
               \/ \E i \in Items : Edit(t, i)
               \/ CallSave(t) \/ RefreshStarts(t) \/ RefreshHash(t)
        BY <2>4, SilentTabInforms
    <2>5. CASE Connect(t) \/ Hide(t) \/ Show(t) \/ SaveDraft(t)
        BY <2>5, ConnectInforms, HideShowInforms, SaveDraftInforms
    <2> QED BY <2>1, <2>2, <2>3, <2>4, <2>5
<1> QED BY <1>1, <1>2

\* Once every message and report has been handled, the server has a session for
\* each connected tab, and knows whether it is hidden: the last report is the one
\* that counts in whatever order they are handled, and a tab whose reports were
\* refused, or that was hidden while it was not connected, reports once more when it
\* is answered (graph_view_state, emitGraphViewState, authorize_and_join_workflow_room).
THEOREM VisibilityIsKnown == Spec => []VisibilityKnown
<1>1. Typed /\ Reporting => VisibilityKnown
    <2> SUFFICES ASSUME Typed, Reporting, Quiet, NEW t \in Tabs, tab[t].up
                 PROVE  /\ Sid(t) \in DOMAIN session
                        /\ session[Sid(t)].active = tab[t].visible
        BY DEF VisibilityKnown
    <2>1. Sid(t) \in Sids
        BY SidType
    <2>2. up = {} /\ joining = {} /\ views[Sid(t)] = <<>> /\ down[t] = <<>>
        BY <2>1 DEF Quiet
    <2>3. ~AnswerDue(t)
        BY <2>2 DEF AnswerDue, HasStatus
    <2> QED BY <2>2, <2>3 DEF Reporting, Informed
<1> QED BY <1>1, InitTyped, StepTyped, InitReports, StepReports, PTL DEF Spec

LEMMA InitAsks == Init => Asking
BY DEF Init, Asking, Asked

\* What a step of tab t leaves of the queues and of the other tabs.
LEMMA TabAsks ==
    ASSUME Typed, Asking, server' = server, NEW t \in Tabs, NEW r,
           tab' = [tab EXCEPT ![t] = r], r.connection = tab[t].connection,
           \A u \in Tabs \ {t} : HasStatus(down[u]) => HasStatus(down'[u]),
           r.leader /\ ~r.trusted => r.reload /\ r.load # "none",
           r.awaiting /\ ~r.retry => r.reload \/ r.trusted,
           /\ r.up /\ Sid(t) \in DOMAIN session /\ ~r.trusted /\ ~r.leader /\ ~r.reload
           => \/ r.awaiting /\ r.retry
              \/ \E b \in BOOLEAN : <<Sid(t), b>> \in joining
              \/ HasStatus(down'[t])
    PROVE  Asking'
<1>1. \A u \in Tabs : tab'[u] = IF u = t THEN r ELSE tab[u]
    BY TabFields
<1>2. session' = session /\ joining' = joining
    BY DEF server
<1>3. \A u \in Tabs : Sid(u)' = Sid(u)
    BY <1>1 DEF Sid
<1>4. ASSUME NEW u \in Tabs
      PROVE  Asked(u)'
    <2>1. CASE u = t
        BY <1>1, <1>2, <1>3, <2>1 DEF Asked, AnswerDue
    <2>2. CASE u # t
        BY <1>1, <1>2, <1>3, <2>2 DEF Asking, Asked, AnswerDue
    <2> QED BY <2>1, <2>2
<1> QED BY <1>4 DEF Asking

\* Steps that change nothing of all this.
CourseKept(u) ==
    /\ tab'[u].connection = tab[u].connection
    /\ tab'[u].up = tab[u].up /\ tab'[u].leader = tab[u].leader
    /\ tab'[u].trusted = tab[u].trusted /\ tab'[u].awaiting = tab[u].awaiting
    /\ tab'[u].reload = tab[u].reload /\ tab'[u].retry = tab[u].retry
    /\ tab[u].load # "none" => tab'[u].load # "none"

LEMMA OthersAsk ==
    ASSUME Asking, server' = server,
           \A u \in Tabs : CourseKept(u) /\ (HasStatus(down[u]) => HasStatus(down'[u]))
    PROVE  Asking'
<1>1. session' = session /\ joining' = joining
    BY DEF server
<1>2. \A u \in Tabs : Sid(u)' = Sid(u)
    BY DEF Sid, CourseKept
<1> QED BY <1>1, <1>2 DEF Asking, Asked, AnswerDue, CourseKept

LEMMA ReceiveStatusAsks ==
    ASSUME Typed, Asking, NEW t \in Tabs, ReceiveStatus(t)
    PROVE  Asking'
<1> DEFINE me == tab[t]
           leads == Head(down[t]).leader
           reloads == leads /\ (me.fresh \/ me.awaiting \/ me.reload)
           doc == IF leads /\ ~reloads THEN Seeded(t) ELSE me.doc
           asks == ~leads /\ ~me.trusted /\ ~me.awaiting
           reload == me.reload \/ reloads
           load == IF reloads /\ (~me.reload \/ ~me.leader) THEN "asked" ELSE me.load
           trusted == me.trusted \/ (leads /\ ~reloads)
           awaiting == IF leads THEN me.awaiting ELSE ~me.trusted
           rebroadcast == me.rebroadcast /\ leads
           retry == asks \/ (me.retry /\ ~leads /\ ~me.trusted)
           r == [tab[t] EXCEPT !.leader = leads, !.reload = reload, !.load = load,
                    !.trusted = trusted, !.awaiting = awaiting,
                    !.rebroadcast = rebroadcast, !.retry = retry, !.doc = doc]
<1>1. Deliver(t, "status") /\ tab' = [tab EXCEPT ![t] = r]
      /\ down' = [down EXCEPT ![t] = Tail(@)] /\ server' = server
    BY DEF ReceiveStatus
<1>2. leads \in BOOLEAN
    BY <1>1, DeliverType, ToTabFields
<1>3. /\ me.fresh \in BOOLEAN /\ me.awaiting \in BOOLEAN /\ me.reload \in BOOLEAN
      /\ me.trusted \in BOOLEAN /\ me.retry \in BOOLEAN /\ me.leader \in BOOLEAN
    BY TabFields DEF TabStates
<1>4. Asked(t)
    BY DEF Asking
<1>5. leads /\ ~trusted => reload /\ load # "none"
    BY <1>2, <1>3, <1>4 DEF Asked
<1>6. awaiting /\ ~retry => reload \/ trusted
    BY <1>2, <1>3, <1>4 DEF Asked
<1>7. ~trusted /\ ~leads /\ ~reload => awaiting /\ retry
    BY <1>2, <1>3, <1>4 DEF Asked
<1> HIDE DEF leads, reload, load, trusted, awaiting, rebroadcast, retry, doc
<1>8. /\ r.leader = leads /\ r.reload = reload /\ r.load = load /\ r.trusted = trusted
      /\ r.awaiting = awaiting /\ r.retry = retry /\ r.connection = tab[t].connection
    BY TabFields DEF TabStates
<1>9. \A u \in Tabs \ {t} : HasStatus(down[u]) => HasStatus(down'[u])
    BY <1>1, TabFields DEF Queues
<1> HIDE DEF r
<1> QED BY <1>1, <1>5, <1>6, <1>7, <1>8, <1>9, TabAsks

LEMMA ReceiveUpdateAsks ==
    ASSUME Typed, Asking, NEW t \in Tabs, ReceiveUpdate(t)
    PROVE  Asking'
<1> DEFINE me == tab[t]
           m == Head(down[t])
           imports == ~m.snapshot \/ ~me.leader \/ me.awaiting
           doc == IF imports THEN Merge(me.doc, m.doc) ELSE me.doc
           ready == imports /\ m.snapshot /\ me.awaiting
           canvas == IF ready \/ (me.visible /\ doc # me.doc) THEN Content(doc)
                     ELSE me.canvas
           awaiting == me.awaiting /\ ~ready
           trusted == me.trusted \/ ready
           fresh == me.fresh /\ ~ready
           reload == me.reload /\ ~ready
           retry == me.retry /\ ~ready
           rebroadcast == me.rebroadcast /\ ~(ready /\ me.leader)
           r == [tab[t] EXCEPT !.doc = doc, !.canvas = canvas, !.awaiting = awaiting,
                    !.trusted = trusted, !.fresh = fresh, !.reload = reload,
                    !.retry = retry, !.rebroadcast = rebroadcast]
<1>1. Deliver(t, "update") /\ tab' = [tab EXCEPT ![t] = r]
      /\ down' = [down EXCEPT ![t] = Tail(@)] /\ server' = server
    BY DEF ReceiveUpdate
<1>2. m.snapshot \in BOOLEAN
    BY <1>1, DeliverType, ToTabFields
<1>3. /\ me.awaiting \in BOOLEAN /\ me.reload \in BOOLEAN
      /\ me.trusted \in BOOLEAN /\ me.retry \in BOOLEAN /\ me.leader \in BOOLEAN
    BY TabFields DEF TabStates
<1>4. Asked(t)
    BY DEF Asking
<1>5. \A u \in Tabs : HasStatus(down[u]) => HasStatus(down'[u])
    <2>1. "update" # "status"
        OBVIOUS
    <2> QED BY <1>1, <2>1, TakenKeepsStatus
<1>6. ready \in BOOLEAN
    BY <1>2, <1>3
<1> HIDE DEF ready, imports, m
<1>7. me.leader /\ ~trusted => reload /\ me.load # "none"
    BY <1>3, <1>4, <1>6 DEF Asked
<1>8. awaiting /\ ~retry => reload \/ trusted
    BY <1>3, <1>4, <1>6 DEF Asked
<1>9. me.up /\ Sid(t) \in DOMAIN session /\ ~trusted /\ ~me.leader /\ ~reload
      => (awaiting /\ retry) \/ AnswerDue(t)
    BY <1>3, <1>4, <1>6 DEF Asked
<1> HIDE DEF reload, trusted, awaiting, rebroadcast, retry, fresh, doc, canvas
<1>10. /\ r.leader = me.leader /\ r.reload = reload /\ r.load = me.load
       /\ r.trusted = trusted /\ r.awaiting = awaiting /\ r.retry = retry
       /\ r.connection = tab[t].connection /\ r.up = me.up
    BY TabFields DEF TabStates
<1> HIDE DEF r, me
<1> QED BY <1>1, <1>5, <1>7, <1>8, <1>9, <1>10, TabAsks DEF AnswerDue

LEMMA ReplaceGraphAsks ==
    ASSUME Typed, Asking, NEW t \in Tabs, ReplaceGraph(t)
    PROVE  Asking'
<1> DEFINE me == tab[t]
           current == me.leader /\ me.reload /\ ~me.trusted
           doc == SetItems(me.doc, me.loaded)
<1>1. server' = server /\ down' = down
    BY DEF ReplaceGraph
<1>2. CASE current
    <2> DEFINE r == [tab[t] EXCEPT !.load = "none", !.canvas = me.loaded,
                        !.hash = me.loaded, !.doc = doc, !.trusted = TRUE,
                        !.awaiting = FALSE, !.fresh = FALSE, !.reload = FALSE,
                        !.retry = FALSE, !.rebroadcast = FALSE]
    <2>1. tab' = [tab EXCEPT ![t] = r]
        BY <1>2 DEF ReplaceGraph
    <2>2. r.trusted /\ ~r.awaiting /\ r.connection = tab[t].connection
        BY TabFields DEF TabStates
    <2> HIDE DEF r
    <2> QED BY <1>1, <2>1, <2>2, TabAsks
<1>3. CASE ~current
    <2> DEFINE r == [tab[t] EXCEPT !.load = "none"]
    <2>1. tab' = [tab EXCEPT ![t] = r]
        BY <1>3 DEF ReplaceGraph
    <2>2. /\ r.leader = me.leader /\ r.reload = me.reload /\ r.trusted = me.trusted
          /\ r.awaiting = me.awaiting /\ r.retry = me.retry /\ r.up = me.up
          /\ r.connection = tab[t].connection
        BY TabFields DEF TabStates
    <2>3. Asked(t)
        BY DEF Asking
    <2>4. ~(r.leader /\ ~r.trusted)
        BY <1>3, <2>2, <2>3 DEF Asked
    <2>5. r.awaiting /\ ~r.retry => r.reload \/ r.trusted
        BY <2>2, <2>3 DEF Asked
    <2>6. /\ r.up /\ Sid(t) \in DOMAIN session /\ ~r.trusted /\ ~r.leader /\ ~r.reload
          => \/ r.awaiting /\ r.retry
             \/ \E b \in BOOLEAN : <<Sid(t), b>> \in joining
             \/ HasStatus(down'[t])
        BY <1>1, <2>2, <2>3 DEF Asked, AnswerDue
    <2> HIDE DEF r
    <2> QED BY <1>1, <2>1, <2>2, <2>4, <2>5, <2>6, TabAsks
<1> QED BY <1>2, <1>3

LEMMA ConnectAsks ==
    ASSUME Typed, Reporting, Asking, NEW t \in Tabs, Connect(t)
    PROVE  Asking'
<1> DEFINE next == tab[t].connection + 1
           r == [tab[t] EXCEPT !.up = TRUE, !.connection = next,
                     !.fresh = tab[t].connection > 0, !.doc = Empty, !.rebroadcast = FALSE,
                     !.load = "none", !.loaded = {}, !.awaiting = FALSE, !.trusted = FALSE]
<1>1. /\ tab' = [tab EXCEPT ![t] = r] /\ ~tab[t].up
      /\ down' = [down EXCEPT ![t] = <<>>] /\ UNCHANGED <<session, joining>>
    BY DEF Connect
<1>2. <<t, next>> \notin DOMAIN session
    <2>1. <<t, next>> \in Sids /\ next > tab[t].connection
        BY TabFields, Bounds DEF Connect, MayDisturb, Sids
    <2> QED BY <2>1 DEF Reporting, NoFuture
<1>3. r.connection = next /\ r.leader = tab[t].leader /\ ~r.awaiting
    BY TabFields DEF TabStates
<1>4. ~tab[t].leader
    BY <1>1, TabFields
<1> HIDE DEF r, next
<1>5. \A u \in Tabs : tab'[u] = IF u = t THEN r ELSE tab[u]
    BY <1>1, TabFields
<1>6. ASSUME NEW u \in Tabs
      PROVE  Asked(u)'
    <2>1. CASE u = t
        <3>1. Sid(t)' = <<t, next>>
            BY <1>3, <1>5 DEF Sid
        <3> QED BY <1>1, <1>2, <1>3, <1>4, <1>5, <2>1, <3>1 DEF Asked
    <2>2. CASE u # t
        <3>1. down'[u] = down[u] /\ Sid(u)' = Sid(u)
            BY <1>1, <1>5, <2>2, TabFields DEF Queues, Sid
        <3> QED BY <1>1, <1>5, <2>2, <3>1 DEF Asking, Asked, AnswerDue
    <2> QED BY <2>1, <2>2
<1> QED BY <1>6 DEF Asking

LEMMA DisconnectAsks ==
    ASSUME Typed, Asking, NEW t \in Tabs, Disconnect(t)
    PROVE  Asking'
<1> DEFINE r == [tab[t] EXCEPT !.up = FALSE, !.leader = FALSE, !.trusted = FALSE,
                    !.fresh = FALSE, !.awaiting = FALSE, !.reload = FALSE, !.retry = FALSE]
<1>1. /\ tab' = [tab EXCEPT ![t] = r] /\ server' = server
      /\ down' = [down EXCEPT ![t] = <<>>]
    BY DEF Disconnect
<1>2. ~r.up /\ ~r.leader /\ ~r.awaiting /\ r.connection = tab[t].connection
    BY TabFields DEF TabStates
<1>3. \A u \in Tabs \ {t} : HasStatus(down[u]) => HasStatus(down'[u])
    BY <1>1, TabFields DEF Queues
<1> HIDE DEF r
<1> QED BY <1>1, <1>2, <1>3, TabAsks

LEMMA ReceiveAsks ==
    ASSUME Typed, Asking, NEW t \in Tabs, ReceiveResync(t) \/ ReceiveSync(t) \/ ReceiveAck(t)
    PROVE  Asking'
<1>1. server' = server /\ \A u \in Tabs : HasStatus(down[u]) => HasStatus(down'[u])
    BY ReceiveKeepsStatus DEF ReceiveResync, ReceiveSync, ReceiveAck
<1>2. ASSUME NEW u \in Tabs
      PROVE  CourseKept(u)
    <2>1. CASE ReceiveResync(t)
        <3>1. \/ tab' = [tab EXCEPT ![t].rebroadcast = TRUE]
              \/ tab' = [tab EXCEPT ![t] =
                            [@ EXCEPT !.doc = Seeded(t), !.rebroadcast = FALSE]]
            BY <2>1 DEF ReceiveResync
        <3>2. CASE tab' = [tab EXCEPT ![t].rebroadcast = TRUE]
            BY <3>2, TabFields DEF TabStates, CourseKept
        <3>3. CASE tab' = [tab EXCEPT ![t] =
                              [@ EXCEPT !.doc = Seeded(t), !.rebroadcast = FALSE]]
            BY <3>3, TabFields DEF TabStates, CourseKept
        <3> QED BY <3>1, <3>2, <3>3
    <2>2. CASE ReceiveSync(t)
        <3>1. tab' = tab \/ \E doc : tab' = [tab EXCEPT ![t] =
                                [@ EXCEPT !.doc = doc, !.canvas = Content(doc)]]
            BY <2>2 DEF ReceiveSync
        <3>2. CASE tab' = tab
            BY <3>2 DEF CourseKept
        <3>3. ASSUME NEW doc, tab' = [tab EXCEPT ![t] =
                                [@ EXCEPT !.doc = doc, !.canvas = Content(doc)]]
              PROVE  CourseKept(u)
            BY <3>3, TabFields DEF TabStates, CourseKept
        <3> QED BY <3>1, <3>2, <3>3
    <2>3. CASE ReceiveAck(t)
        BY <2>3, TabFields DEF ReceiveAck, TabStates, CourseKept
    <2> QED BY <2>1, <2>2, <2>3
<1> QED BY <1>1, <1>2, OthersAsk

LEMMA QuietTabAsks ==
    ASSUME Typed, Asking, NEW t \in Tabs,
           \/ RetryResync(t) \/ ReadDraft(t) \/ \E i \in Items : Edit(t, i)
           \/ Hide(t) \/ Show(t) \/ CallSave(t) \/ SaveDraft(t)
           \/ RefreshStarts(t) \/ RefreshHash(t)
    PROVE  Asking'
<1>1. server' = server
    BY DEF RetryResync, ReadDraft, Edit, Hide, Show, CallSave, SaveDraft, RefreshStarts,
           RefreshHash
<1>2. ASSUME NEW u \in Tabs
      PROVE  HasStatus(down[u]) => HasStatus(down'[u])
    <2>1. CASE SaveDraft(t)
        BY <2>1, SaveKeepsStatus
    <2>2. CASE down' = down
        BY <2>2
    <2> QED BY <2>1, <2>2 DEF RetryResync, ReadDraft, Edit, Hide, Show, CallSave,
                              RefreshStarts, RefreshHash
<1>3. ASSUME NEW u \in Tabs
      PROVE  CourseKept(u)
    <2>1. CASE RetryResync(t) \/ CallSave(t)
        BY <2>1 DEF RetryResync, CallSave, CourseKept
    <2>2. CASE ReadDraft(t)
        BY <2>2, TabFields DEF ReadDraft, TabStates, CourseKept
    <2>3. CASE \E i \in Items : Edit(t, i)
        <3>1. \E canvas, doc : tab' = [tab EXCEPT ![t] =
                  [@ EXCEPT !.canvas = canvas, !.doc = doc]]
            BY <2>3 DEF Edit
        <3> QED BY <3>1, TabFields DEF TabStates, CourseKept
    <2>4. CASE Hide(t)
        BY <2>4, TabFields DEF Hide, TabStates, CourseKept
    <2>5. CASE Show(t)
        BY <2>5, TabFields DEF Show, TabStates, CourseKept
    <2>6. CASE SaveDraft(t)
        BY <2>6, TabFields DEF SaveDraft, TabStates, CourseKept
    <2>7. CASE RefreshStarts(t)
        BY <2>7, TabFields DEF RefreshStarts, TabStates, CourseKept
    <2>8. CASE RefreshHash(t)
        BY <2>8, TabFields DEF RefreshHash, TabStates, CourseKept
    <2> QED BY <2>1, <2>2, <2>3, <2>4, <2>5, <2>6, <2>7, <2>8
<1> QED BY <1>1, <1>2, <1>3, OthersAsk

LEMMA StepAsks == Typed /\ Reporting /\ Asking /\ [Next]_vars => Asking'
<1> SUFFICES ASSUME Typed, Reporting, Asking, [Next]_vars PROVE Asking'
    OBVIOUS
<1>1. CASE UNCHANGED vars
    BY <1>1, OthersAsk DEF vars, CourseKept
<1>2. CASE Next
    <2>1. PICK t \in Tabs :
              \/ Connect(t) \/ Disconnect(t)
              \/ Server(t) \/ Receive(t)
              \/ RetryResync(t) \/ ReadDraft(t) \/ ReplaceGraph(t)
              \/ \E i \in Items : Edit(t, i)
              \/ Hide(t) \/ Show(t)
              \/ CallSave(t) \/ SaveDraft(t)
              \/ RefreshStarts(t) \/ RefreshHash(t)
        BY <1>2 DEF Next
    <2>2. CASE Server(t)
        <3>1. CASE \E m \in {m \in up : m.sid[1] = t} :
                      JoinSession(m.sid) \/ Refuse(m) \/ RelayGraph(m) \/ RelayResync(m)
                      \/ RelaySync(m)
            <4>1. PICK m \in up : JoinSession(m.sid) \/ Refuse(m) \/ RelayGraph(m)
                                  \/ RelayResync(m) \/ RelaySync(m)
                BY <3>1
            <4>2. m.sid \in Sids
                BY ToServerFields DEF Typed, TypeOK
            <4>3. CASE JoinSession(m.sid)
                BY <4>2, <4>3, JoinSessionInforms
            <4> QED BY <4>1, <4>3, RelayInforms
        <3>2. CASE \E s \in Sids, b \in BOOLEAN : s[1] = t /\ JoinAnswer(s, b)
            BY <3>2, JoinAnswerInforms
        <3>3. CASE \E s \in {s \in Sids : s[1] = t} :
                      \/ ServerDisconnects(s) \/ RefuseView(s)
                      \/ \E n \in DOMAIN views[s] : RelayView(s, n)
            BY <3>3, ServerDisconnectsInforms, RefuseViewInforms, RelayViewInforms
        <3> QED BY <2>2, <3>1, <3>2, <3>3 DEF Server
    <2>3. CASE Receive(t)
        BY <2>3, ReceiveStatusAsks, ReceiveUpdateAsks, ReceiveAsks DEF Receive
    <2>4. CASE Connect(t) \/ Disconnect(t) \/ ReplaceGraph(t)
        BY <2>4, ConnectAsks, DisconnectAsks, ReplaceGraphAsks
    <2>5. CASE \/ RetryResync(t) \/ ReadDraft(t) \/ \E i \in Items : Edit(t, i)
               \/ Hide(t) \/ Show(t) \/ CallSave(t) \/ SaveDraft(t)
               \/ RefreshStarts(t) \/ RefreshHash(t)
        BY <2>5, QuietTabAsks
    <2> QED BY <2>1, <2>2, <2>3, <2>4, <2>5
<1> QED BY <1>1, <1>2

\* When nothing is under way and the tabs know who leads, every tab is ready, or has a
\* timer that asks another for the graph, or has been interrupted in its reload
\* (onStatus, scheduleInitialSyncRetry, replaceGraphFromReactFlow).
THEOREM NoneWaitsInVain == Spec => []NoneLeftWaitingIfLed
<1>1. Typed /\ Reporting /\ Asking => NoneLeftWaitingIfLed
    <2> SUFFICES ASSUME Typed, Reporting, Asking, AtRest,
                        \A u \in Tabs : tab[u].up => (tab[u].leader <=> leader = Sid(u)),
                        NEW t \in Tabs, WaitsInVain(t), ~Interrupted(t)
                 PROVE  FALSE
        BY DEF NoneLeftWaitingIfLed
    <2>1. tab[t].up /\ ~tab[t].trusted /\ Asked(t) /\ Informed(t) /\ Sid(t) \in Sids
        BY SidType DEF WaitsInVain, Asking, Reporting
    <2>2. up = {} /\ joining = {} /\ down[t] = <<>> /\ tab[t].load = "none"
        BY DEF AtRest, Quiet
    <2>3. ~tab[t].leader /\ leader # Sid(t)
        BY <2>1, <2>2 DEF Asked
    <2>4. ~tab[t].reload
        BY <2>3 DEF Interrupted
    <2>5. Sid(t) \in DOMAIN session /\ ~AnswerDue(t)
        BY <2>1, <2>2 DEF Informed, AnswerDue, HasStatus
    <2>6. tab[t].awaiting /\ tab[t].retry
        BY <2>1, <2>3, <2>4, <2>5 DEF Asked
    <2> QED BY <2>1, <2>3, <2>6 DEF WaitsInVain, Retries
<1>2. Spec => [](Typed /\ Reporting /\ Asking)
    BY InitTyped, StepTyped, InitReports, StepReports, InitAsks, StepAsks, PTL DEF Spec
<1> QED BY <1>1, <1>2, PTL

-----------------------------------------------------------------------------
(* Convergence *)

\* What of a queue carries a document.
Carried(queue) == {m \in ToSet(queue) : m.kind \in {"update", "sync"}}

\* Tab t has n of item i, or is sure to import a document that does.
Reaches(t, n, i) == n <= tab[t].doc[i] \/ \E e \in Coming(t) : n <= e[i]

\* A trusted tab is in the room, and reaches all there is around.
Covered(t) ==
    tab[t].trusted =>
        /\ Sid(t) \in room
        /\ \A d \in Around, i \in Items : Reaches(t, d[i], i)

Covering == ~apart => \A t \in Tabs : Covered(t)

LEMMA AroundIs ==
    Around = {tab[t].doc : t \in {t \in Tabs : tab[t].up}}
             \cup {m.doc : m \in {m \in up : m.kind \in {"graph", "sync"}}}
             \cup {m.doc : m \in UNION {Carried(down[t]) : t \in Tabs}}
BY DEF Around, Carried

LEMMA ComingIs ==
    ASSUME NEW t
    PROVE  Coming(t) =
           {m.doc : m \in {m \in up : m.kind = "graph" /\ ~m.snapshot /\ m.sid # Sid(t)}}
           \cup {m.doc : m \in {m \in Carried(down[t]) : m.kind = "update" /\ ~m.snapshot}}
BY DEF Coming, Carried

LEMMA CarriedType ==
    ASSUME Typed, NEW t \in Tabs, NEW m \in Carried(down[t])
    PROVE  m \in ToTab /\ m.doc \in Docs
<1>1. down[t] \in Seq(ToTab)
    BY TabFields DEF Queues
<1>2. m \in ToTab
    BY <1>1 DEF Carried, ToSet
<1> QED BY <1>2, ToTabFields DEF Carried

LEMMA AroundType ==
    ASSUME Typed
    PROVE  Around \subseteq Docs /\ \A t \in Tabs : Coming(t) \subseteq Docs
<1>1. \A t \in Tabs : tab[t].doc \in Docs
    BY TabFields
<1>2. \A m \in up : m.kind \in {"graph", "sync"} => m.doc \in Docs
    BY ToServerFields DEF Typed, TypeOK
<1>3. \A t \in Tabs : \A m \in Carried(down[t]) : m.doc \in Docs
    BY CarriedType
<1>4. Around \subseteq Docs
    BY <1>1, <1>2, <1>3, AroundIs
<1>5. \A t \in Tabs : Coming(t) \subseteq Docs
    BY <1>2, <1>3, ComingIs
<1> QED BY <1>4, <1>5

LEMMA CarriedAppend ==
    ASSUME NEW q \in Seq(ToTab), NEW m \in ToTab
    PROVE  /\ Carried(q) \subseteq Carried(Append(q, m))
           /\ Carried(Append(q, m)) \subseteq Carried(q) \cup {m}
           /\ m.kind \in {"update", "sync"} => m \in Carried(Append(q, m))
           /\ m.kind \notin {"update", "sync"} => Carried(Append(q, m)) = Carried(q)
<1>1. ToSet(Append(q, m)) = ToSet(q) \cup {m}
    <2>1. Len(q) \in Nat /\ DOMAIN Append(q, m) = 1 .. Len(q) + 1
          /\ Append(q, m)[Len(q) + 1] = m /\ Len(q) + 1 \in 1 .. Len(q) + 1
          /\ \A k \in 1 .. Len(q) : Append(q, m)[k] = q[k] /\ k \in 1 .. Len(q) + 1
          /\ DOMAIN q = 1 .. Len(q)
        OBVIOUS
    <2>2. \A k \in 1 .. Len(q) + 1 : k = Len(q) + 1 \/ k \in 1 .. Len(q)
        BY <2>1
    <2> QED BY <2>1, <2>2 DEF ToSet
<1> QED BY <1>1 DEF Carried

LEMMA CarriedTail ==
    ASSUME NEW q \in Seq(ToTab), q # <<>>
    PROVE  /\ Carried(Tail(q)) \subseteq Carried(q)
           /\ Carried(q) \subseteq Carried(Tail(q)) \cup {Head(q)}
           /\ Head(q).kind \notin {"update", "sync"} => Carried(Tail(q)) = Carried(q)
<1>1. ToSet(q) = ToSet(Tail(q)) \cup {Head(q)}
    <2>1. Len(q) \in Nat /\ Len(q) > 0 /\ DOMAIN q = 1 .. Len(q)
          /\ DOMAIN Tail(q) = 1 .. Len(q) - 1 /\ Head(q) = q[1] /\ 1 \in 1 .. Len(q)
        OBVIOUS
    <2>2. \A k \in 1 .. Len(q) - 1 : Tail(q)[k] = q[k + 1] /\ k + 1 \in 1 .. Len(q)
        BY <2>1
    <2>3. \A k \in 1 .. Len(q) : k = 1 \/ (k - 1 \in 1 .. Len(q) - 1 /\ Tail(q)[k - 1] = q[k])
        BY <2>1, <2>2
    <2>4. \A k \in DOMAIN q : q[k] \in ToSet(Tail(q)) \cup {Head(q)}
        BY <2>1, <2>3 DEF ToSet
    <2>5. \A k \in DOMAIN Tail(q) : Tail(q)[k] \in ToSet(q)
        BY <2>1, <2>2 DEF ToSet
    <2>6. Head(q) \in ToSet(q)
        BY <2>1 DEF ToSet
    <2> QED BY <2>4, <2>5, <2>6 DEF ToSet
<1> QED BY <1>1 DEF Carried

\* What is emitted reaches the tabs it is for, and nothing else changes.
LEMMA CarriedEmit ==
    ASSUME NEW queues \in Queues, NEW sids, NEW message \in ToTab, NEW t \in Tabs
    PROVE  /\ Carried(queues[t]) \subseteq Carried(Emit(queues, sids, message)[t])
           /\ Carried(Emit(queues, sids, message)[t]) \subseteq Carried(queues[t]) \cup {message}
           /\ message.kind \in {"update", "sync"} /\ tab[t].up /\ Sid(t) \in sids
              => message \in Carried(Emit(queues, sids, message)[t])
           /\ message.kind \notin {"update", "sync"}
              => Carried(Emit(queues, sids, message)[t]) = Carried(queues[t])
BY CarriedAppend DEF Emit, Queues

LEMMA CarriedAnnounce ==
    ASSUME NEW queues \in Queues, NEW sids, NEW new, NEW t \in Tabs
    PROVE  Carried(Announce(queues, sids, new)[t]) = Carried(queues[t])
<1> DEFINE isNew == Sid(t) = new
           message == [kind |-> "status", leader |-> isNew]
<1>1. isNew \in BOOLEAN
    OBVIOUS
<1>2. \/ Announce(queues, sids, new)[t] = Append(queues[t], message)
      \/ Announce(queues, sids, new)[t] = queues[t]
    BY DEF Announce
<1> HIDE DEF isNew
<1>3. message \in ToTab /\ message.kind \notin {"update", "sync"}
    BY <1>1 DEF ToTab
<1>4. queues[t] \in Seq(ToTab)
    BY DEF Queues
<1> HIDE DEF message
<1> QED BY <1>2, <1>3, <1>4, CarriedAppend

LEMMA CarriedTold ==
    ASSUME TypeOK, NEW s
    PROVE  Told(s) \in Queues /\ \A t \in Tabs : Carried(Told(s)[t]) = Carried(down[t])
<1>1. down \in Queues /\ Told(s) \in Queues
    BY ToldType DEF TypeOK, Queues
<1> QED BY <1>1, CarriedAnnounce DEF Told

\* What a step adds to the documents around.
LEMMA AroundGrows ==
    ASSUME NEW new,
           \A u \in Tabs : tab'[u].up =>
               (tab[u].up /\ tab'[u].doc = tab[u].doc) \/ tab'[u].doc \in new,
           \A m \in up' : m.kind \in {"graph", "sync"} => m \in up \/ m.doc \in new,
           \A u \in Tabs : \A m \in Carried(down'[u]) : m \in Carried(down[u]) \/ m.doc \in new
    PROVE  Around' \subseteq Around \cup new
<1>1. Around' = {tab'[t].doc : t \in {t \in Tabs : tab'[t].up}}
                \cup {m.doc : m \in {m \in up' : m.kind \in {"graph", "sync"}}}
                \cup {m.doc : m \in UNION {Carried(down'[t]) : t \in Tabs}}
    BY DEF Around, Carried
<1> QED BY <1>1, AroundIs

\* What a step leaves of the documents that tab t is to import.
LEMMA ComingKept ==
    ASSUME NEW t \in Tabs, NEW done, tab'[t].connection = tab[t].connection,
           \A m \in up : m.kind = "graph" /\ ~m.snapshot /\ m.sid # Sid(t) =>
               \/ m \in up'
               \/ \E n \in Carried(down'[t]) :
                      n.kind = "update" /\ ~n.snapshot /\ n.doc = m.doc,
           \A m \in Carried(down[t]) : m.kind = "update" /\ ~m.snapshot =>
               m \in Carried(down'[t]) \/ m.doc \in done
    PROVE  Coming(t) \subseteq Coming(t)' \cup done
<1>1. Sid(t)' = Sid(t)
    BY DEF Sid
<1>2. Coming(t)' =
          {m.doc : m \in {m \in up' : m.kind = "graph" /\ ~m.snapshot /\ m.sid # Sid(t)}}
          \cup {m.doc : m \in {m \in Carried(down'[t]) : m.kind = "update" /\ ~m.snapshot}}
    BY <1>1 DEF Coming, Carried
<1> QED BY <1>2, ComingIs

LEMMA CoveredNext ==
    ASSUME Typed, NEW t \in Tabs, NEW doc \in Docs, tab'[t].doc = doc, Sid(t)' \in room',
           \A d \in Around, i \in Items :
               d[i] <= doc[i] \/ \E e \in Coming(t) : d[i] <= e[i],
           NEW done, Coming(t) \subseteq Coming(t)' \cup done,
           \A e \in done, i \in Items : e[i] <= doc[i],
           NEW new \in SUBSET Docs, Around' \subseteq Around \cup new,
           \A d \in new, i \in Items :
               (\E e \in Around : d[i] <= e[i]) \/ Reaches(t, d[i], i)'
    PROVE  Covered(t)'
<1>1. Around \subseteq Docs /\ Coming(t) \subseteq Docs
    BY AroundType
<1>2. ASSUME NEW d \in Around, NEW i \in Items, NEW n \in Nat, n <= d[i]
      PROVE  Reaches(t, n, i)'
    <2>1. d[i] \in Nat /\ doc[i] \in Nat /\ \A e \in Coming(t) : e[i] \in Nat
        BY <1>1 DEF Docs
    <2>2. CASE d[i] <= doc[i]
        <3>1. n <= doc[i]
            BY <1>2, <2>1, <2>2
        <3> QED BY <3>1 DEF Reaches
    <2>3. CASE \E e \in Coming(t) : d[i] <= e[i]
        <3>1. PICK e \in Coming(t) : d[i] <= e[i]
            BY <2>3
        <3>2. n <= e[i] /\ (e \in done => n <= doc[i])
            BY <1>2, <2>1, <3>1
        <3> QED BY <3>2 DEF Reaches
    <2> QED BY <2>2, <2>3
<1>3. ASSUME NEW d \in Around', NEW i \in Items
      PROVE  Reaches(t, d[i], i)'
    <2>1. d \in Docs /\ d[i] \in Nat
        BY <1>1 DEF Docs
    <2>2. CASE d \in Around
        BY <1>2, <2>1, <2>2
    <2>3. CASE d \in new
        BY <1>2, <2>1, <2>3
    <2> QED BY <2>2, <2>3
<1> QED BY <1>3 DEF Covered

\* A step that sends or takes no other documents than those around.
LEMMA SilentCovers ==
    ASSUME Typed, Covering, apart => apart',
           \A u \in Tabs : tab'[u].up => tab[u].up /\ tab'[u].doc = tab[u].doc,
           \A u \in Tabs : tab'[u].trusted =>
               /\ tab[u].trusted /\ tab'[u].doc = tab[u].doc
               /\ tab'[u].connection = tab[u].connection
               /\ Sid(u) \in room => Sid(u) \in room'
               /\ \A m \in up : m.kind = "graph" /\ ~m.snapshot /\ m.sid # Sid(u) =>
                      \/ m \in up'
                      \/ Sid(u) \in room => \E n \in Carried(down'[u]) :
                             n.kind = "update" /\ ~n.snapshot /\ n.doc = m.doc
               /\ \A m \in Carried(down[u]) :
                      m.kind = "update" => m \in Carried(down'[u]),
           \A m \in up' : m.kind \in {"graph", "sync"} => m \in up \/ m.doc \in Around,
           \A u \in Tabs : \A m \in Carried(down'[u]) :
               m \in Carried(down[u]) \/ m.doc \in Around
    PROVE  Covering'
<1>1. Around' \subseteq Around
    <2> DEFINE new == Around
    <2>1. Around' \subseteq Around \cup new
        BY AroundGrows
    <2> QED BY <2>1
<1> SUFFICES ASSUME ~apart', NEW t \in Tabs, tab'[t].trusted
             PROVE  Covered(t)'
    BY DEF Covering, Covered
<1>2. Covered(t) /\ tab[t].trusted /\ tab[t].doc \in Docs /\ tab'[t].doc = tab[t].doc
    BY TabFields DEF Covering
<1>3. Sid(t)' = Sid(t) /\ Sid(t) \in room'
    BY <1>2 DEF Sid, Covered
<1>4. \A d \in Around, i \in Items :
          d[i] <= tab[t].doc[i] \/ \E e \in Coming(t) : d[i] <= e[i]
    BY <1>2 DEF Covered, Reaches
<1>5. Coming(t) \subseteq Coming(t)' \cup {}
    <2>1. /\ \A m \in up : m.kind = "graph" /\ ~m.snapshot /\ m.sid # Sid(t) =>
                 \/ m \in up'
                 \/ \E n \in Carried(down'[t]) :
                        n.kind = "update" /\ ~n.snapshot /\ n.doc = m.doc
          /\ \A m \in Carried(down[t]) : m.kind = "update" /\ ~m.snapshot =>
                 m \in Carried(down'[t]) \/ m.doc \in {}
        BY <1>2 DEF Covered
    <2> QED BY <2>1, ComingKept
<1> DEFINE doc == tab[t].doc
           none == {}
<1>6. /\ doc \in Docs /\ tab'[t].doc = doc /\ Sid(t)' \in room'
      /\ \A d \in Around, i \in Items :
             d[i] <= doc[i] \/ \E e \in Coming(t) : d[i] <= e[i]
      /\ Coming(t) \subseteq Coming(t)' \cup none
      /\ \A e \in none, i \in Items : e[i] <= doc[i]
      /\ none \in SUBSET Docs /\ Around' \subseteq Around \cup none
      /\ \A d \in none, i \in Items :
             (\E e \in Around : d[i] <= e[i]) \/ Reaches(t, d[i], i)'
    BY <1>1, <1>2, <1>3, <1>4, <1>5
<1> HIDE DEF doc, none
<1> QED BY <1>6, CoveredNext

\* What the server does, but for relaying a document.
LEMMA ServerCovers ==
    ASSUME Typed, Covering, tab' = tab, apart => apart',
           \A u \in Tabs : tab[u].up /\ Sid(u) \in room => Sid(u) \in room',
           \A m \in up' : m \in up \/ m.kind \notin {"graph", "sync"},
           ~apart' => \A m \in up : m.kind = "graph" => m \in up',
           \A u \in Tabs : Carried(down'[u]) = Carried(down[u])
    PROVE  Covering'
<1>1. CASE apart'
    BY <1>1 DEF Covering
<1>2. CASE ~apart'
    <2>1. \A u \in Tabs : tab[u].trusted => tab[u].up
        BY TabFields
    <2> QED BY <1>2, <2>1, SilentCovers
<1> QED BY <1>1, <1>2

LEMMA RoomCovers ==
    ASSUME Typed, Covering, NEW s \in Sids,
           \/ JoinSession(s) \/ (\E b \in BOOLEAN : JoinAnswer(s, b)) \/ ServerDisconnects(s)
           \/ RefuseView(s) \/ (\E n \in DOMAIN views[s] : RelayView(s, n))
    PROVE  Covering'
<1>1. tab' = tab /\ apart' = apart
    BY DEF JoinSession, JoinAnswer, ServerDisconnects, RefuseView, RelayView, past
<1>2. \A u \in Tabs : tab[u].up /\ Sid(u) \in room => Sid(u) \in room'
    <2>1. CASE ServerDisconnects(s)
        BY <2>1 DEF ServerDisconnects, Sid
    <2>2. CASE room \subseteq room'
        BY <1>1, <2>2 DEF Sid
    <2> QED BY <2>1, <2>2 DEF JoinSession, JoinAnswer, RefuseView, RelayView, server
<1>3. /\ \A m \in up' : m \in up \/ m.kind \notin {"graph", "sync"}
      /\ \A m \in up : m.kind = "graph" => m \in up'
    <2>1. \A r : Join(r).kind = "join"
        BY DEF Join
    <2>2. up \ {Join(s)} \subseteq up' /\ \A m \in up' : m \in up \/ \E r : m = Join(r)
        BY DEF JoinSession, JoinAnswer, ServerDisconnects, RefuseView, RelayView
    <2> QED BY <2>1, <2>2
<1>4. \A u \in Tabs : Carried(down'[u]) = Carried(down[u])
    <2>1. down \in Queues /\ TypeOK
        BY DEF Typed, TypeOK, Queues
    <2>2. CASE JoinSession(s)
        BY <2>1, <2>2, CarriedAnnounce DEF JoinSession
    <2>3. CASE \E b \in BOOLEAN : JoinAnswer(s, b)
        <3>1. PICK b \in BOOLEAN : JoinAnswer(s, b)
            BY <2>3
        <3> DEFINE message == [kind |-> "status", leader |-> b]
        <3>2. message \in ToTab /\ message.kind \notin {"update", "sync"}
            BY DEF ToTab
        <3>3. \/ down' = Emit(down, {s}, message)
              \/ \E sids : down' = Emit(Announce(down, sids, leader'), {s}, message)
            BY <3>1 DEF JoinAnswer
        <3> HIDE DEF message
        <3> QED BY <2>1, <3>2, <3>3, AnnounceType, CarriedAnnounce, CarriedEmit
    <2>4. CASE ServerDisconnects(s)
        BY <2>1, <2>4, CarriedAnnounce DEF ServerDisconnects
    <2>5. CASE RefuseView(s)
        BY <2>5 DEF RefuseView
    <2>6. CASE \E n \in DOMAIN views[s] : RelayView(s, n)
        <3>1. PICK n \in DOMAIN views[s] : RelayView(s, n)
            BY <2>6
        <3>2. \/ down' = Told(s)
              \/ \E sids : down' = Announce(Told(s), sids, leader')
            BY <3>1 DEF RelayView
        <3> QED BY <2>1, <3>2, CarriedTold, CarriedAnnounce
    <2> QED BY <2>2, <2>3, <2>4, <2>5, <2>6
<1> QED BY <1>1, <1>2, <1>3, <1>4, ServerCovers

LEMMA RelayGraphCovers ==
    ASSUME Typed, Covering, NEW m \in up, RelayGraph(m)
    PROVE  Covering'
<1> DEFINE message == [kind |-> "update", doc |-> m.doc, snapshot |-> m.snapshot]
           others == room \ {m.sid}
<1>1. /\ m.kind = "graph" /\ up' = up \ {m} /\ tab' = tab /\ room' = room /\ apart' = apart
      /\ down' = Emit(Told(m.sid), others, message)
    BY DEF RelayGraph, Relay, past
<1>2. m.doc \in Docs /\ m.snapshot \in BOOLEAN /\ m.doc \in Around
    BY <1>1, ToServerFields, AroundIs DEF Typed, TypeOK
<1>3. message \in ToTab
    BY <1>2 DEF ToTab
<1>4. message.kind = "update" /\ message.doc = m.doc /\ message.snapshot = m.snapshot
    OBVIOUS
<1> DEFINE told == Told(m.sid)
<1> HIDE DEF message, others
<1>5. ASSUME NEW u \in Tabs
      PROVE  /\ Carried(down[u]) \subseteq Carried(down'[u])
             /\ Carried(down'[u]) \subseteq Carried(down[u]) \cup {message}
             /\ tab[u].up /\ Sid(u) \in others => message \in Carried(down'[u])
    <2>1. told \in Queues /\ Carried(told[u]) = Carried(down[u])
          /\ down' = Emit(told, others, message)
        BY <1>1, CarriedTold DEF Typed
    <2> HIDE DEF told
    <2> QED BY <1>3, <1>4, <2>1, CarriedEmit
<1>6. ASSUME NEW u \in Tabs, tab'[u].trusted, NEW g \in up,
             g.kind = "graph" /\ ~g.snapshot /\ g.sid # Sid(u), Sid(u) \in room, g \notin up'
      PROVE  \E n \in Carried(down'[u]) : n.kind = "update" /\ ~n.snapshot /\ n.doc = g.doc
    <2>1. g = m /\ tab[u].up
        BY <1>1, <1>6, TabFields
    <2> QED BY <1>4, <1>5, <1>6, <2>1 DEF others
<1>7. \A u \in Tabs : tab[u].trusted => tab[u].up
    BY TabFields
<1> QED BY <1>1, <1>2, <1>4, <1>5, <1>6, <1>7, SilentCovers

LEMMA RelayCovers ==
    ASSUME Typed, Covering, NEW m \in up,
           Refuse(m) \/ RelayGraph(m) \/ RelayResync(m) \/ RelaySync(m)
    PROVE  Covering'
<1>1. TypeOK
    BY DEF Typed
<1>2. CASE Refuse(m)
    <2>1. /\ tab' = tab /\ room' = room /\ apart' = (apart \/ m.kind = "graph")
          /\ down' = down
          /\ up' = (up \ {m}) \cup {Join(s) : s \in {m.sid} \cap sockets}
        BY <1>2 DEF Refuse, server
    <2>2. \A s : Join(s).kind = "join"
        BY DEF Join
    <2> QED BY <2>1, <2>2, ServerCovers DEF Sid
<1>3. CASE RelayGraph(m)
    BY <1>3, RelayGraphCovers
<1>4. CASE RelayResync(m)
    <2> DEFINE message == [kind |-> "resync"]
    <2>1. /\ tab' = tab /\ room' = room /\ apart' = apart
          /\ m.kind = "resync" /\ up' = up \ {m}
          /\ down' = Emit(Told(m.sid), {leader'}, message)
        BY <1>4 DEF RelayResync, Relay, past
    <2>2. message \in ToTab /\ message.kind \notin {"update", "sync"}
        BY DEF ToTab
    <2> HIDE DEF message
    <2>3. \A u \in Tabs : Carried(down'[u]) = Carried(down[u])
        BY <1>1, <2>1, <2>2, CarriedTold, CarriedEmit
    <2> QED BY <2>1, <2>3, ServerCovers DEF Sid
<1>5. CASE RelaySync(m)
    <2> DEFINE message == [kind |-> "sync", from |-> m.sid, doc |-> m.doc]
    <2>1. /\ tab' = tab /\ room' = room /\ apart' = apart
          /\ m.kind = "sync" /\ up' = up \ {m}
          /\ \/ down' = Emit(Told(m.sid), {leader'}, message)
             \/ down' = Emit(Announce(Told(m.sid), DOMAIN session, leader'),
                             {leader'}, message)
        BY <1>5 DEF RelaySync, Relay, past
    <2>2. m.sid \in Sids /\ m.doc \in Docs /\ m.doc \in Around
        BY <2>1, ToServerFields, AroundIs DEF Typed, TypeOK
    <2>3. message \in ToTab /\ message.kind = "sync" /\ message.doc = m.doc
        BY <2>2 DEF ToTab
    <2> HIDE DEF message
    <2>4. \A u \in Tabs : /\ Carried(down[u]) \subseteq Carried(down'[u])
                          /\ Carried(down'[u]) \subseteq Carried(down[u]) \cup {message}
        <3> DEFINE told == Told(m.sid)
                   announced == Announce(told, DOMAIN session, leader')
        <3>1. /\ told \in Queues /\ announced \in Queues
              /\ \A u \in Tabs : Carried(told[u]) = Carried(down[u])
            BY <1>1, CarriedTold, AnnounceType
        <3>2. \A u \in Tabs : Carried(announced[u]) = Carried(down[u])
            BY <3>1, CarriedAnnounce
        <3>3. PICK queues, sids :
                  queues \in {told, announced} /\ down' = Emit(queues, sids, message)
            BY <2>1
        <3> HIDE DEF told, announced
        <3>4. queues \in Queues /\ \A u \in Tabs : Carried(queues[u]) = Carried(down[u])
            BY <3>1, <3>2, <3>3
        <3> QED BY <2>3, <3>3, <3>4, CarriedEmit
    <2>5. \A u \in Tabs : tab[u].trusted => tab[u].up
        BY TabFields
    <2>6. \A u \in Tabs : Sid(u)' = Sid(u)
        BY <2>1 DEF Sid
    <2> QED BY <2>1, <2>2, <2>3, <2>4, <2>5, SilentCovers
<1> QED BY <1>2, <1>3, <1>4, <1>5

LEMMA MergeBounds ==
    ASSUME NEW d \in Docs, NEW e \in Docs, NEW i \in Items
    PROVE  /\ d[i] \in Nat /\ e[i] \in Nat
           /\ d[i] <= Merge(d, e)[i] /\ e[i] <= Merge(d, e)[i]
           /\ Merge(d, e)[i] \in {d[i], e[i]}
<1>1. d[i] \in Nat /\ e[i] \in Nat
    BY DEF Docs
<1>2. Merge(d, e)[i] = IF d[i] > e[i] THEN d[i] ELSE e[i]
    BY DEF Merge
<1> QED BY <1>1, <1>2

LEMMA SetItemsGrows ==
    ASSUME NEW doc \in Docs, NEW items, NEW i \in Items
    PROVE  doc[i] <= SetItems(doc, items)[i]
<1>1. doc[i] \in Nat
    BY DEF Docs
<1>2. SetItems(doc, items)[i] = doc[i] \/ SetItems(doc, items)[i] = doc[i] + 1
    BY DEF SetItems
<1> QED BY <1>1, <1>2

LEMMA SeededGrows ==
    ASSUME Typed, NEW t \in Tabs, NEW i \in Items
    PROVE  tab[t].doc[i] <= Seeded(t)[i]
<1>1. tab[t].doc \in Docs /\ tab[t].doc[i] \in Nat
    BY TabFields DEF Docs
<1> QED BY <1>1, SetItemsGrows DEF Seeded

\* A tab that changes its document tells the others, or brings nothing new; it
\* loses nothing of what it was to import; and it becomes trusted when it misses nothing.
LEMMA DocumentCovers ==
    ASSUME Typed, Covering, apart => apart', room' = room,
           NEW t \in Tabs, NEW r, NEW doc \in Docs, tab[t].up,
           tab' = [tab EXCEPT ![t] = r], r.doc = doc, r.connection = tab[t].connection,
           \A i \in Items : tab[t].doc[i] <= doc[i],
           \/ \A i \in Items : \E d \in Around : doc[i] <= d[i]
           \/ \E m \in up' :
                  m.kind = "graph" /\ ~m.snapshot /\ m.sid = Sid(t) /\ m.doc = doc,
           up \subseteq up',
           \A m \in up' : m.kind \in {"graph", "sync"} => m \in up \/ m.doc = doc,
           \A u \in Tabs : Carried(down'[u]) \subseteq Carried(down[u]),
           \A u \in Tabs \ {t} : Carried(down[u]) \subseteq Carried(down'[u]),
           \A m \in Carried(down[t]) : m.kind = "update" /\ ~m.snapshot =>
               m \in Carried(down'[t]) \/ \A i \in Items : m.doc[i] <= doc[i],
           r.trusted /\ ~apart' => tab[t].trusted \/ ~Misses(t, doc)
    PROVE  Covering'
<1> DEFINE new == {doc}
           done == {e \in Coming(t) : \A i \in Items : e[i] <= doc[i]}
           none == {}
<1>1. \A u \in Tabs : tab'[u] = IF u = t THEN r ELSE tab[u]
    BY TabFields
<1>2. \A u \in Tabs : Sid(u)' = Sid(u)
    BY <1>1 DEF Sid
<1>3. Around' \subseteq Around \cup new
    <2>1. \A u \in Tabs : tab'[u].up =>
              (tab[u].up /\ tab'[u].doc = tab[u].doc) \/ tab'[u].doc \in new
        BY <1>1
    <2>2. \A m \in up' : m.kind \in {"graph", "sync"} => m \in up \/ m.doc \in new
        OBVIOUS
    <2>3. \A u \in Tabs : \A m \in Carried(down'[u]) : m \in Carried(down[u]) \/ m.doc \in new
        OBVIOUS
    <2> HIDE DEF new
    <2> QED BY <2>1, <2>2, <2>3, AroundGrows
<1>4. Around \subseteq Docs /\ (\A u \in Tabs : Coming(u) \subseteq Docs) /\ new \in SUBSET Docs
    BY AroundType
<1>5. \A i \in Items : doc[i] \in Nat /\ doc[i] <= doc[i]
    BY DEF Docs
<1> SUFFICES ASSUME ~apart', NEW u \in Tabs, tab'[u].trusted
             PROVE  Covered(u)'
    BY DEF Covering, Covered
<1>6. CASE u = t
    <2>1. /\ Sid(t) \in room
          /\ \A d \in Around, i \in Items :
                 d[i] <= doc[i] \/ \E e \in Coming(t) : d[i] <= e[i]
        <3>1. CASE tab[t].trusted
            <4>1. Covered(t)
                BY DEF Covering
            <4>2. \A i \in Items : tab[t].doc[i] \in Nat
                BY TabFields DEF Docs
            <4>3. \A d \in Around, i \in Items : d[i] \in Nat
                BY <1>4 DEF Docs
            <4>4. ASSUME NEW d \in Around, NEW i \in Items
                  PROVE  d[i] <= doc[i] \/ \E e \in Coming(t) : d[i] <= e[i]
                <5>1. d[i] <= tab[t].doc[i] \/ \E e \in Coming(t) : d[i] <= e[i]
                    BY <3>1, <4>1 DEF Covered, Reaches
                <5>2. d[i] <= tab[t].doc[i] => d[i] <= doc[i]
                    BY <1>5, <4>2, <4>3
                <5> QED BY <5>1, <5>2
            <4> QED BY <3>1, <4>1, <4>4 DEF Covered
        <3>2. CASE ~tab[t].trusted
            <4>1. ~Misses(t, doc)
                BY <1>1, <1>6, <3>2
            <4>2. \A d \in Around, i \in Items : d[i] \in Nat
                BY <1>4 DEF Docs
            <4>3. \A e \in Coming(t), i \in Items : e[i] \in Nat
                BY <1>4 DEF Docs
            <4>4. ASSUME NEW d \in Around, NEW i \in Items
                  PROVE  d[i] <= doc[i] \/ \E e \in Coming(t) : d[i] <= e[i]
                <5>1. ~(d[i] > doc[i]) \/ \E e \in Coming(t) : ~(d[i] > e[i])
                    BY <3>2, <4>1 DEF Misses
                <5> QED BY <1>5, <4>2, <4>3, <5>1
            <4> QED BY <3>2, <4>1, <4>4 DEF Misses
        <3> QED BY <3>1, <3>2
    <2>2. Coming(t) \subseteq Coming(t)' \cup done
        <3>1. /\ \A m \in up : m.kind = "graph" /\ ~m.snapshot /\ m.sid # Sid(t) => m \in up'
              /\ \A m \in Carried(down[t]) : m.kind = "update" /\ ~m.snapshot =>
                     m \in Carried(down'[t]) \/ m.doc \in done
            BY ComingIs
        <3>2. tab'[t].connection = tab[t].connection
            BY <1>1
        <3> HIDE DEF done
        <3> QED BY <3>1, <3>2, ComingKept
    <2>3. tab'[t].doc = doc /\ Sid(t)' \in room'
        BY <1>1, <1>2, <2>1
    <2>4. \A d \in new, i \in Items : Reaches(t, d[i], i)'
        BY <1>5, <2>3 DEF Reaches
    <2>5. \A e \in done, i \in Items : e[i] <= doc[i]
        OBVIOUS
    <2> HIDE DEF new, done
    <2> QED BY <1>3, <1>4, <1>6, <2>1, <2>2, <2>3, <2>4, <2>5, CoveredNext
<1>7. CASE u # t
    <2> DEFINE mine == tab[u].doc
    <2>1. Covered(u) /\ tab[u].trusted
        BY <1>1, <1>7 DEF Covering
    <2>2. mine \in Docs /\ tab'[u].doc = mine /\ Sid(u)' \in room'
        BY <1>1, <1>2, <1>7, <2>1, TabFields DEF Covered
    <2>3. \A d \in Around, i \in Items :
              d[i] <= mine[i] \/ \E e \in Coming(u) : d[i] <= e[i]
        BY <2>1 DEF Covered, Reaches
    <2>4. Coming(u) \subseteq Coming(u)' \cup none
        <3>1. /\ \A m \in up : m.kind = "graph" /\ ~m.snapshot /\ m.sid # Sid(u) => m \in up'
              /\ \A m \in Carried(down[u]) : m.kind = "update" /\ ~m.snapshot =>
                     m \in Carried(down'[u]) \/ m.doc \in none
            BY <1>7
        <3>2. tab'[u].connection = tab[u].connection
            BY <1>1, <1>7
        <3> HIDE DEF none
        <3> QED BY <3>1, <3>2, ComingKept
    <2>5. \A d \in new, i \in Items :
              (\E e \in Around : d[i] <= e[i]) \/ Reaches(u, d[i], i)'
        <3>1. CASE \A i \in Items : \E d \in Around : doc[i] <= d[i]
            BY <3>1
        <3>2. CASE \E m \in up' :
                      m.kind = "graph" /\ ~m.snapshot /\ m.sid = Sid(t) /\ m.doc = doc
            <4>1. Sid(t) # Sid(u)'
                BY <1>2, <1>7 DEF Sid
            <4>2. doc \in Coming(u)'
                BY <3>2, <4>1 DEF Coming
            <4> QED BY <1>5, <4>2 DEF Reaches
        <3> QED BY <3>1, <3>2
    <2>6. \A e \in none, i \in Items : e[i] <= mine[i]
        OBVIOUS
    <2> HIDE DEF new, none, mine
    <2> QED BY <1>3, <1>4, <2>2, <2>3, <2>4, <2>5, <2>6, CoveredNext
<1> QED BY <1>6, <1>7

\* What a tab takes from its socket.
LEMMA CarriedTaken ==
    ASSUME Typed, NEW t \in Tabs, NEW kind, Deliver(t, kind),
           down' = [down EXCEPT ![t] = Tail(@)]
    PROVE  /\ \A u \in Tabs : Carried(down'[u]) \subseteq Carried(down[u])
           /\ \A u \in Tabs \ {t} : Carried(down[u]) \subseteq Carried(down'[u])
           /\ \A m \in Carried(down[t]) : m \in Carried(down'[t]) \/ m = Head(down[t])
           /\ kind # "update" /\ kind # "sync" =>
                  \A u \in Tabs : Carried(down[u]) \subseteq Carried(down'[u])
<1>1. down \in Queues /\ down[t] \in Seq(ToTab) /\ down[t] # <<>> /\ Head(down[t]).kind = kind
    BY TabFields DEF Deliver, Queues
<1>2. \A u \in Tabs : down'[u] = IF u = t THEN Tail(down[t]) ELSE down[u]
    BY <1>1 DEF Queues
<1>3. /\ Carried(Tail(down[t])) \subseteq Carried(down[t])
      /\ Carried(down[t]) \subseteq Carried(Tail(down[t])) \cup {Head(down[t])}
      /\ Head(down[t]).kind \notin {"update", "sync"}
         => Carried(Tail(down[t])) = Carried(down[t])
    BY <1>1, CarriedTail
<1> QED BY <1>1, <1>2, <1>3

\* A local change is sent, unless there is none.
LEMMA LocalChangeSent ==
    ASSUME NEW t \in Tabs, tab[t].up, tab[t].doc \in Docs, NEW doc \in Docs,
           LocalChange(t, doc) \subseteq up'
    PROVE  \/ \A i \in Items : \E d \in Around : doc[i] <= d[i]
           \/ \E m \in up' :
                  m.kind = "graph" /\ ~m.snapshot /\ m.sid = Sid(t) /\ m.doc = doc
<1>1. CASE doc = tab[t].doc
    <2>1. doc \in Around /\ \A i \in Items : doc[i] \in Nat
        BY <1>1, AroundIs DEF Docs
    <2> QED BY <2>1
<1>2. CASE doc # tab[t].doc
    <2>1. Graph(Sid(t), doc, FALSE) \in up'
        BY <1>2 DEF LocalChange
    <2> QED BY <2>1 DEF Graph
<1> QED BY <1>1, <1>2

\* What a tab sends of a changed document.
LEMMA LocalChangeIs ==
    ASSUME NEW t \in Tabs, NEW doc
    PROVE  /\ \A m \in LocalChange(t, doc) : m.doc = doc
           /\ Resync(Sid(t)).kind = "resync"
BY DEF LocalChange, Graph, Resync

LEMMA ReceiveStatusCovers ==
    ASSUME Typed, Covering, NEW t \in Tabs, ReceiveStatus(t)
    PROVE  Covering'
<1> DEFINE me == tab[t]
           leads == Head(down[t]).leader
           reloads == leads /\ (me.fresh \/ me.awaiting \/ me.reload)
           doc == IF leads /\ ~reloads THEN Seeded(t) ELSE me.doc
           asks == ~leads /\ ~me.trusted /\ ~me.awaiting
           reload == me.reload \/ reloads
           load == IF reloads /\ (~me.reload \/ ~me.leader) THEN "asked" ELSE me.load
           trusted == me.trusted \/ (leads /\ ~reloads)
           awaiting == IF leads THEN me.awaiting ELSE ~me.trusted
           rebroadcast == me.rebroadcast /\ leads
           retry == asks \/ (me.retry /\ ~leads /\ ~me.trusted)
           r == [tab[t] EXCEPT !.leader = leads, !.reload = reload, !.load = load,
                    !.trusted = trusted, !.awaiting = awaiting,
                    !.rebroadcast = rebroadcast, !.retry = retry, !.doc = doc]
<1>1. /\ Deliver(t, "status") /\ tab' = [tab EXCEPT ![t] = r]
      /\ down' = [down EXCEPT ![t] = Tail(@)] /\ room' = room
      /\ up' = up \cup LocalChange(t, doc) \cup {q \in {Resync(Sid(t))} : asks}
      /\ apart' = (apart \/ (leads /\ ~reloads /\ Misses(t, doc)))
    BY DEF ReceiveStatus, server
<1>2. tab[t].up /\ tab[t].doc \in Docs /\ doc \in Docs
    BY <1>1, DeliverType, TabFields, SeededType DEF Typed
<1>3. \A i \in Items : tab[t].doc[i] <= doc[i]
    <2>1. \A i \in Items : tab[t].doc[i] \in Nat /\ tab[t].doc[i] <= Seeded(t)[i]
        BY <1>2, SeededGrows DEF Docs
    <2> QED BY <2>1
<1>4. trusted /\ ~apart' => tab[t].trusted \/ ~Misses(t, doc)
    BY <1>1
<1> HIDE DEF leads, reloads, asks, reload, load, trusted, awaiting, rebroadcast, retry, doc
<1>5. r.doc = doc /\ r.trusted = trusted /\ r.connection = tab[t].connection
    BY TabFields DEF TabStates
<1>6. \A m \in up' : m.kind \in {"graph", "sync"} => m \in up \/ m.doc = doc
    BY <1>1, LocalChangeIs
<1>7. /\ \A u \in Tabs : Carried(down'[u]) \subseteq Carried(down[u])
      /\ \A u \in Tabs : Carried(down[u]) \subseteq Carried(down'[u])
    <2>1. "status" # "update" /\ "status" # "sync"
        OBVIOUS
    <2> QED BY <1>1, <2>1, CarriedTaken
<1>8. \/ \A i \in Items : \E d \in Around : doc[i] <= d[i]
      \/ \E m \in up' : m.kind = "graph" /\ ~m.snapshot /\ m.sid = Sid(t) /\ m.doc = doc
    BY <1>1, <1>2, LocalChangeSent
<1> HIDE DEF r
<1> QED BY <1>1, <1>2, <1>3, <1>4, <1>5, <1>6, <1>7, <1>8, DocumentCovers

LEMMA ReceiveUpdateCovers ==
    ASSUME Typed, Covering, NEW t \in Tabs, ReceiveUpdate(t)
    PROVE  Covering'
<1> DEFINE me == tab[t]
           m == Head(down[t])
           imports == ~m.snapshot \/ ~me.leader \/ me.awaiting
           doc == IF imports THEN Merge(me.doc, m.doc) ELSE me.doc
           ready == imports /\ m.snapshot /\ me.awaiting
           canvas == IF ready \/ (me.visible /\ doc # me.doc) THEN Content(doc)
                     ELSE me.canvas
           awaiting == me.awaiting /\ ~ready
           trusted == me.trusted \/ ready
           fresh == me.fresh /\ ~ready
           reload == me.reload /\ ~ready
           retry == me.retry /\ ~ready
           rebroadcast == me.rebroadcast /\ ~(ready /\ me.leader)
           answers == ready /\ me.leader /\ me.rebroadcast
           r == [tab[t] EXCEPT !.doc = doc, !.canvas = canvas, !.awaiting = awaiting,
                    !.trusted = trusted, !.fresh = fresh, !.reload = reload,
                    !.retry = retry, !.rebroadcast = rebroadcast]
<1>1. /\ Deliver(t, "update") /\ tab' = [tab EXCEPT ![t] = r]
      /\ down' = [down EXCEPT ![t] = Tail(@)] /\ room' = room
      /\ up' = up \cup {g \in {Graph(Sid(t), doc, TRUE)} : answers}
      /\ apart' = (apart \/ (ready /\ Misses(t, doc)))
    BY DEF ReceiveUpdate, server
<1>2. /\ tab[t].up /\ tab[t].doc \in Docs /\ m \in ToTab /\ m.kind = "update"
      /\ m.doc \in Docs
    BY <1>1, DeliverType, ToTabFields, TabFields
<1>3. doc \in Docs
    BY <1>2, MergeType
<1>4. m.doc \in Around
    <2>1. m \in Carried(down[t])
        <3>1. down[t] \in Seq(ToTab) /\ down[t] # <<>>
            BY <1>1, TabFields DEF Deliver, Queues
        <3>2. 1 \in DOMAIN down[t] /\ down[t][1] = m
            BY <3>1
        <3> QED BY <1>2, <3>2 DEF Carried, ToSet
    <2> QED BY <2>1, AroundIs
<1>5. /\ \A i \in Items : tab[t].doc[i] <= doc[i]
      /\ ~m.snapshot => \A i \in Items : m.doc[i] <= doc[i]
    BY <1>2, MergeBounds
<1>6. \A i \in Items : \E d \in Around : doc[i] <= d[i]
    <2>1. tab[t].doc \in Around
        BY <1>2, AroundIs
    <2>2. ASSUME NEW i \in Items
          PROVE  \E d \in Around : doc[i] <= d[i]
        <3>1. tab[t].doc[i] \in Nat /\ m.doc[i] \in Nat /\ doc[i] \in {tab[t].doc[i], m.doc[i]}
            BY <1>2, MergeBounds
        <3> QED BY <1>4, <2>1, <3>1
    <2> QED BY <2>2
<1>7. trusted /\ ~apart' => tab[t].trusted \/ ~Misses(t, doc)
    BY <1>1
<1> HIDE DEF imports, ready, reload, trusted, awaiting, rebroadcast, retry, fresh, answers,
            doc, canvas
<1>8. r.doc = doc /\ r.trusted = trusted /\ r.connection = tab[t].connection
    BY TabFields DEF TabStates
<1>9. \A g \in up' : g.kind \in {"graph", "sync"} => g \in up \/ g.doc = doc
    BY <1>1 DEF Graph
<1>10. /\ \A u \in Tabs : Carried(down'[u]) \subseteq Carried(down[u])
       /\ \A u \in Tabs \ {t} : Carried(down[u]) \subseteq Carried(down'[u])
       /\ \A g \in Carried(down[t]) : g \in Carried(down'[t]) \/ g = m
    BY <1>1, CarriedTaken
<1>11. \A g \in Carried(down[t]) : g.kind = "update" /\ ~g.snapshot =>
           g \in Carried(down'[t]) \/ \A i \in Items : g.doc[i] <= doc[i]
    BY <1>5, <1>10
<1>12. up \subseteq up' /\ (apart => apart') /\ room' = room /\ tab' = [tab EXCEPT ![t] = r]
    BY <1>1
<1> HIDE DEF r, m
<1> QED BY <1>2, <1>3, <1>5, <1>6, <1>7, <1>8, <1>9, <1>10, <1>11, <1>12, DocumentCovers

LEMMA ReceiveResyncCovers ==
    ASSUME Typed, Covering, NEW t \in Tabs, ReceiveResync(t)
    PROVE  Covering'
<1>1. /\ Deliver(t, "resync") /\ down' = [down EXCEPT ![t] = Tail(@)] /\ room' = room
      /\ apart' = apart
    BY DEF ReceiveResync, server, past
<1>2. /\ \A u \in Tabs : Carried(down'[u]) \subseteq Carried(down[u])
      /\ \A u \in Tabs : Carried(down[u]) \subseteq Carried(down'[u])
    <2>1. "resync" # "update" /\ "resync" # "sync"
        OBVIOUS
    <2> QED BY <1>1, <2>1, CarriedTaken
<1>3. CASE ~tab[t].trusted \/ tab[t].reload
    <2>1. tab' = [tab EXCEPT ![t].rebroadcast = TRUE] /\ up' = up
        BY <1>3 DEF ReceiveResync
    <2>2. \A u \in Tabs : /\ tab'[u].up = tab[u].up /\ tab'[u].doc = tab[u].doc
                          /\ tab'[u].trusted = tab[u].trusted
                          /\ tab'[u].connection = tab[u].connection
        BY <2>1, TabFields DEF TabStates
    <2> QED BY <1>1, <1>2, <2>1, <2>2, SilentCovers
<1>4. CASE ~(~tab[t].trusted \/ tab[t].reload)
    <2> DEFINE doc == Seeded(t)
               r == [tab[t] EXCEPT !.doc = doc, !.rebroadcast = FALSE]
    <2>1. /\ tab' = [tab EXCEPT ![t] = r]
          /\ up' = up \cup LocalChange(t, doc) \cup {Graph(Sid(t), doc, TRUE)}
        BY <1>4 DEF ReceiveResync
    <2>2. tab[t].up /\ tab[t].doc \in Docs /\ doc \in Docs
          /\ \A i \in Items : tab[t].doc[i] <= doc[i]
        BY <1>1, DeliverType, TabFields, SeededType, SeededGrows DEF Typed
    <2> HIDE DEF doc
    <2>3. r.doc = doc /\ r.connection = tab[t].connection
        BY TabFields DEF TabStates
    <2>4. \A m \in up' : m.kind \in {"graph", "sync"} => m \in up \/ m.doc = doc
        BY <2>1, LocalChangeIs DEF Graph
    <2>5. \/ \A i \in Items : \E d \in Around : doc[i] <= d[i]
          \/ \E m \in up' : m.kind = "graph" /\ ~m.snapshot /\ m.sid = Sid(t) /\ m.doc = doc
        BY <2>1, <2>2, LocalChangeSent
    <2> HIDE DEF r
    <2> QED BY <1>1, <1>2, <1>4, <2>1, <2>2, <2>3, <2>4, <2>5, DocumentCovers
<1> QED BY <1>3, <1>4

\* The record of a tab may change, but not in these.
DocumentKept(u) ==
    /\ tab'[u].up = tab[u].up /\ tab'[u].doc = tab[u].doc
    /\ tab'[u].trusted = tab[u].trusted /\ tab'[u].connection = tab[u].connection

LEMMA QuietTabCovers ==
    ASSUME Typed, Covering, room' = room, apart' = apart, \A u \in Tabs : DocumentKept(u),
           up \subseteq up',
           \A m \in up' : m.kind \in {"graph", "sync"} => m \in up \/ m.doc \in Around,
           \A u \in Tabs : /\ Carried(down'[u]) \subseteq Carried(down[u])
                           /\ \A m \in Carried(down[u]) :
                                  m.kind = "update" => m \in Carried(down'[u])
    PROVE  Covering'
BY SilentCovers DEF DocumentKept

\* A tab takes a request for a save, and may refuse it at once.
LEMMA SyncTaken ==
    ASSUME Typed, NEW t \in Tabs, NEW taken \in Queues,
           \A u \in Tabs : taken[u] = IF u = t THEN Tail(down[t]) ELSE down[u],
           Deliver(t, "sync"),
           down' = taken \/ \E sids : down' = Emit(taken, sids, Ack(FALSE, {}))
    PROVE  \A u \in Tabs : /\ Carried(down'[u]) \subseteq Carried(down[u])
                           /\ u # t => Carried(down[u]) \subseteq Carried(down'[u])
                           /\ \A m \in Carried(down[u]) :
                                  m.kind = "update" => m \in Carried(down'[u])
<1>1. down[t] \in Seq(ToTab) /\ down[t] # <<>> /\ Head(down[t]).kind = "sync"
    BY TabFields DEF Deliver, Queues
<1>2. /\ Carried(Tail(down[t])) \subseteq Carried(down[t])
      /\ Carried(down[t]) \subseteq Carried(Tail(down[t])) \cup {Head(down[t])}
    BY <1>1, CarriedTail
<1>3. Ack(FALSE, {}) \in ToTab /\ Ack(FALSE, {}).kind \notin {"update", "sync"}
    BY DEF Ack, ToTab
<1>4. \A u \in Tabs : Carried(down'[u]) = Carried(taken[u])
    <2> DEFINE refusal == Ack(FALSE, {})
    <2> HIDE DEF refusal
    <2>1. refusal \in ToTab /\ refusal.kind \notin {"update", "sync"}
        BY <1>3 DEF refusal
    <2>2. CASE \E sids : down' = Emit(taken, sids, refusal)
        <3>1. PICK sids : down' = Emit(taken, sids, refusal)
            BY <2>2
        <3> QED BY <2>1, <3>1, CarriedEmit
    <2> QED BY <2>2 DEF refusal
<1> QED BY <1>1, <1>2, <1>4

LEMMA ReceiveSyncCovers ==
    ASSUME Typed, Covering, NEW t \in Tabs, ReceiveSync(t)
    PROVE  Covering'
<1> DEFINE m == Head(down[t])
           doc == Merge(tab[t].doc, m.doc)
           taken == [down EXCEPT ![t] = Tail(@)]
<1>1. /\ Deliver(t, "sync") /\ room' = room /\ apart' = apart /\ up' = up
      /\ \/ down' = taken
         \/ \E sids : down' = Emit(taken, sids, Ack(FALSE, {}))
    BY DEF ReceiveSync, server, past
<1>2. /\ tab[t].up /\ tab[t].doc \in Docs /\ taken \in Queues /\ m \in ToTab
      /\ m.kind = "sync" /\ m.doc \in Docs
    BY <1>1, DeliverType, ToTabFields, TabFields
<1>3. \A u \in Tabs : /\ Carried(down'[u]) \subseteq Carried(down[u])
                      /\ u # t => Carried(down[u]) \subseteq Carried(down'[u])
                      /\ \A g \in Carried(down[u]) :
                             g.kind = "update" => g \in Carried(down'[u])
    <2>1. \A u \in Tabs : taken[u] = IF u = t THEN Tail(down[t]) ELSE down[u]
        BY TabFields DEF Queues
    <2> HIDE DEF taken
    <2> QED BY <1>1, <1>2, <2>1, SyncTaken
<1>4. CASE CanPersist(t)
    <2> DEFINE r == [tab[t] EXCEPT !.doc = doc, !.canvas = Content(doc)]
    <2>1. tab' = [tab EXCEPT ![t] = r]
        BY <1>4 DEF ReceiveSync
    <2>2. r.doc = doc /\ r.connection = tab[t].connection /\ r.trusted = tab[t].trusted
        BY TabFields DEF TabStates
    <2>3. doc \in Docs /\ \A i \in Items : tab[t].doc[i] <= doc[i]
        BY <1>2, MergeType, MergeBounds
    <2>4. \A i \in Items : \E d \in Around : doc[i] <= d[i]
        <3>1. m.doc \in Around /\ tab[t].doc \in Around
            <4>1. 1 \in DOMAIN down[t] /\ down[t][1] = m
                <5>1. down[t] \in Seq(ToTab) /\ down[t] # <<>>
                    BY <1>1, TabFields DEF Deliver, Queues
                <5> QED BY <5>1
            <4>2. m \in Carried(down[t])
                BY <1>2, <4>1 DEF Carried, ToSet
            <4> QED BY <1>2, <4>2, AroundIs
        <3>2. ASSUME NEW i \in Items
              PROVE  \E d \in Around : doc[i] <= d[i]
            <4>1. /\ tab[t].doc[i] \in Nat /\ m.doc[i] \in Nat
                  /\ doc[i] \in {tab[t].doc[i], m.doc[i]}
                BY <1>2, MergeBounds
            <4> QED BY <3>1, <4>1
        <3> QED BY <3>2
    <2> HIDE DEF r, doc, m
    <2>5. /\ \A u \in Tabs : Carried(down'[u]) \subseteq Carried(down[u])
          /\ \A u \in Tabs \ {t} : Carried(down[u]) \subseteq Carried(down'[u])
          /\ \A g \in Carried(down[t]) : g.kind = "update" => g \in Carried(down'[t])
        BY <1>3
    <2> QED BY <1>1, <1>2, <1>4, <2>1, <2>2, <2>3, <2>4, <2>5, DocumentCovers
<1>5. CASE ~CanPersist(t)
    <2>1. tab' = tab
        BY <1>5 DEF ReceiveSync
    <2> QED BY <1>1, <1>3, <2>1, QuietTabCovers DEF DocumentKept
<1> QED BY <1>4, <1>5

LEMMA ReceiveAckCovers ==
    ASSUME Typed, Covering, NEW t \in Tabs, ReceiveAck(t)
    PROVE  Covering'
<1>1. /\ Deliver(t, "ack") /\ room' = room /\ apart' = apart /\ up' = up
      /\ down' = [down EXCEPT ![t] = Tail(@)]
    BY DEF ReceiveAck, server, past
<1>2. /\ \A u \in Tabs : Carried(down'[u]) \subseteq Carried(down[u])
      /\ \A u \in Tabs : Carried(down[u]) \subseteq Carried(down'[u])
    <2>1. "ack" # "update" /\ "ack" # "sync"
        OBVIOUS
    <2> QED BY <1>1, <2>1, CarriedTaken
<1>3. \A u \in Tabs : DocumentKept(u)
    BY TabFields DEF ReceiveAck, TabStates, DocumentKept
<1> QED BY <1>1, <1>2, <1>3, QuietTabCovers

LEMMA ReplaceGraphCovers ==
    ASSUME Typed, Covering, NEW t \in Tabs, ReplaceGraph(t)
    PROVE  Covering'
<1> DEFINE me == tab[t]
           current == me.leader /\ me.reload /\ ~me.trusted
           doc == SetItems(me.doc, me.loaded)
<1>1. room' = room /\ down' = down
    BY DEF ReplaceGraph, server
<1>2. CASE current
    <2> DEFINE r == [tab[t] EXCEPT !.load = "none", !.canvas = me.loaded,
                        !.hash = me.loaded, !.doc = doc, !.trusted = TRUE,
                        !.awaiting = FALSE, !.fresh = FALSE, !.reload = FALSE,
                        !.retry = FALSE, !.rebroadcast = FALSE]
    <2>1. /\ tab' = [tab EXCEPT ![t] = r] /\ apart' = (apart \/ Misses(t, doc))
          /\ up' = up \cup LocalChange(t, doc)
                      \cup {g \in {Graph(Sid(t), doc, TRUE)} : me.rebroadcast}
        BY <1>2 DEF ReplaceGraph
    <2>2. tab[t].up /\ tab[t].doc \in Docs /\ doc \in Docs
        BY <1>2, TabFields, SetItemsType
    <2>3. \A i \in Items : tab[t].doc[i] <= doc[i]
        BY <2>2, SetItemsGrows
    <2>4. r.doc = doc /\ r.connection = tab[t].connection
        BY TabFields DEF TabStates
    <2> HIDE DEF r, doc
    <2>5. \A m \in up' : m.kind \in {"graph", "sync"} => m \in up \/ m.doc = doc
        BY <2>1, LocalChangeIs DEF Graph
    <2>6. \/ \A i \in Items : \E d \in Around : doc[i] <= d[i]
          \/ \E m \in up' : m.kind = "graph" /\ ~m.snapshot /\ m.sid = Sid(t) /\ m.doc = doc
        BY <2>1, <2>2, LocalChangeSent
    <2>7. r.trusted /\ ~apart' => tab[t].trusted \/ ~Misses(t, doc)
        BY <2>1
    <2> QED BY <1>1, <2>1, <2>2, <2>3, <2>4, <2>5, <2>6, <2>7, DocumentCovers
<1>3. CASE ~current
    <2>1. tab' = [tab EXCEPT ![t].load = "none"] /\ up' = up /\ apart' = apart
        BY <1>3 DEF ReplaceGraph, past
    <2>2. \A u \in Tabs : DocumentKept(u)
        BY <2>1, TabFields DEF TabStates, DocumentKept
    <2> QED BY <1>1, <2>1, <2>2, QuietTabCovers
<1> QED BY <1>2, <1>3

LEMMA EditCovers ==
    ASSUME Typed, Covering, NEW t \in Tabs, NEW i \in Items, Edit(t, i)
    PROVE  Covering'
<1> DEFINE doc == SetItems(Seeded(t), Content(Seeded(t)) \cup {i})
           canvas == tab[t].canvas \cup {i}
           r == [tab[t] EXCEPT !.canvas = canvas, !.doc = doc]
<1>1. /\ tab[t].up /\ tab[t].trusted /\ tab' = [tab EXCEPT ![t] = r]
      /\ up' = up \cup LocalChange(t, doc)
      /\ room' = room /\ down' = down /\ apart' = apart
    BY DEF Edit, CanPersist, server, past
<1>2. tab[t].doc \in Docs /\ Seeded(t) \in Docs /\ doc \in Docs
    BY TabFields, SeededType, SetItemsType DEF Typed
<1>3. \A j \in Items : tab[t].doc[j] <= doc[j]
    <2>1. ASSUME NEW j \in Items
          PROVE  tab[t].doc[j] <= doc[j]
        <3>1. tab[t].doc[j] <= Seeded(t)[j] /\ Seeded(t)[j] <= doc[j]
            BY <1>2, SeededGrows, SetItemsGrows
        <3>2. tab[t].doc[j] \in Nat /\ Seeded(t)[j] \in Nat /\ doc[j] \in Nat
            BY <1>2 DEF Docs
        <3> HIDE DEF doc
        <3> QED BY <3>1, <3>2
    <2> QED BY <2>1
<1>4. r.doc = doc /\ r.connection = tab[t].connection
    BY TabFields DEF TabStates
<1> HIDE DEF r, doc
<1>5. \A m \in up' : m.kind \in {"graph", "sync"} => m \in up \/ m.doc = doc
    BY <1>1, LocalChangeIs
<1>6. \/ \A j \in Items : \E d \in Around : doc[j] <= d[j]
      \/ \E m \in up' : m.kind = "graph" /\ ~m.snapshot /\ m.sid = Sid(t) /\ m.doc = doc
    BY <1>1, <1>2, LocalChangeSent
<1> QED BY <1>1, <1>2, <1>3, <1>4, <1>5, <1>6, DocumentCovers

LEMMA ConnectCovers ==
    ASSUME Typed, Covering, NEW t \in Tabs, Connect(t)
    PROVE  Covering'
<1> DEFINE next == tab[t].connection + 1
           r == [tab[t] EXCEPT !.up = TRUE, !.connection = next,
                     !.fresh = tab[t].connection > 0, !.doc = Empty, !.rebroadcast = FALSE,
                     !.load = "none", !.loaded = {}, !.awaiting = FALSE, !.trusted = FALSE]
           new == {Empty}
           none == {}
<1>1. /\ tab' = [tab EXCEPT ![t] = r] /\ up' = up \cup {Join(<<t, next>>)}
      /\ down' = [down EXCEPT ![t] = <<>>] /\ UNCHANGED <<room, apart>>
    BY DEF Connect, past
<1>2. r.doc = Empty /\ ~r.trusted
    BY TabFields DEF TabStates
<1> HIDE DEF r
<1>3. \A u \in Tabs : tab'[u] = IF u = t THEN r ELSE tab[u]
    BY <1>1, TabFields
<1>4. \A u \in Tabs : down'[u] = IF u = t THEN <<>> ELSE down[u]
    BY <1>1, TabFields DEF Queues
<1>5. \A m \in up' : m \in up \/ m.kind = "join"
    BY <1>1 DEF Join
<1>6. Carried(<<>>) = {}
    <2>1. DOMAIN <<>> = {}
        OBVIOUS
    <2> QED BY <2>1 DEF Carried, ToSet
<1>7. Around' \subseteq Around \cup new
    <2>1. \A u \in Tabs : tab'[u].up =>
              (tab[u].up /\ tab'[u].doc = tab[u].doc) \/ tab'[u].doc \in new
        BY <1>2, <1>3
    <2>2. \A u \in Tabs : \A m \in Carried(down'[u]) : m \in Carried(down[u])
        BY <1>4, <1>6
    <2> HIDE DEF new
    <2> QED BY <1>5, <2>1, <2>2, AroundGrows
<1> SUFFICES ASSUME ~apart', NEW u \in Tabs, tab'[u].trusted
             PROVE  Covered(u)'
    BY DEF Covering, Covered
<1>8. u # t /\ tab'[u] = tab[u] /\ Sid(u)' = Sid(u)
    BY <1>2, <1>3 DEF Sid
<1> DEFINE mine == tab[u].doc
<1>9. Covered(u) /\ tab[u].trusted
    BY <1>1, <1>8 DEF Covering
<1>10. mine \in Docs /\ tab'[u].doc = mine /\ Sid(u)' \in room'
    BY <1>1, <1>8, <1>9, TabFields DEF Covered
<1>11. \A d \in Around, i \in Items :
           d[i] <= mine[i] \/ \E e \in Coming(u) : d[i] <= e[i]
    BY <1>9 DEF Covered, Reaches
<1>12. Coming(u) \subseteq Coming(u)' \cup none
    <2>1. /\ \A m \in up : m \in up'
          /\ \A m \in Carried(down[u]) : m \in Carried(down'[u])
          /\ tab'[u].connection = tab[u].connection
        BY <1>1, <1>4, <1>8
    <2> HIDE DEF none
    <2> QED BY <2>1, ComingKept
<1>13. \A d \in new, i \in Items : Reaches(u, d[i], i)'
    <2>1. \A i \in Items : 0 <= mine[i]
        BY <1>10 DEF Docs
    <2> QED BY <1>10, <2>1 DEF Empty, Reaches
<1>14. new \in SUBSET Docs /\ \A e \in none, i \in Items : e[i] <= mine[i]
    BY EmptyType
<1> HIDE DEF new, none, mine
<1> QED BY <1>7, <1>10, <1>11, <1>12, <1>13, <1>14, CoveredNext

LEMMA DisconnectCovers ==
    ASSUME Typed, Covering, NEW t \in Tabs, Disconnect(t)
    PROVE  Covering'
<1> DEFINE r == [tab[t] EXCEPT !.up = FALSE, !.leader = FALSE, !.trusted = FALSE,
                    !.fresh = FALSE, !.awaiting = FALSE, !.reload = FALSE, !.retry = FALSE]
<1>1. /\ tab' = [tab EXCEPT ![t] = r] /\ room' = room /\ apart' = apart /\ up' = up
      /\ down' = [down EXCEPT ![t] = <<>>]
    BY DEF Disconnect, server, past
<1>2. ~r.up /\ ~r.trusted
    BY TabFields DEF TabStates
<1> HIDE DEF r
<1>3. \A u \in Tabs : tab'[u] = IF u = t THEN r ELSE tab[u]
    BY <1>1, TabFields
<1>4. \A u \in Tabs : down'[u] = IF u = t THEN <<>> ELSE down[u]
    BY <1>1, TabFields DEF Queues
<1>5. Carried(<<>>) = {}
    <2>1. DOMAIN <<>> = {}
        OBVIOUS
    <2> QED BY <2>1 DEF Carried, ToSet
<1>6. \A u \in Tabs : Carried(down'[u]) \subseteq Carried(down[u])
    BY <1>4, <1>5
<1>7. \A u \in Tabs : tab'[u].trusted => u # t /\ tab'[u] = tab[u] /\ down'[u] = down[u]
    BY <1>2, <1>3, <1>4
<1>8. \A u \in Tabs : tab'[u].up => tab'[u] = tab[u]
    BY <1>2, <1>3
<1> QED BY <1>1, <1>6, <1>7, <1>8, SilentCovers

LEMMA QuietStepCovers ==
    ASSUME Typed, Covering, NEW t \in Tabs,
           \/ RetryResync(t) \/ ReadDraft(t) \/ Hide(t) \/ Show(t) \/ CallSave(t)
           \/ SaveDraft(t) \/ RefreshStarts(t) \/ RefreshHash(t)
    PROVE  Covering'
<1>1. room' = room /\ apart' = apart
    BY DEF RetryResync, ReadDraft, Hide, Show, CallSave, SaveDraft, RefreshStarts,
           RefreshHash, server, past
<1>2. ASSUME NEW u \in Tabs
      PROVE  DocumentKept(u)
    <2>1. CASE RetryResync(t) \/ CallSave(t)
        BY <2>1 DEF RetryResync, CallSave, DocumentKept
    <2>2. CASE ReadDraft(t)
        BY <2>2, TabFields DEF ReadDraft, TabStates, DocumentKept
    <2>3. CASE Hide(t)
        BY <2>3, TabFields DEF Hide, TabStates, DocumentKept
    <2>4. CASE Show(t)
        BY <2>4, TabFields DEF Show, TabStates, DocumentKept
    <2>5. CASE SaveDraft(t)
        BY <2>5, TabFields DEF SaveDraft, TabStates, DocumentKept
    <2>6. CASE RefreshStarts(t)
        BY <2>6, TabFields DEF RefreshStarts, TabStates, DocumentKept
    <2>7. CASE RefreshHash(t)
        BY <2>7, TabFields DEF RefreshHash, TabStates, DocumentKept
    <2> QED BY <2>1, <2>2, <2>3, <2>4, <2>5, <2>6, <2>7
<1>3. /\ up \subseteq up'
      /\ \A m \in up' : m.kind \in {"graph", "sync"} => m \in up \/ m.doc \in Around
    <2>1. CASE RetryResync(t)
        BY <2>1 DEF RetryResync, Resync
    <2>2. CASE CallSave(t)
        <3>1. tab[t].doc \in Around
            BY <2>2, TabFields, AroundIs DEF CallSave, CanPersist
        <3>2. up' = up \/ up' = up \cup {SyncRequest(Sid(t), tab[t].doc)}
            BY <2>2 DEF CallSave
        <3> QED BY <3>1, <3>2 DEF SyncRequest
    <2>3. CASE up' = up
        BY <2>3
    <2> QED BY <2>1, <2>2, <2>3
        DEF ReadDraft, Hide, Show, SaveDraft, RefreshStarts, RefreshHash
<1>4. \A u \in Tabs : Carried(down'[u]) = Carried(down[u])
    <2>1. CASE SaveDraft(t)
        <3> DEFINE job == Head(jobs[t])
                   accepted == job.base = draft
                   answer == Ack(accepted, job.items)
                   answered == Emit(down, {job.for}, answer)
                   refusal == Ack(FALSE, {})
        <3>1. down' = answered \/ \E dropped : down' = Emit(answered, dropped, refusal)
            BY <2>1 DEF SaveDraft
        <3>2. job.items \subseteq Items
            <4>1. jobs[t] \in Seq(Jobs) /\ jobs[t] # <<>>
                BY <2>1, TabFields DEF SaveDraft
            <4>2. job \in Jobs
                BY <4>1
            <4> QED BY <4>2 DEF Jobs
        <3>3. accepted \in BOOLEAN
            OBVIOUS
        <3> HIDE DEF job, accepted
        <3>4. /\ answer \in ToTab /\ answer.kind \notin {"update", "sync"}
              /\ refusal \in ToTab /\ refusal.kind \notin {"update", "sync"}
            BY <3>2, <3>3 DEF Ack, ToTab
        <3> HIDE DEF answer, refusal
        <3>5. /\ answered \in Queues
              /\ \A u \in Tabs : Carried(answered[u]) = Carried(down[u])
            BY <3>4, TabFields, EmitType, CarriedEmit
        <3> HIDE DEF answered
        <3> QED BY <3>1, <3>4, <3>5, CarriedEmit
    <2>2. CASE down' = down
        BY <2>2
    <2> QED BY <2>1, <2>2
        DEF RetryResync, ReadDraft, Hide, Show, CallSave, RefreshStarts, RefreshHash
<1> QED BY <1>1, <1>2, <1>3, <1>4, QuietTabCovers

LEMMA InitCovers == Init => Covering
BY DEF Init, Covering, Covered

LEMMA StepCovers == Typed /\ Covering /\ [Next]_vars => Covering'
<1> SUFFICES ASSUME Typed, Covering, [Next]_vars PROVE Covering'
    OBVIOUS
<1>1. CASE UNCHANGED vars
    <2>1. UNCHANGED <<tab, up, down, room, apart>>
        BY <1>1 DEF vars, server, past
    <2> QED BY <2>1, QuietTabCovers DEF DocumentKept
<1>2. CASE Next
    <2>1. PICK t \in Tabs :
              \/ Connect(t) \/ Disconnect(t)
              \/ Server(t) \/ Receive(t)
              \/ RetryResync(t) \/ ReadDraft(t) \/ ReplaceGraph(t)
              \/ \E i \in Items : Edit(t, i)
              \/ Hide(t) \/ Show(t)
              \/ CallSave(t) \/ SaveDraft(t)
              \/ RefreshStarts(t) \/ RefreshHash(t)
        BY <1>2 DEF Next
    <2>2. CASE Server(t)
        <3>1. CASE \E m \in {m \in up : m.sid[1] = t} :
                      JoinSession(m.sid) \/ Refuse(m) \/ RelayGraph(m) \/ RelayResync(m)
                      \/ RelaySync(m)
            <4>1. PICK m \in up : JoinSession(m.sid) \/ Refuse(m) \/ RelayGraph(m)
                                  \/ RelayResync(m) \/ RelaySync(m)
                BY <3>1
            <4>2. m.sid \in Sids
                BY ToServerFields DEF Typed, TypeOK
            <4> QED BY <4>1, <4>2, RoomCovers, RelayCovers
        <3>2. CASE \E s \in Sids, b \in BOOLEAN : s[1] = t /\ JoinAnswer(s, b)
            BY <3>2, RoomCovers
        <3>3. CASE \E s \in {s \in Sids : s[1] = t} :
                      \/ ServerDisconnects(s) \/ RefuseView(s)
                      \/ \E n \in DOMAIN views[s] : RelayView(s, n)
            BY <3>3, RoomCovers
        <3> QED BY <2>2, <3>1, <3>2, <3>3 DEF Server
    <2>3. CASE Receive(t)
        BY <2>3, ReceiveStatusCovers, ReceiveUpdateCovers, ReceiveResyncCovers,
           ReceiveSyncCovers, ReceiveAckCovers DEF Receive
    <2>4. CASE Connect(t) \/ Disconnect(t) \/ ReplaceGraph(t) \/ \E i \in Items : Edit(t, i)
        BY <2>4, ConnectCovers, DisconnectCovers, ReplaceGraphCovers, EditCovers
    <2>5. CASE \/ RetryResync(t) \/ ReadDraft(t) \/ Hide(t) \/ Show(t)
               \/ CallSave(t) \/ SaveDraft(t) \/ RefreshStarts(t) \/ RefreshHash(t)
        BY <2>5, QuietStepCovers
    <2> QED BY <2>1, <2>2, <2>3, <2>4, <2>5
<1> QED BY <1>1, <1>2

\* When all is delivered, trusted tabs show the same graph, if none became trusted
\* without what nobody would send to it any more (handleGraphUpdate, seeding and
\* replaceGraphFromReactFlow in the tabs, relay_graph_event in the server).
THEOREM TrustedTabsAgree == Spec => []Converged
<1>1. Typed /\ Covering => Converged
    <2> SUFFICES ASSUME Typed, Covering, Quiet, ~apart, NEW t \in Tabs, NEW u \in Tabs,
                        tab[t].trusted, tab[u].trusted
                 PROVE  Content(tab[t].doc) = Content(tab[u].doc)
        BY DEF Converged
    <2>1. ASSUME NEW s \in Tabs
          PROVE  Coming(s) = {}
        <3>1. up = {} /\ down[s] = <<>>
            BY DEF Quiet
        <3>2. DOMAIN <<>> = {}
            OBVIOUS
        <3>3. ToSet(down[s]) = {}
            BY <3>1, <3>2 DEF ToSet
        <3> QED BY <3>1, <3>3 DEF Coming
    <2>2. tab[t].doc \in Around /\ tab[u].doc \in Around
        BY TabFields, AroundIs
    <2>3. Covered(t) /\ Covered(u)
        BY DEF Covering
    <2>4. \A i \in Items : tab[u].doc[i] <= tab[t].doc[i] /\ tab[t].doc[i] <= tab[u].doc[i]
        BY <2>1, <2>2, <2>3 DEF Covered, Reaches
    <2>5. \A i \in Items : tab[t].doc[i] \in Nat /\ tab[u].doc[i] \in Nat
        BY TabFields DEF Docs
    <2>6. \A i \in Items : tab[t].doc[i] = tab[u].doc[i]
        BY <2>4, <2>5
    <2> QED BY <2>6 DEF Content
<1> QED BY <1>1, InitTyped, StepTyped, InitCovers, StepCovers, PTL DEF Spec
=============================================================================
