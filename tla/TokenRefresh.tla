---------------------------- MODULE TokenRefresh ----------------------------
(***************************************************************************)
(* Renewal of the session of the console, web/service/refresh-token.ts:    *)
(* the calls of the tabs of one browser that were answered 401 share a     *)
(* lock, isRefreshing within a tab and is_other_tab_refreshing in          *)
(* localStorage across tabs; a page load renews through the route          *)
(* web/app/auth/refresh without it.  The server rotates the refresh token: *)
(* it looks the token of the cookie up, deletes it and stores a new one.   *)
(*                                                                         *)
(* A tab runs one task at a time, and what a task does at once is one      *)
(* step; but tabs are processes, so between the moment a task reads        *)
(* localStorage and the moment it writes there another tab may run.        *)
(*                                                                         *)
(* A tab is one page.  When it is to be left (by its user, or since a call *)
(* of it was refused, web/service/base.ts) the browser announces that with *)
(* beforeunload; the tasks of the page go on until the next page is there, *)
(* or for good when the navigation is given up or brings no other page.    *)
(***************************************************************************)
EXTENDS Integers, Sequences, FiniteSets

CONSTANTS
    Tabs,
    Calls,      \* calls of refreshAccessTokenOrReLogin
    TabOf,      \* the tab of a call
    Loads,      \* page loads that find the session expired
    MaxTroubles \* bound on page loads, departures, lost requests and crashes

ASSUME TokenAssumption ==
    /\ TabOf \in [Calls -> Tabs]
    /\ Calls \cap Loads = {}
    /\ MaxTroubles \in Nat

Requests == Calls \cup Loads

VARIABLES
    open,        \* the tab is there
    unloading,   \* beforeunload was announced and the tab is to be left
    refreshing,  \* isRefreshing, per tab
    listening,   \* releaseRefreshLock listens to beforeunload, per tab
    sign, stamp, \* is_other_tab_refreshing; how old last_refresh_time is
    pc,          \* where a call is
    timers,      \* the timeouts of a tab, all of one length, so first come first fires
    loose,       \* history: the tabs with requests under way whose lock a timeout
                 \* or a beforeunload released under such a request
    late,        \* history: the calls that took the lock after the beforeunload
                 \* of a tab that is to be left, or was
    req,         \* where a request is
    token,       \* the refresh token a request carries
    issued,      \* the one its answer brings
    cookie, valid, last, \* in the browser; known to the server; last one made
    met,         \* history: the pairs of requests that overlapped
    lost,        \* history: calls whose answer does not come
    crashes, failures, \* tabs that crashed, requests that failed
    departures   \* navigations that were announced

page == <<open, unloading>>
history == <<loose, late>>
troubles == <<crashes, failures, departures>>
lock == <<refreshing, listening, sign, stamp>>
wire == <<req, token, issued, cookie, valid, last, met, lost>>
vars == <<page, lock, pc, timers, history, wire, troubles>>

Init ==
    /\ open = [t \in Tabs |-> TRUE] /\ unloading = [t \in Tabs |-> FALSE]
    /\ refreshing = [t \in Tabs |-> FALSE] /\ listening = [t \in Tabs |-> FALSE]
    /\ sign = FALSE /\ stamp = "none"
    /\ pc = [c \in Calls |-> "idle"]
    /\ timers = [t \in Tabs |-> <<>>]
    /\ loose = {} /\ late = {}
    /\ req = [r \in Requests |-> "none"]
    /\ token = [r \in Requests |-> 0] /\ issued = [r \in Requests |-> 0]
    /\ cookie = 0 /\ valid = {0} /\ last = 0
    /\ met = {} /\ lost = {} /\ crashes = 0 /\ failures = 0 /\ departures = 0

\* A task of the tab is between its reading and its writing of localStorage.
Busy(t) == \E c \in Calls : TabOf[c] = t /\ pc[c] \in {"entering", "leaving"}

\* The tab of the call may start a task.
Runs(c) == open[TabOf[c]] /\ ~Busy(TabOf[c])

\* releaseRefreshLock, which asks nobody whose lock it is.
Release(t) ==
    /\ refreshing' = [refreshing EXCEPT ![t] = FALSE]
    /\ listening' = [listening EXCEPT ![t] = FALSE]
    /\ sign' = FALSE /\ stamp' = "none"

\* A call of the tab waits for the answer to its request.
UnderWay(t) == \E c \in Calls : TabOf[c] = t /\ pc[c] = "sending"

\* The lock is released, perhaps under a request.
Loosens(t) == loose' = IF UnderWay(t) THEN loose \cup {t} ELSE loose

\* The request of a call has ended, perhaps as the last one of its tab.
Settled(c) == loose' = IF UnderWay(TabOf[c])' THEN loose ELSE loose \ {TabOf[c]}

InFlight(r) == req[r] \in {"sent", "lookedUp", "rotated", "refused"}

TroubleMayCome ==
    crashes + failures + departures + Cardinality({r \in Loads : req[r] # "none"})
        < MaxTroubles

\* Mutant: the state of a request that has been sent is misspelled.
SendMisspelled(r) ==
    /\ req' = [req EXCEPT ![r] = "send"]
    /\ token' = [token EXCEPT ![r] = cookie]
    /\ UNCHANGED met

Send(r) ==
    /\ req' = [req EXCEPT ![r] = "sent"]
    /\ token' = [token EXCEPT ![r] = cookie]
    /\ met' = met \cup {{r, s} : s \in {s \in Requests : InFlight(s)}}

-----------------------------------------------------------------------------
(* Calls in a tab. *)

\* Mutant: the lock of the tab is not looked at.
CallIgnoringTab(c) ==
    /\ pc[c] = "idle" /\ Runs(c)
    /\ timers' = [timers EXCEPT ![TabOf[c]] = Append(@, c)]
    /\ pc' = [pc EXCEPT ![c] = IF sign /\ stamp = "fresh" THEN "waiting" ELSE "entering"]
    /\ UNCHANGED <<page, lock, history, wire, troubles>>

\* The timeout is started, then the lock is read.
Call(c) ==
    /\ pc[c] = "idle" /\ Runs(c)
    /\ timers' = [timers EXCEPT ![TabOf[c]] = Append(@, c)]
    /\ pc' = [pc EXCEPT ![c] = IF (sign /\ stamp = "fresh") \/ refreshing[TabOf[c]]
                               THEN "waiting" ELSE "entering"]
    /\ UNCHANGED <<page, lock, history, wire, troubles>>

\* The lock is taken and the request sent.
Acquire(c) ==
    /\ pc[c] = "entering" /\ open[TabOf[c]]
    /\ pc' = [pc EXCEPT ![c] = "sending"]
    /\ refreshing' = [refreshing EXCEPT ![TabOf[c]] = TRUE]
    /\ listening' = [listening EXCEPT ![TabOf[c]] = TRUE]
    /\ sign' = TRUE /\ stamp' = "fresh"
    /\ Send(c)
    /\ late' = IF unloading[TabOf[c]] THEN late \cup {c} ELSE late
    /\ UNCHANGED <<page, timers, loose, issued, cookie, valid, last, lost, troubles>>

\* Every second; the age of the sign is not asked for.
Poll(c) ==
    /\ pc[c] = "waiting" /\ Runs(c)
    /\ ~sign /\ ~refreshing[TabOf[c]]
    /\ pc' = [pc EXCEPT ![c] = "leaving"]
    /\ UNCHANGED <<page, lock, timers, history, wire, troubles>>

\* The finally of a call that waited.
Leave(c) ==
    /\ pc[c] = "leaving" /\ open[TabOf[c]]
    /\ pc' = [pc EXCEPT ![c] = "done"]
    /\ Release(TabOf[c])
    /\ UNCHANGED <<page, timers, history, wire, troubles>>

\* Cookies of an answer are set by the browser.
TakeCookie(r) ==
    /\ cookie' = IF req[r] = "rotated" THEN issued[r] ELSE cookie
    /\ req' = [req EXCEPT ![r] = "done"]

Answer(c) ==
    /\ pc[c] = "sending" /\ Runs(c) /\ req[c] \in {"rotated", "refused"}
    /\ pc' = [pc EXCEPT ![c] = "done"]
    /\ TakeCookie(c)
    /\ Release(TabOf[c]) /\ Settled(c)
    /\ UNCHANGED <<page, timers, late, token, issued, valid, last, met, lost, troubles>>

\* The request or its answer is lost.  fetchWithRetry awaits the same promise
\* again, so that no second request is sent.
RequestFails(c) ==
    /\ pc[c] = "sending" /\ Runs(c) /\ TroubleMayCome
    /\ failures' = failures + 1
    /\ pc' = [pc EXCEPT ![c] = "done"]
    /\ lost' = lost \cup {c}
    /\ \/ UNCHANGED req
       \/ req[c] = "sent" /\ req' = [req EXCEPT ![c] = "done"]
    /\ Release(TabOf[c]) /\ Settled(c)
    /\ UNCHANGED <<page, timers, late, token, issued, cookie, valid, last, met, crashes, departures>>

\* Mutant: a timeout rejects its caller and leaves the lock alone.
TimerRejects(t) ==
    /\ open[t] /\ ~Busy(t) /\ timers[t] # <<>>
    /\ timers' = [timers EXCEPT ![t] = Tail(@)]
    /\ UNCHANGED <<page, lock, pc, history, wire, troubles>>

\* A timeout fires, also when its call has long been settled: it rejects the
\* caller, if nobody has told him anything yet, and releases the lock.
TimerFires(t) ==
    /\ open[t] /\ ~Busy(t) /\ timers[t] # <<>>
    /\ timers' = [timers EXCEPT ![t] = Tail(@)]
    /\ Release(t) /\ Loosens(t)
    /\ UNCHANGED <<page, pc, late, wire, troubles>>

\* TIME_OUT after the sign was set; timers of hidden tabs may be later still.
SignGrowsOld ==
    /\ sign /\ stamp = "fresh"
    /\ stamp' = "old"
    /\ UNCHANGED <<page, refreshing, listening, sign, pc, timers, history, wire, troubles>>

-----------------------------------------------------------------------------
(* The server, page loads, and tabs that end. *)

LookUp(r) ==
    /\ req[r] = "sent"
    /\ req' = [req EXCEPT ![r] = IF token[r] \in valid THEN "lookedUp" ELSE "refused"]
    /\ UNCHANGED <<page, lock, pc, timers, history, token, issued, cookie, valid, last,
                   met, lost, troubles>>

\* Mutant: a rotation revokes every other token of the account.
RotateAll(r) ==
    /\ req[r] = "lookedUp"
    /\ req' = [req EXCEPT ![r] = "rotated"]
    /\ last' = last + 1
    /\ issued' = [issued EXCEPT ![r] = last']
    /\ valid' = {last'}
    /\ UNCHANGED <<page, lock, pc, timers, history, token, cookie, met, lost, troubles>>

Rotate(r) ==
    /\ req[r] = "lookedUp"
    /\ req' = [req EXCEPT ![r] = "rotated"]
    /\ last' = last + 1
    /\ issued' = [issued EXCEPT ![r] = last']
    /\ valid' = (valid \ {token[r]}) \cup {last'}
    /\ UNCHANGED <<page, lock, pc, timers, history, token, cookie, met, lost, troubles>>

\* A page load is redirected to the route, which sends the cookie on.
Load(r) ==
    /\ req[r] = "none" /\ TroubleMayCome
    /\ Send(r)
    /\ UNCHANGED <<page, lock, pc, timers, history, issued, cookie, valid, last, lost,
                   troubles>>

\* The redirect brings the new cookies, or leads to the sign-in page.
LoadAnswer(r) ==
    /\ req[r] \in {"rotated", "refused"}
    /\ TakeCookie(r)
    /\ UNCHANGED <<page, lock, pc, timers, history, token, issued, valid, last, met,
                   lost, troubles>>

\* Calls and timeouts of a tab end with it, and so do their answers.
EndTab(t) ==
    /\ open' = [open EXCEPT ![t] = FALSE]
    /\ unloading' = [unloading EXCEPT ![t] = FALSE]
    /\ lost' = lost \cup {c \in Calls : TabOf[c] = t /\ pc[c] = "sending"}
    /\ pc' = [c \in Calls |-> IF TabOf[c] = t THEN "done" ELSE pc[c]]
    /\ timers' = [timers EXCEPT ![t] = <<>>]
    /\ loose' = loose \ {t}
    /\ UNCHANGED <<lock, late, req, token, issued, cookie, valid, last, met>>

\* The calls that took the lock before this announcement are late no more.
Announced(t, is) ==
    /\ unloading' = [unloading EXCEPT ![t] = is]
    /\ late' = late \ {c \in Calls : TabOf[c] = t}

\* Mutant: nobody listens to beforeunload.
BeforeUnloadUnheard(t) ==
    /\ open[t] /\ ~Busy(t) /\ TroubleMayCome
    /\ departures' = departures + 1
    /\ Announced(t, TRUE)
    /\ UNCHANGED <<open, lock, pc, timers, loose, wire, crashes, failures>>

\* The listener of a call that holds the lock releases it, also while the call
\* still sends, and is gone; the page runs on and may take the lock again.
BeforeUnload(t) ==
    /\ open[t] /\ ~Busy(t) /\ TroubleMayCome
    /\ departures' = departures + 1
    /\ Announced(t, TRUE)
    /\ IF listening[t] THEN Release(t) /\ Loosens(t)
                       ELSE UNCHANGED <<lock, loose>>
    /\ UNCHANGED <<open, pc, timers, wire, crashes, failures>>

\* The navigation is given up, or brings a download and no page.
StayOnPage(t) ==
    /\ open[t] /\ unloading[t]
    /\ Announced(t, FALSE)
    /\ UNCHANGED <<open, lock, pc, timers, loose, wire, troubles>>

\* The next page is there, or the tab closed.
Unload(t) ==
    /\ open[t] /\ unloading[t] /\ ~Busy(t)
    /\ EndTab(t)
    /\ UNCHANGED troubles

CrashTab(t) ==
    /\ open[t] /\ TroubleMayCome
    /\ crashes' = crashes + 1
    /\ EndTab(t)
    /\ UNCHANGED <<failures, departures>>

Next ==
    \/ \E c \in Calls :
        \/ Call(c) \/ Acquire(c) \/ Poll(c) \/ Leave(c)
        \/ Answer(c) \/ RequestFails(c)
    \/ SignGrowsOld
    \/ \E r \in Requests : LookUp(r) \/ Rotate(r)
    \/ \E r \in Loads : Load(r) \/ LoadAnswer(r)
    \/ \E t \in Tabs :
        \/ TimerFires(t) \/ CrashTab(t)
        \/ BeforeUnload(t) \/ StayOnPage(t) \/ Unload(t)

\* Tasks that have begun and timers; no request is assumed to be answered.
Fairness ==
    /\ \A c \in Calls : WF_vars(Acquire(c)) /\ WF_vars(Leave(c)) /\ WF_vars(Poll(c))
    /\ \A t \in Tabs : WF_vars(TimerFires(t))

Spec == Init /\ [][Next]_vars
FairSpec == Spec /\ Fairness

-----------------------------------------------------------------------------
(* Properties. *)

Sending(c) == open[TabOf[c]] /\ pc[c] = "sending"

\* Every variable has its type.
TypeOK ==
    /\ {open, unloading, refreshing, listening} \subseteq [Tabs -> BOOLEAN]
    /\ sign \in BOOLEAN /\ stamp \in {"none", "fresh", "old"}
    /\ pc \in [Calls -> {"idle", "entering", "sending", "waiting", "leaving", "done"}]
    /\ timers \in [Tabs -> Seq(Calls)]
    /\ loose \subseteq Tabs /\ late \subseteq Calls
    /\ req \in [Requests -> {"none", "sent", "lookedUp", "rotated", "refused", "done"}]
    /\ {token, issued} \subseteq [Requests -> Nat]
    /\ cookie \in Nat /\ last \in Nat /\ valid \subseteq 0..last
    /\ met \subseteq SUBSET Requests
    /\ lost \subseteq Calls /\ {crashes, failures, departures} \subseteq Nat

\* The page of a call that took the lock after its beforeunload is gone.
LateOwnerLeft == \E c \in late : ~open[TabOf[c]]

\* The lock across tabs is left behind in two ways only, by a tab that crashes
\* and by one that takes it between its beforeunload and its end; otherwise the
\* sign is that of some open tab that has a request under way, and that listens
\* to the beforeunload that comes before its end.
LockHasOwner ==
    sign /\ crashes = 0 =>
        \/ \E c \in Calls : Sending(c) /\ refreshing[TabOf[c]] /\ listening[TabOf[c]]
        \/ LateOwnerLeft

\* Within a tab a second request goes out beside the first one only when the
\* lock was released under it, by a timeout of the tab or by a beforeunload
\* after which the page goes on; neither counts once its requests have ended.
OneRequestPerTab ==
    \A c, d \in Calls :
        c # d /\ TabOf[c] = TabOf[d] /\ Sending(c) /\ Sending(d) => TabOf[c] \in loose

\* A session is refused, and its user sent to the sign-in page, only when two
\* requests with the same token overlapped or the answer to one was lost.
RefusedOnlyByOverlap ==
    \A c \in Calls : req[c] = "refused" =>
        \E r \in Requests \ {c} :
            token[r] = token[c] /\ ({r, c} \in met \/ r \in lost)

\* "To avoid cross-tab deadlocks": a call that waits for the lock stops polling
\* even if no request is ever answered, since the timeout of the call that took
\* the lock releases it; only a tab that crashes, or takes the lock between its
\* beforeunload and its end, leaves it to later calls.
PollingEnds ==
    \A c \in Calls : pc[c] = "waiting" ~>
        pc[c] # "waiting" \/ ~open[TabOf[c]] \/ crashes > 0 \/ LateOwnerLeft

\* The timeout of a call of an open tab has fired.
TimedOut(c) == \A i \in DOMAIN timers[TabOf[c]] : timers[TabOf[c]][i] # c

\* The comment above getNewAccessToken, "only one request can send", for the
\* requests that have not timed out.
OnlyOneRequest ==
    \A c, d \in {c \in Calls : Sending(c) /\ ~TimedOut(c)} : c = d
=============================================================================
