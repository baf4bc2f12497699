------------------------- MODULE TokenRefreshProofs -------------------------
(* Proofs about TokenRefresh, for every number of tabs, calls, page loads  *)
(* and troubles.                                                           *)
EXTENDS TokenRefresh, TLAPS

-----------------------------------------------------------------------------
(* Types *)

\* The timeouts of a tab are those of its own calls.
TimersOwn == \A t \in Tabs : \A i \in 1 .. Len(timers[t]) : TabOf[timers[t][i]] = t

LockTypes ==
    /\ open \in [Tabs -> BOOLEAN] /\ refreshing \in [Tabs -> BOOLEAN]
    /\ listening \in [Tabs -> BOOLEAN] /\ unloading \in [Tabs -> BOOLEAN]
    /\ loose \subseteq Tabs /\ late \subseteq Calls
    /\ sign \in BOOLEAN /\ stamp \in {"none", "fresh", "old"}
    /\ pc \in [Calls -> {"idle", "entering", "sending", "waiting", "leaving", "done"}]
    /\ lost \subseteq Calls
    /\ crashes \in Nat /\ failures \in Nat /\ departures \in Nat

TimerTypes == timers \in [Tabs -> Seq(Calls)] /\ TimersOwn

WireTypes ==
    /\ req \in [Requests -> {"none", "sent", "lookedUp", "rotated", "refused", "done"}]
    /\ token \in [Requests -> Nat] /\ issued \in [Requests -> Nat]
    /\ cookie \in Nat /\ last \in Nat /\ valid \subseteq 0 .. last
    /\ met \subseteq SUBSET Requests

Types == LockTypes /\ TimerTypes /\ WireTypes

LEMMA TypesAreTypeOK == Types => TypeOK
BY DEF Types, TypeOK, LockTypes, TimerTypes, WireTypes

LEMMA Constants_ == \A c \in Calls : TabOf[c] \in Tabs /\ c \in Requests /\ c \notin Loads
BY TokenAssumption DEF Requests

\* A timer is added at the end of the list of its tab.
LEMMA TimerAdded ==
    ASSUME Types, NEW c \in Calls,
           timers' = [timers EXCEPT ![TabOf[c]] = Append(@, c)]
    PROVE  timers' \in [Tabs -> Seq(Calls)] /\ TimersOwn'
<1>1. /\ TabOf[c] \in Tabs /\ timers \in [Tabs -> Seq(Calls)]
      /\ timers[TabOf[c]] \in Seq(Calls)
    BY Constants_ DEF Types, TimerTypes
<1>2. timers' \in [Tabs -> Seq(Calls)]
    BY <1>1
<1>3. ASSUME NEW t \in Tabs, NEW i \in 1 .. Len(timers'[t])
      PROVE  TabOf[timers'[t][i]] = t
    <2>1. timers[t] \in Seq(Calls)
        BY <1>1
    <2>2. CASE t = TabOf[c]
        BY <1>1, <1>3, <2>2 DEF Types, TimerTypes, TimersOwn
    <2>3. CASE t # TabOf[c]
        BY <1>1, <1>3, <2>3 DEF Types, TimerTypes, TimersOwn
    <2> QED BY <2>2, <2>3
<1> QED BY <1>2, <1>3 DEF TimersOwn

\* A timer that fires was the first of its tab.
LEMMA TimerTaken ==
    ASSUME Types, NEW t \in Tabs, timers[t] # <<>>,
           timers' = [timers EXCEPT ![t] = Tail(@)]
    PROVE  timers' \in [Tabs -> Seq(Calls)] /\ TimersOwn'
<1>1. timers \in [Tabs -> Seq(Calls)] /\ timers[t] \in Seq(Calls) /\ Len(timers[t]) > 0
    BY DEF Types, TimerTypes
<1>2. timers' \in [Tabs -> Seq(Calls)]
    BY <1>1
<1>3. ASSUME NEW u \in Tabs, NEW i \in 1 .. Len(timers'[u])
      PROVE  TabOf[timers'[u][i]] = u
    <2>1. timers[u] \in Seq(Calls)
        BY <1>1
    <2>2. CASE u = t
        BY <1>1, <1>3, <2>2 DEF Types, TimerTypes, TimersOwn
    <2>3. CASE u # t
        BY <1>1, <1>3, <2>3 DEF Types, TimerTypes, TimersOwn
    <2> QED BY <2>2, <2>3
<1> QED BY <1>2, <1>3 DEF TimersOwn

\* The timers of a tab end with it.
LEMMA TimersEnd ==
    ASSUME Types, NEW t \in Tabs, timers' = [timers EXCEPT ![t] = <<>>]
    PROVE  timers' \in [Tabs -> Seq(Calls)] /\ TimersOwn'
<1>1. timers \in [Tabs -> Seq(Calls)]
    BY DEF Types, TimerTypes
<1>2. ASSUME NEW u \in Tabs, NEW i \in 1 .. Len(timers'[u])
      PROVE  TabOf[timers'[u][i]] = u
    <2>1. timers[u] \in Seq(Calls)
        BY <1>1
    <2>2. CASE u = t
        BY <1>1, <1>2, <2>2
    <2>3. CASE u # t
        BY <1>1, <1>2, <2>3 DEF Types, TimerTypes, TimersOwn
    <2> QED BY <2>2, <2>3
<1> QED BY <1>1, <1>2 DEF TimersOwn

\* Nothing that is sent and answered has another type than before.
LEMMA SendTypes == ASSUME WireTypes, NEW r \in Requests, Send(r),
                          UNCHANGED <<issued, cookie, valid, last>>
                   PROVE  WireTypes'
<1>1. {{r, s} : s \in {s \in Requests : InFlight(s)}} \subseteq SUBSET Requests
    OBVIOUS
<1> QED BY <1>1 DEF Send, WireTypes

LEMMA LookUpTypes == ASSUME WireTypes, NEW r \in Requests, LookUp(r) PROVE WireTypes'
BY DEF LookUp, WireTypes

LEMMA RotateTypes == ASSUME WireTypes, NEW r \in Requests, Rotate(r) PROVE WireTypes'
<1>1. last' = last + 1 /\ last' \in Nat /\ 0 .. last \subseteq 0 .. last' /\ last' \in 0 .. last'
    BY DEF Rotate, WireTypes
<1>2. valid' \subseteq 0 .. last' /\ issued' \in [Requests -> Nat]
    BY <1>1 DEF Rotate, WireTypes
<1> QED BY <1>1, <1>2 DEF Rotate, WireTypes

LEMMA TakeCookieTypes == ASSUME WireTypes, NEW r \in Requests, TakeCookie(r),
                                UNCHANGED <<token, issued, valid, last, met>>
                         PROVE  WireTypes'
BY DEF TakeCookie, WireTypes

LEMMA EndTabTypes == ASSUME Types, NEW t \in Tabs, EndTab(t),
                            crashes' \in Nat, failures' \in Nat, departures' \in Nat
                     PROVE  Types'
<1> USE DEF EndTab, Types
<1>1. TimerTypes'
    BY TimersEnd DEF TimerTypes
<1>2. WireTypes'
    BY DEF WireTypes
<1>3. /\ pc' \in [Calls -> {"idle", "entering", "sending", "waiting", "leaving", "done"}]
      /\ lost' \subseteq Calls
    BY DEF LockTypes
<1>4. LockTypes'
    BY <1>3 DEF LockTypes, lock
<1> QED BY <1>1, <1>2, <1>4

LEMMA TypesInductive == Types /\ [Next]_vars => Types'
<1> SUFFICES ASSUME Types, [Next]_vars PROVE Types'
    OBVIOUS
<1> USE Constants_ DEF Types
<1>1. ASSUME NEW c \in Calls, Call(c) PROVE Types'
    <2>1. LockTypes'
        BY <1>1 DEF Call, page, lock, history, wire, troubles, LockTypes
    <2>2. TimerTypes'
        BY <1>1, TimerAdded DEF Call, TimerTypes
    <2>3. WireTypes'
        BY <1>1 DEF Call, wire, WireTypes
    <2> QED BY <2>1, <2>2, <2>3
<1>2. ASSUME NEW c \in Calls, Acquire(c) PROVE Types'
    <2>1. LockTypes'
        BY <1>2 DEF Acquire, page, troubles, LockTypes
    <2>2. TimerTypes'
        BY <1>2 DEF Acquire, TimerTypes, TimersOwn
    <2>3. WireTypes'
        BY <1>2, SendTypes DEF Acquire
    <2> QED BY <2>1, <2>2, <2>3
<1>3. ASSUME NEW c \in Calls, Poll(c) PROVE Types'
    <2>1. LockTypes'
        BY <1>3 DEF Poll, page, lock, history, wire, troubles, LockTypes
    <2>2. TimerTypes'
        BY <1>3 DEF Poll, TimerTypes, TimersOwn
    <2>3. WireTypes'
        BY <1>3 DEF Poll, wire, WireTypes
    <2> QED BY <2>1, <2>2, <2>3
<1>4. ASSUME NEW c \in Calls, Leave(c) PROVE Types'
    <2>1. LockTypes'
        BY <1>4 DEF Leave, Release, page, history, wire, troubles, LockTypes
    <2>2. TimerTypes'
        BY <1>4 DEF Leave, TimerTypes, TimersOwn
    <2>3. WireTypes'
        BY <1>4 DEF Leave, wire, WireTypes
    <2> QED BY <2>1, <2>2, <2>3
<1>5. ASSUME NEW c \in Calls, Answer(c) PROVE Types'
    <2>1. LockTypes'
        BY <1>5 DEF Answer, Release, Settled, page, troubles, LockTypes
    <2>2. TimerTypes'
        BY <1>5 DEF Answer, TimerTypes, TimersOwn
    <2>3. WireTypes'
        BY <1>5, TakeCookieTypes DEF Answer
    <2> QED BY <2>1, <2>2, <2>3
<1>6. ASSUME NEW c \in Calls, RequestFails(c) PROVE Types'
    <2>1. LockTypes'
        <3>1. /\ lost' \subseteq Calls /\ failures' \in Nat
              /\ UNCHANGED <<page, late, crashes, departures>>
              /\ Settled(c)
              /\ pc' = [pc EXCEPT ![c] = "done"] /\ Release(TabOf[c])
            BY <1>6 DEF RequestFails, LockTypes
        <3> QED BY <3>1 DEF Release, Settled, page, LockTypes
    <2>2. TimerTypes'
        BY <1>6 DEF RequestFails, TimerTypes, TimersOwn
    <2>3. WireTypes'
        <3>1. req' \in [Requests -> {"none", "sent", "lookedUp", "rotated", "refused", "done"}]
            BY <1>6 DEF RequestFails, WireTypes
        <3> QED BY <1>6, <3>1 DEF RequestFails, WireTypes
    <2> QED BY <2>1, <2>2, <2>3
<1>7. ASSUME SignGrowsOld PROVE Types'
    <2>1. LockTypes'
        BY <1>7 DEF SignGrowsOld, page, history, wire, troubles, LockTypes
    <2>2. TimerTypes'
        BY <1>7 DEF SignGrowsOld, TimerTypes, TimersOwn
    <2>3. WireTypes'
        BY <1>7 DEF SignGrowsOld, wire, WireTypes
    <2> QED BY <2>1, <2>2, <2>3
<1>8. ASSUME NEW r \in Requests, LookUp(r) PROVE Types'
    <2>1. LockTypes'
        BY <1>8 DEF LookUp, page, lock, history, troubles, LockTypes
    <2>2. TimerTypes'
        BY <1>8 DEF LookUp, TimerTypes, TimersOwn
    <2>3. WireTypes'
        BY <1>8, LookUpTypes
    <2> QED BY <2>1, <2>2, <2>3
<1>9. ASSUME NEW r \in Requests, Rotate(r) PROVE Types'
    <2>1. LockTypes'
        BY <1>9 DEF Rotate, page, lock, history, troubles, LockTypes
    <2>2. TimerTypes'
        BY <1>9 DEF Rotate, TimerTypes, TimersOwn
    <2>3. WireTypes'
        BY <1>9, RotateTypes
    <2> QED BY <2>1, <2>2, <2>3
<1>10. ASSUME NEW r \in Loads, Load(r) PROVE Types'
    <2>1. LockTypes'
        BY <1>10 DEF Load, page, lock, history, troubles, LockTypes
    <2>2. TimerTypes'
        BY <1>10 DEF Load, TimerTypes, TimersOwn
    <2>3. WireTypes'
        BY <1>10, SendTypes DEF Load, Requests
    <2> QED BY <2>1, <2>2, <2>3
<1>11. ASSUME NEW r \in Loads, LoadAnswer(r) PROVE Types'
    <2>1. LockTypes'
        BY <1>11 DEF LoadAnswer, page, lock, history, troubles, LockTypes
    <2>2. TimerTypes'
        BY <1>11 DEF LoadAnswer, TimerTypes, TimersOwn
    <2>3. WireTypes'
        BY <1>11, TakeCookieTypes DEF LoadAnswer, Requests
    <2> QED BY <2>1, <2>2, <2>3
<1>12. ASSUME NEW t \in Tabs, TimerFires(t) PROVE Types'
    <2>1. TimerTypes'
        BY <1>12, TimerTaken DEF TimerFires, TimerTypes
    <2>2. LockTypes'
        BY <1>12 DEF TimerFires, Release, Loosens, page, wire, troubles, LockTypes
    <2>3. WireTypes'
        BY <1>12 DEF TimerFires, wire, WireTypes
    <2> QED BY <2>1, <2>2, <2>3
<1>13. ASSUME NEW t \in Tabs, BeforeUnload(t) \/ StayOnPage(t) PROVE Types'
    <2>1. LockTypes'
        <3>1. /\ UNCHANGED <<open, pc, lost, crashes, failures>>
              /\ departures' \in Nat
              /\ Announced(t, TRUE) \/ Announced(t, FALSE)
            <4>1. departures \in Nat
                BY DEF LockTypes
            <4>2. CASE BeforeUnload(t)
                <5>1. departures' = departures + 1
                    BY <4>2 DEF BeforeUnload
                <5>2. departures' \in Nat
                    BY <4>1, <5>1
                <5>3. Announced(t, TRUE) /\ UNCHANGED <<open, pc, lost, crashes, failures>>
                    BY <4>2 DEF BeforeUnload, wire
                <5> QED BY <5>2, <5>3
            <4>3. CASE StayOnPage(t)
                BY <4>1, <4>3 DEF StayOnPage, wire, troubles
            <4> QED BY <1>13, <4>2, <4>3
        <3>2. unloading' \in [Tabs -> BOOLEAN] /\ late' \subseteq Calls
            BY <3>1 DEF Announced, LockTypes
        <3>3. UNCHANGED <<lock, loose>> \/ (Release(t) /\ Loosens(t))
            BY <1>13 DEF BeforeUnload, StayOnPage, lock
        <3>4. loose' \subseteq Tabs
            BY <3>3 DEF Loosens, LockTypes
        <3>5. /\ refreshing' \in [Tabs -> BOOLEAN] /\ listening' \in [Tabs -> BOOLEAN]
              /\ sign' \in BOOLEAN /\ stamp' \in {"none", "fresh", "old"}
            BY <3>3 DEF Release, lock, LockTypes
        <3> QED BY <3>1, <3>2, <3>4, <3>5 DEF LockTypes
    <2>2. TimerTypes'
        BY <1>13 DEF BeforeUnload, StayOnPage, TimerTypes, TimersOwn
    <2>3. WireTypes'
        BY <1>13 DEF BeforeUnload, StayOnPage, wire, WireTypes
    <2> QED BY <2>1, <2>2, <2>3
<1>14. ASSUME NEW t \in Tabs, Unload(t) \/ CrashTab(t) PROVE Types'
    BY <1>14, EndTabTypes DEF Unload, CrashTab, troubles, LockTypes
<1>15. CASE UNCHANGED vars
    BY <1>15 DEF LockTypes, TimerTypes, WireTypes, TimersOwn, vars, page, lock, history,
                wire, troubles
<1> QED BY <1>1, <1>2, <1>3, <1>4, <1>5, <1>6, <1>7, <1>8, <1>9, <1>10, <1>11, <1>12,
           <1>13, <1>14, <1>15 DEF Next

LEMMA TypesHold == Spec => []Types
<1>1. ASSUME Init PROVE Types
    <2>1. LockTypes
        BY <1>1 DEF Init, LockTypes
    <2>2. TimerTypes
        BY <1>1 DEF Init, TimerTypes, TimersOwn
    <2>3. WireTypes
        BY <1>1 DEF Init, WireTypes
    <2> QED BY <2>1, <2>2, <2>3 DEF Types
<1> QED BY <1>1, TypesInductive, PTL DEF Spec

\* Every variable has its type, for any number of tabs, calls and troubles.
THEOREM TypeCorrect == Spec => []TypeOK
BY TypesAreTypeOK, TypesHold, PTL

-----------------------------------------------------------------------------
(* The lock across tabs *)

Owns(c) == Sending(c) /\ refreshing[TabOf[c]] /\ listening[TabOf[c]]

\* Who holds the lock of a tab that is to be left has taken it late.
LateKnown ==
    \A t \in Tabs : unloading[t] /\ listening[t] => \E c \in late : TabOf[c] = t

LockInv == LockHasOwner /\ LateKnown

LEMMA ReleaseFrees == ASSUME NEW t \in Tabs, Release(t) PROVE LockHasOwner'
BY DEF Release, LockHasOwner

LEMMA LateKnownInductive == Types /\ LateKnown /\ [Next]_vars => LateKnown'
<1> SUFFICES ASSUME Types, LateKnown, [Next]_vars, NEW t \in Tabs, unloading'[t], listening'[t]
             PROVE  \E c \in late' : TabOf[c] = t
    BY DEF LateKnown
<1>0. /\ unloading \in [Tabs -> BOOLEAN] /\ listening \in [Tabs -> BOOLEAN]
      /\ late \subseteq Calls
      /\ unloading[t] /\ listening[t] => \E c \in late : TabOf[c] = t
    BY DEF Types, LockTypes, LateKnown
<1> USE Constants_, <1>0
<1>1. ASSUME NEW c \in Calls, Call(c) \/ Poll(c) \/ Leave(c) \/ Answer(c) \/ RequestFails(c)
      PROVE  \E d \in late' : TabOf[d] = t
    BY <1>1 DEF Call, Poll, Leave, Answer, RequestFails, Release, page, lock, history
<1>2. ASSUME NEW c \in Calls, Acquire(c) PROVE \E d \in late' : TabOf[d] = t
    BY <1>2 DEF Acquire, page
<1>3. CASE \/ SignGrowsOld
           \/ \E r \in Requests : LookUp(r) \/ Rotate(r)
           \/ \E r \in Loads : Load(r) \/ LoadAnswer(r)
    BY <1>3 DEF SignGrowsOld, LookUp, Rotate, Load, LoadAnswer, page, lock, history
<1>4. ASSUME NEW u \in Tabs, TimerFires(u) PROVE \E d \in late' : TabOf[d] = t
    BY <1>4 DEF TimerFires, Release, page
<1>5. ASSUME NEW u \in Tabs, BeforeUnload(u) PROVE \E d \in late' : TabOf[d] = t
    \* It leaves no listener in its own tab.
    BY <1>5 DEF BeforeUnload, Announced, Release, lock
<1>6. ASSUME NEW u \in Tabs, StayOnPage(u) PROVE \E d \in late' : TabOf[d] = t
    BY <1>6 DEF StayOnPage, Announced, lock
<1>7. ASSUME NEW u \in Tabs, Unload(u) \/ CrashTab(u) PROVE \E d \in late' : TabOf[d] = t
    BY <1>7 DEF Unload, CrashTab, EndTab, lock
<1>8. CASE UNCHANGED vars
    BY <1>8 DEF vars, page, lock, history
<1> QED BY <1>1, <1>2, <1>3, <1>4, <1>5, <1>6, <1>7, <1>8 DEF Next

\* A late owner that has left stays known: nobody reopens his tab.
LEMMA LeftStays ==
    ASSUME Types, LateOwnerLeft, [Next]_vars
    PROVE  LateOwnerLeft'
<1>0. PICK c \in late : ~open[TabOf[c]]
    BY DEF LateOwnerLeft
<1>1. c \in Calls /\ TabOf[c] \in Tabs /\ open \in [Tabs -> BOOLEAN]
    BY Constants_ DEF Types, LockTypes
<1> SUFFICES c \in late' /\ ~open'[TabOf[c]]
    BY DEF LateOwnerLeft
<1> USE Constants_, <1>0, <1>1
<1>2. ASSUME NEW d \in Calls,
             Call(d) \/ Acquire(d) \/ Poll(d) \/ Leave(d) \/ Answer(d) \/ RequestFails(d)
      PROVE  c \in late' /\ ~open'[TabOf[c]]
    BY <1>2 DEF Call, Acquire, Poll, Leave, Answer, RequestFails, page, history
<1>3. CASE \/ SignGrowsOld
           \/ \E r \in Requests : LookUp(r) \/ Rotate(r)
           \/ \E r \in Loads : Load(r) \/ LoadAnswer(r)
    BY <1>3 DEF SignGrowsOld, LookUp, Rotate, Load, LoadAnswer, page, history
<1>4. ASSUME NEW t \in Tabs, TimerFires(t) \/ BeforeUnload(t) \/ StayOnPage(t)
      PROVE  c \in late' /\ ~open'[TabOf[c]]
    BY <1>4 DEF TimerFires, BeforeUnload, StayOnPage, Announced, page
<1>5. ASSUME NEW t \in Tabs, Unload(t) \/ CrashTab(t)
      PROVE  c \in late' /\ ~open'[TabOf[c]]
    BY <1>5 DEF Unload, CrashTab, EndTab
<1>6. CASE UNCHANGED vars
    BY <1>6 DEF vars, page, history
<1> QED BY <1>2, <1>3, <1>4, <1>5, <1>6 DEF Next

LEMMA LockInductive == Types /\ LockInv /\ [Next]_vars => LockHasOwner'
<1> SUFFICES ASSUME Types, LockInv, [Next]_vars, ~LateOwnerLeft PROVE LockHasOwner'
    BY LeftStays DEF LockHasOwner
<1>0. LockHasOwner /\ LateKnown
    BY DEF LockInv
<1> USE Constants_, <1>0
<1>1. ASSUME NEW c \in Calls, Call(c) PROVE LockHasOwner'
    BY <1>1 DEF Call, LockHasOwner, Sending, page, lock, troubles, Types, LockTypes
<1>2. ASSUME NEW c \in Calls, Acquire(c) PROVE LockHasOwner'
    <2>1. Owns(c)'
        BY <1>2 DEF Acquire, Owns, Sending, page, Types, LockTypes
    <2> QED BY <2>1 DEF LockHasOwner, Owns
<1>3. ASSUME NEW c \in Calls, Poll(c) PROVE LockHasOwner'
    BY <1>3 DEF Poll, LockHasOwner, Sending, page, lock, troubles, Types, LockTypes
<1>4. ASSUME NEW c \in Calls, Leave(c) \/ Answer(c) \/ RequestFails(c) PROVE LockHasOwner'
    BY <1>4, ReleaseFrees DEF Leave, Answer, RequestFails
<1>5. CASE SignGrowsOld
    BY <1>5 DEF SignGrowsOld, LockHasOwner, Sending, page, troubles
<1>6. ASSUME NEW r \in Requests, LookUp(r) \/ Rotate(r) PROVE LockHasOwner'
    BY <1>6 DEF LookUp, Rotate, LockHasOwner, Sending, page, lock, troubles
<1>7. ASSUME NEW r \in Loads, Load(r) \/ LoadAnswer(r) PROVE LockHasOwner'
    BY <1>7 DEF Load, LoadAnswer, LockHasOwner, Sending, page, lock, troubles
<1>8. ASSUME NEW t \in Tabs, TimerFires(t) PROVE LockHasOwner'
    BY <1>8, ReleaseFrees DEF TimerFires
<1>9. ASSUME NEW t \in Tabs, BeforeUnload(t) PROVE LockHasOwner'
    <2>1. CASE listening[t]
        BY <1>9, <2>1, ReleaseFrees DEF BeforeUnload
    <2>2. CASE ~listening[t]
        BY <1>9, <2>2 DEF BeforeUnload, LockHasOwner, Sending, lock, troubles
    <2> QED BY <2>1, <2>2
<1>10. ASSUME NEW t \in Tabs, StayOnPage(t) PROVE LockHasOwner'
    BY <1>10 DEF StayOnPage, LockHasOwner, Sending, lock, troubles
<1>11. ASSUME NEW t \in Tabs, Unload(t) PROVE LockHasOwner'
    <2>1. CASE listening[t]
        \* The lock was taken late, and its owner is gone now.
        <3>1. PICK c \in late : TabOf[c] = t
            BY <1>11, <2>1 DEF Unload, LateKnown
        <3>2. c \in late' /\ ~open'[TabOf[c]]
            BY <1>11, <3>1 DEF Unload, EndTab, Types, LockTypes
        <3> QED BY <3>2 DEF LockHasOwner, LateOwnerLeft
    <2>2. CASE ~listening[t]
        \* The owner is in another tab.
        BY <1>11, <2>2 DEF Unload, EndTab, LockHasOwner, LateOwnerLeft, Sending, lock, troubles,
                           Types, LockTypes
    <2> QED BY <2>1, <2>2
<1>12. ASSUME NEW t \in Tabs, CrashTab(t) PROVE LockHasOwner'
    BY <1>12 DEF CrashTab, LockHasOwner, Types, LockTypes
<1>13. CASE UNCHANGED vars
    BY <1>13 DEF LockHasOwner, Sending, vars, page, lock, troubles
<1> QED BY <1>1, <1>2, <1>3, <1>4, <1>5, <1>6, <1>7, <1>8, <1>9, <1>10, <1>11, <1>12, <1>13
    DEF Next

\* The lock across tabs is left behind by a tab that crashes, or that takes it
\* between its beforeunload and its end; otherwise some open tab has a request
\* under way and will release the lock.
THEOREM LockAlwaysHasOwner == Spec => []LockHasOwner
<1>1. Init => LockInv
    BY DEF Init, LockInv, LockHasOwner, LateKnown
<1>2. Types /\ LockInv /\ [Next]_vars => LockInv'
    BY LockInductive, LateKnownInductive DEF LockInv
<1>3. LockInv => LockHasOwner
    BY DEF LockInv
<1> QED BY <1>1, <1>2, <1>3, TypesHold, PTL DEF Spec

-----------------------------------------------------------------------------
(* One request per tab *)

InTab(t) == {c \in Calls : TabOf[c] = t}

\* A tab runs one task at a time.  As long as its lock was not released under a
\* request it has one request at most, which holds the lock of the tab, and
\* whoever tests that lock finds it free only when there is no request.
TabExclusive(t) ==
    /\ \A c, d \in InTab(t) :
        pc[c] \in {"entering", "leaving"} /\ pc[d] \in {"entering", "leaving"} => c = d
    /\ refreshing[t] /\ open[t] => \E c \in InTab(t) : pc[c] = "sending"
    /\ open[t] /\ t \notin loose =>
        /\ \A c \in InTab(t) : pc[c] = "sending" => refreshing[t]
        /\ \A c \in InTab(t) : pc[c] \in {"entering", "leaving"} => ~refreshing[t]
        /\ \A c, d \in InTab(t) : pc[c] = "sending" /\ pc[d] = "sending" => c = d

Exclusive == \A t \in Tabs : TabExclusive(t)

\* What leaves a tab alone does not disturb it.
LEMMA OtherTab ==
    ASSUME NEW t \in Tabs, TabExclusive(t),
           \A c \in InTab(t) : pc'[c] = pc[c],
           open'[t] = open[t], refreshing'[t] = refreshing[t], (t \in loose' <=> t \in loose)
    PROVE  TabExclusive(t)'
BY DEF TabExclusive, InTab

\* A lock released from outside: either it was held under no request, or the
\* tab knows that it was.
LEMMA ReleasedFromOutside ==
    ASSUME Types, NEW t \in Tabs, TabExclusive(t), Release(t), Loosens(t),
           pc' = pc, open' = open
    PROVE  TabExclusive(t)'
<1>0. /\ refreshing \in [Tabs -> BOOLEAN]
      /\ loose \subseteq Tabs
      /\ ~refreshing'[t]
    BY DEF Types, LockTypes, Release
<1>1. CASE UnderWay(t)
    <2>1. t \in loose'
        BY <1>1 DEF Loosens
    <2> QED BY <1>0, <2>1 DEF TabExclusive, InTab
<1>2. CASE ~UnderWay(t)
    <2>1. \A c \in InTab(t) : pc[c] # "sending"
        BY <1>2 DEF UnderWay, InTab
    <2> QED BY <1>0, <2>1 DEF TabExclusive, InTab
<1> QED BY <1>1, <1>2

LEMMA ExclusiveInductive == Types /\ Exclusive /\ [Next]_vars => Exclusive'
<1> SUFFICES ASSUME Types, Exclusive, [Next]_vars, NEW t \in Tabs PROVE TabExclusive(t)'
    BY DEF Exclusive
<1>0. /\ TabExclusive(t)
      /\ open \in [Tabs -> BOOLEAN] /\ refreshing \in [Tabs -> BOOLEAN]
      /\ loose \subseteq Tabs
      /\ pc \in [Calls -> {"idle", "entering", "sending", "waiting", "leaving", "done"}]
    BY DEF Exclusive, Types, LockTypes
<1> USE Constants_, <1>0 DEF InTab
<1>1. ASSUME NEW c \in Calls, Call(c) \/ Acquire(c) \/ Poll(c) \/ Leave(c) \/ Answer(c)
                              \/ RequestFails(c)
      PROVE  TabExclusive(t)'
    <2>1. CASE TabOf[c] # t
        BY <1>1, <2>1, OtherTab
        DEF Call, Acquire, Poll, Leave, Answer, RequestFails, Release, Settled, page, lock,
            history
    <2>2. CASE TabOf[c] = t /\ Call(c)
        BY <2>2 DEF Call, Runs, Busy, TabExclusive, page, lock, history
    <2>3. CASE TabOf[c] = t /\ Acquire(c)
        BY <2>3 DEF Acquire, TabExclusive, page
    <2>4. CASE TabOf[c] = t /\ Poll(c)
        BY <2>4 DEF Poll, Runs, Busy, TabExclusive, page, lock, history
    <2>5. CASE TabOf[c] = t /\ Leave(c)
        BY <2>5 DEF Leave, Release, TabExclusive, page, history
    <2>6. CASE TabOf[c] = t /\ (Answer(c) \/ RequestFails(c))
        <3>1. /\ pc[c] = "sending" /\ open[t] /\ ~Busy(t) /\ pc' = [pc EXCEPT ![c] = "done"]
              /\ Release(t) /\ Settled(c) /\ open' = open
            BY <2>6 DEF Answer, RequestFails, Runs, page
        <3>2. \A d \in InTab(t) : pc[d] \notin {"entering", "leaving"}
            BY <3>1 DEF Busy
        <3>3. CASE UnderWay(t)'
            <4>1. PICK d \in Calls : TabOf[d] = t /\ pc'[d] = "sending"
                BY <3>3 DEF UnderWay
            <4>2. d # c /\ pc[d] = "sending"
                BY <3>1, <4>1
            <4>3. t \in loose /\ loose' = loose
                BY <2>6, <3>1, <3>3, <4>1, <4>2 DEF TabExclusive, Settled
            <4> QED BY <3>1, <3>2, <4>3 DEF TabExclusive, Release
        <3>4. CASE ~UnderWay(t)'
            <4>1. \A d \in InTab(t) : pc'[d] # "sending"
                BY <3>4 DEF UnderWay
            <4> QED BY <3>1, <3>2, <4>1 DEF TabExclusive, Release
        <3> QED BY <3>3, <3>4
    <2> QED BY <1>1, <2>1, <2>2, <2>3, <2>4, <2>5, <2>6
<1>2. CASE \/ SignGrowsOld
           \/ \E r \in Requests : LookUp(r) \/ Rotate(r)
           \/ \E r \in Loads : Load(r) \/ LoadAnswer(r)
    BY <1>2, OtherTab DEF SignGrowsOld, LookUp, Rotate, Load, LoadAnswer, page, lock, history
<1>3. ASSUME NEW u \in Tabs, TimerFires(u) PROVE TabExclusive(t)'
    <2>1. CASE u # t
        BY <1>3, <2>1, OtherTab DEF TimerFires, Release, Loosens, page
    <2>2. CASE u = t
        BY <1>3, <2>2, ReleasedFromOutside DEF TimerFires, page
    <2> QED BY <2>1, <2>2
<1>4. ASSUME NEW u \in Tabs, BeforeUnload(u) PROVE TabExclusive(t)'
    <2>1. CASE u # t \/ ~listening[u]
        BY <1>4, <2>1, OtherTab DEF BeforeUnload, Release, Loosens, lock
    <2>2. CASE u = t /\ listening[u]
        BY <1>4, <2>2, ReleasedFromOutside DEF BeforeUnload
    <2> QED BY <2>1, <2>2
<1>5. ASSUME NEW u \in Tabs, StayOnPage(u) PROVE TabExclusive(t)'
    BY <1>5, OtherTab DEF StayOnPage, lock
<1>6. ASSUME NEW u \in Tabs, Unload(u) \/ CrashTab(u) PROVE TabExclusive(t)'
    <2>1. CASE u # t
        BY <1>6, <2>1, OtherTab DEF Unload, CrashTab, EndTab, lock
    <2>2. CASE u = t
        BY <1>6, <2>2 DEF Unload, CrashTab, EndTab, TabExclusive
    <2> QED BY <2>1, <2>2
<1>7. CASE UNCHANGED vars
    BY <1>7, OtherTab DEF vars, page, lock, history
<1> QED BY <1>1, <1>2, <1>3, <1>4, <1>5, <1>6, <1>7 DEF Next

\* Within a tab a second request goes out beside the first one only when a
\* timeout or a beforeunload has released the lock under it.
THEOREM OneRequestPerTabHolds == Spec => []OneRequestPerTab
<1>1. Init => Exclusive
    BY DEF Init, Exclusive, TabExclusive, InTab
<1>2. Types /\ Exclusive => OneRequestPerTab
    BY Constants_ DEF Exclusive, TabExclusive, InTab, OneRequestPerTab, Sending
<1> QED BY <1>1, <1>2, ExclusiveInductive, TypesHold, PTL DEF Spec

-----------------------------------------------------------------------------
(* Refused sessions *)

\* Another request used the same token and overlapped, or its answer was lost.
Excuse(c) == \E r \in Requests \ {c} : token[r] = token[c] /\ ({r, c} \in met \/ r \in lost)

\* Requests are sent once; histories tell of requests that were sent; two that
\* are under way have met.
HistoryInv ==
    /\ \A c \in Calls : pc[c] \in {"idle", "entering"} => req[c] = "none"
    /\ \A c \in Calls : pc[c] = "sending" => req[c] # "none"
    /\ \A r, s \in Requests : {r, s} \in met => req[r] # "none"
    /\ \A c \in lost : req[c] # "none"
    /\ \A r, s \in Requests : r # s /\ InFlight(r) /\ InFlight(s) => {r, s} \in met

\* Tokens are at most the last one made; what an answer brings is valid, and
\* nobody has it before the answer has come.
IssuedInv ==
    /\ cookie <= last
    /\ \A r \in Requests : token[r] <= last /\ (req[r] = "none" => token[r] = 0)
    /\ \A r \in Requests : req[r] = "rotated" =>
        /\ issued[r] \in valid /\ issued[r] > 0 /\ issued[r] # cookie
        /\ \A s \in Requests : token[s] # issued[r]
        /\ \A s \in Requests \ {r} : req[s] = "rotated" => issued[s] # issued[r]

\* The token of the cookie is valid, or the answer that replaces it is under
\* way or lost.
CookieKnown ==
    cookie \in valid \/ \E r \in Requests :
        token[r] = cookie /\ req[r] # "none" /\ (req[r] = "rotated" \/ r \in lost)

\* The token of a request is valid when the server looks it up, or the request
\* has an excuse.
Presentable(r) == token[r] \in valid \/ Excuse(r)

RequestKnown(r) ==
    /\ req[r] = "sent" => Presentable(r)
    /\ req[r] = "refused" => Excuse(r)

TokenInv == CookieKnown /\ \A r \in Requests : RequestKnown(r)

SessionInv == HistoryInv /\ IssuedInv /\ TokenInv

\* What a tab does outside its calls.
TabStep(t) == TimerFires(t) \/ BeforeUnload(t) \/ StayOnPage(t) \/ Unload(t) \/ CrashTab(t)

LEMMA SentOnce ==
    ASSUME Types, HistoryInv, [Next]_vars
    PROVE  \A r \in Requests : req[r] # "none" => req'[r] # "none" /\ token'[r] = token[r]
<1> SUFFICES ASSUME NEW r \in Requests, req[r] # "none"
             PROVE  req'[r] # "none" /\ token'[r] = token[r]
    OBVIOUS
<1>0. /\ req \in [Requests -> {"none", "sent", "lookedUp", "rotated", "refused", "done"}]
      /\ token \in [Requests -> Nat]
    BY DEF Types, WireTypes
<1> USE Constants_, <1>0
<1>1. ASSUME NEW c \in Calls,
             Call(c) \/ Poll(c) \/ Leave(c) \/ Answer(c) \/ RequestFails(c)
      PROVE  req'[r] # "none" /\ token'[r] = token[r]
    BY <1>1 DEF Call, Poll, Leave, Answer, RequestFails, TakeCookie, wire
<1>2. ASSUME NEW c \in Calls, Acquire(c) PROVE req'[r] # "none" /\ token'[r] = token[r]
    BY <1>2 DEF Acquire, Send, HistoryInv
<1>3. ASSUME NEW s \in Requests, LookUp(s) \/ Rotate(s)
      PROVE  req'[r] # "none" /\ token'[r] = token[r]
    BY <1>3 DEF LookUp, Rotate
<1>4. ASSUME NEW s \in Loads, Load(s) \/ LoadAnswer(s)
      PROVE  req'[r] # "none" /\ token'[r] = token[r]
    BY <1>4 DEF Load, LoadAnswer, Send, TakeCookie, Requests
<1>5. ASSUME NEW t \in Tabs, TabStep(t)
      PROVE  req'[r] # "none" /\ token'[r] = token[r]
    BY <1>5 DEF TabStep, TimerFires, BeforeUnload, StayOnPage, Unload, CrashTab,
                 EndTab, wire
<1>6. CASE SignGrowsOld
    BY <1>6 DEF SignGrowsOld, wire
<1>7. CASE UNCHANGED vars
    BY <1>7 DEF vars, wire
<1> QED BY <1>1, <1>2, <1>3, <1>4, <1>5, <1>6, <1>7 DEF Next, TabStep

\* What each kind of step does to the requests.
Sends(r) == req[r] = "none" /\ Send(r) /\ UNCHANGED <<issued, cookie, valid, last, lost>>
LooksUp(r) ==
    /\ req[r] = "sent"
    /\ req' = [req EXCEPT ![r] = IF token[r] \in valid THEN "lookedUp" ELSE "refused"]
    /\ UNCHANGED <<token, issued, cookie, valid, last, met, lost>>
Rotates(r) ==
    /\ req[r] = "lookedUp"
    /\ req' = [req EXCEPT ![r] = "rotated"]
    /\ last' = last + 1 /\ issued' = [issued EXCEPT ![r] = last']
    /\ valid' = (valid \ {token[r]}) \cup {last'}
    /\ UNCHANGED <<token, cookie, met, lost>>
Takes(r) ==
    /\ req[r] \in {"rotated", "refused"} /\ TakeCookie(r)
    /\ UNCHANGED <<token, issued, valid, last, met, lost>>
Loses ==
    /\ lost \subseteq lost' /\ \A c \in lost' : req[c] # "none"
    /\ \/ UNCHANGED req
       \/ \E r \in Requests : req[r] = "sent" /\ req' = [req EXCEPT ![r] = "done"]
    /\ UNCHANGED <<token, issued, cookie, valid, last, met>>

LEMMA WireSteps ==
    ASSUME Types, HistoryInv, [Next]_vars
    PROVE  \/ Loses
           \/ \E r \in Requests : Sends(r) \/ LooksUp(r) \/ Rotates(r) \/ Takes(r)
<1> USE Constants_
<1>0. lost \subseteq Calls /\ \A c \in lost : req[c] # "none"
    BY DEF Types, LockTypes, HistoryInv
<1>1. ASSUME NEW c \in Calls, Call(c) \/ Poll(c) \/ Leave(c) PROVE Loses
    BY <1>0, <1>1 DEF Call, Poll, Leave, Loses, wire
<1>2. ASSUME NEW c \in Calls, Acquire(c) PROVE Sends(c)
    BY <1>2 DEF Acquire, Sends, HistoryInv
<1>3. ASSUME NEW c \in Calls, Answer(c) PROVE Takes(c)
    BY <1>3 DEF Answer, Takes
<1>4. ASSUME NEW c \in Calls, RequestFails(c) PROVE Loses
    BY <1>0, <1>4 DEF RequestFails, Loses, HistoryInv
<1>5. ASSUME NEW r \in Requests, LookUp(r) \/ Rotate(r) PROVE LooksUp(r) \/ Rotates(r)
    BY <1>5 DEF LookUp, Rotate, LooksUp, Rotates
<1>6. ASSUME NEW r \in Loads, Load(r) \/ LoadAnswer(r)
      PROVE  r \in Requests /\ (Sends(r) \/ Takes(r))
    BY <1>6 DEF Load, LoadAnswer, Sends, Takes, Requests
<1>7. ASSUME NEW t \in Tabs, TabStep(t) PROVE Loses
    BY <1>0, <1>7 DEF TabStep, TimerFires, BeforeUnload, StayOnPage, Unload, CrashTab,
                 EndTab, Loses, HistoryInv, wire
<1>8. CASE SignGrowsOld \/ UNCHANGED vars
    BY <1>0, <1>8 DEF SignGrowsOld, vars, Loses, wire
<1> QED BY <1>1, <1>2, <1>3, <1>4, <1>5, <1>6, <1>7, <1>8 DEF Next, TabStep

\* A call has a request when it is sending, and none before.
LEMMA CallsInductive ==
    ASSUME Types, HistoryInv, [Next]_vars
    PROVE  /\ \A c \in Calls : pc'[c] \in {"idle", "entering"} => req'[c] = "none"
           /\ \A c \in Calls : pc'[c] = "sending" => req'[c] # "none"
<1> SUFFICES ASSUME NEW d \in Calls
             PROVE  /\ pc'[d] \in {"idle", "entering"} => req'[d] = "none"
                    /\ pc'[d] = "sending" => req'[d] # "none"
    OBVIOUS
<1>0. /\ req \in [Requests -> {"none", "sent", "lookedUp", "rotated", "refused", "done"}]
      /\ pc \in [Calls -> {"idle", "entering", "sending", "waiting", "leaving", "done"}]
      /\ pc[d] \in {"idle", "entering"} => req[d] = "none"
      /\ pc[d] = "sending" => req[d] # "none"
    BY DEF Types, WireTypes, LockTypes, HistoryInv
<1> USE Constants_, <1>0
<1>1. ASSUME NEW c \in Calls, Call(c) \/ Poll(c) \/ Leave(c) PROVE
           /\ pc'[d] \in {"idle", "entering"} => req'[d] = "none"
           /\ pc'[d] = "sending" => req'[d] # "none"
    BY <1>1 DEF Call, Poll, Leave, wire
<1>2. ASSUME NEW c \in Calls, Acquire(c) \/ Answer(c) \/ RequestFails(c) PROVE
           /\ pc'[d] \in {"idle", "entering"} => req'[d] = "none"
           /\ pc'[d] = "sending" => req'[d] # "none"
    BY <1>2 DEF Acquire, Send, Answer, TakeCookie, RequestFails
<1>3. ASSUME NEW r \in Requests, LookUp(r) \/ Rotate(r) PROVE
           /\ pc'[d] \in {"idle", "entering"} => req'[d] = "none"
           /\ pc'[d] = "sending" => req'[d] # "none"
    BY <1>3 DEF LookUp, Rotate
<1>4. ASSUME NEW r \in Loads, Load(r) \/ LoadAnswer(r) PROVE
           /\ pc'[d] \in {"idle", "entering"} => req'[d] = "none"
           /\ pc'[d] = "sending" => req'[d] # "none"
    BY <1>4 DEF Load, LoadAnswer, Send, TakeCookie, Requests
<1>5. ASSUME NEW t \in Tabs, TabStep(t) PROVE
           /\ pc'[d] \in {"idle", "entering"} => req'[d] = "none"
           /\ pc'[d] = "sending" => req'[d] # "none"
    BY <1>5 DEF TabStep, TimerFires, BeforeUnload, StayOnPage, Unload, CrashTab,
                 EndTab, wire
<1>6. CASE SignGrowsOld \/ UNCHANGED vars
    BY <1>6 DEF SignGrowsOld, vars, wire
<1> QED BY <1>1, <1>2, <1>3, <1>4, <1>5, <1>6 DEF Next, TabStep

\* Two requests have met when the second one was sent or before.
LEMMA MetGrows ==
    ASSUME Types, HistoryInv, [Next]_vars
    PROVE  /\ met \subseteq met'
           /\ \A r, s \in Requests : r # s /\ InFlight(r)' /\ InFlight(s)' => {r, s} \in met'
           /\ \A r, s \in Requests : {r, s} \in met' => req'[r] # "none"
<1>0. req \in [Requests -> {"none", "sent", "lookedUp", "rotated", "refused", "done"}]
    BY DEF Types, WireTypes
<1>1. CASE Loses \/ \E r \in Requests : LooksUp(r) \/ Rotates(r) \/ Takes(r)
    <2>1. met' = met /\ \A r \in Requests : InFlight(r)' => InFlight(r)
        BY <1>0, <1>1 DEF Loses, LooksUp, Rotates, Takes, TakeCookie, InFlight
    <2> QED BY <2>1, SentOnce DEF HistoryInv
<1>2. ASSUME NEW u \in Requests, Sends(u)
      PROVE  /\ met \subseteq met'
             /\ \A r, s \in Requests : r # s /\ InFlight(r)' /\ InFlight(s)' => {r, s} \in met'
             /\ \A r, s \in Requests : {r, s} \in met' => req'[r] # "none"
    <2>1. /\ \A r \in Requests \ {u} : InFlight(r)' <=> InFlight(r)
          /\ req'[u] = "sent" /\ ~InFlight(u)
          /\ met' = met \cup {{u, s} : s \in {s \in Requests : InFlight(s)}}
        BY <1>0, <1>2 DEF Sends, Send, InFlight
    <2>2. ASSUME NEW r \in Requests, NEW s \in Requests, r # s, InFlight(r)', InFlight(s)'
          PROVE  {r, s} \in met'
        <3>1. CASE r # u /\ s # u
            BY <2>1, <2>2, <3>1 DEF HistoryInv
        <3>2. CASE r = u
            BY <2>1, <2>2, <3>2
        <3>3. CASE s = u
            <4>1. {u, r} \in met' /\ {r, s} = {u, r}
                BY <2>1, <2>2, <3>3
            <4> QED BY <4>1
        <3> QED BY <3>1, <3>2, <3>3
    <2>3. ASSUME NEW r \in Requests, NEW s \in Requests, {r, s} \in met'
          PROVE  req'[r] # "none"
        <3>1. CASE {r, s} \in met
            BY <3>1, SentOnce DEF HistoryInv
        <3>2. CASE \E v \in Requests : InFlight(v) /\ {r, s} = {u, v}
            <4>1. PICK v \in Requests : InFlight(v) /\ {r, s} = {u, v}
                BY <3>2
            <4>2. r = u \/ r = v
                BY <4>1
            <4>3. req[v] # "none"
                BY <4>1 DEF InFlight
            <4> QED BY <2>1, <4>1, <4>2, <4>3, SentOnce
        <3> QED BY <2>1, <2>3, <3>1, <3>2
    <2> QED BY <2>1, <2>2, <2>3
<1> QED BY <1>1, <1>2, WireSteps

LEMMA HistoryInductive == Types /\ HistoryInv /\ [Next]_vars => HistoryInv'
<1> SUFFICES ASSUME Types, HistoryInv, [Next]_vars PROVE HistoryInv'
    OBVIOUS
<1>1. ASSUME NEW c \in lost' PROVE req'[c] # "none"
    <2>1. lost \subseteq Requests
        BY Constants_ DEF Types, LockTypes
    <2>2. req[c] # "none" /\ c \in Requests
        BY <1>1, <2>1, WireSteps, TypesInductive, Constants_
        DEF HistoryInv, Loses, Sends, LooksUp, Rotates, Takes, Types, LockTypes
    <2> QED BY <2>2, SentOnce
<1> QED BY <1>1, CallsInductive, MetGrows DEF HistoryInv

LEMMA IssuedInductive == Types /\ HistoryInv /\ IssuedInv /\ [Next]_vars => IssuedInv'
<1> SUFFICES ASSUME Types, HistoryInv, IssuedInv, [Next]_vars PROVE IssuedInv'
    OBVIOUS
<1>0. /\ req \in [Requests -> {"none", "sent", "lookedUp", "rotated", "refused", "done"}]
      /\ token \in [Requests -> Nat] /\ issued \in [Requests -> Nat]
      /\ cookie \in Nat /\ last \in Nat /\ \A n \in valid : n \in Nat /\ n <= last
    BY DEF Types, WireTypes
<1>1. CASE Loses
    BY <1>0, <1>1 DEF Loses, IssuedInv
<1>2. ASSUME NEW u \in Requests, Sends(u) PROVE IssuedInv'
    BY <1>0, <1>2 DEF Sends, Send, IssuedInv
<1>3. ASSUME NEW u \in Requests, LooksUp(u) PROVE IssuedInv'
    BY <1>0, <1>3 DEF LooksUp, IssuedInv
<1>4. ASSUME NEW u \in Requests, Rotates(u) PROVE IssuedInv'
    BY <1>0, <1>4 DEF Rotates, IssuedInv
<1>5. ASSUME NEW u \in Requests, Takes(u) PROVE IssuedInv'
    BY <1>0, <1>5 DEF Takes, TakeCookie, IssuedInv
<1> QED BY <1>1, <1>2, <1>3, <1>4, <1>5, WireSteps

\* An excuse stays one.
LEMMA ExcuseStays ==
    ASSUME Types, HistoryInv, [Next]_vars, NEW c \in Requests, req[c] # "none", Excuse(c)
    PROVE  Excuse(c)'
<1>1. PICK r \in Requests \ {c} : token[r] = token[c] /\ ({r, c} \in met \/ r \in lost)
    BY DEF Excuse
<1>2. req[r] # "none"
    BY <1>1 DEF HistoryInv
<1>3. token'[r] = token[r] /\ token'[c] = token[c]
    BY <1>1, <1>2, SentOnce
<1>4. lost \subseteq lost'
    BY WireSteps DEF Loses, Sends, LooksUp, Rotates, Takes
<1> QED BY <1>1, <1>3, <1>4, MetGrows DEF Excuse

\* The cookie stays known, whatever becomes of the request that replaces it.
LEMMA CookieInductive ==
    ASSUME Types, SessionInv, [Next]_vars PROVE CookieKnown'
<1>0. /\ req \in [Requests -> {"none", "sent", "lookedUp", "rotated", "refused", "done"}]
      /\ token \in [Requests -> Nat] /\ issued \in [Requests -> Nat]
      /\ HistoryInv /\ IssuedInv /\ CookieKnown
    BY DEF Types, WireTypes, SessionInv, TokenInv
<1>1. CASE Loses
    <2>1. \A r \in Requests : req[r] = "rotated" => req'[r] = "rotated"
        BY <1>0, <1>1 DEF Loses
    <2>2. \A r \in Requests : r \in lost => r \in lost'
        BY <1>1 DEF Loses
    <2> QED BY <1>0, <1>1, <2>1, <2>2, SentOnce DEF Loses, CookieKnown
<1>2. ASSUME NEW u \in Requests, Sends(u) PROVE CookieKnown'
    BY <1>0, <1>2 DEF Sends, Send, CookieKnown
<1>3. ASSUME NEW u \in Requests, LooksUp(u) PROVE CookieKnown'
    BY <1>0, <1>3 DEF LooksUp, CookieKnown
<1>4. ASSUME NEW u \in Requests, Rotates(u) PROVE CookieKnown'
    <2>1. req' = [req EXCEPT ![u] = "rotated"] /\ cookie' = cookie /\ token' = token /\ lost' = lost
        BY <1>4 DEF Rotates
    <2>2. CASE cookie \in valid /\ cookie # token[u]
        BY <1>4, <2>2 DEF Rotates, CookieKnown
    <2>3. CASE cookie = token[u]
        BY <1>0, <2>1, <2>3 DEF CookieKnown
    <2>4. CASE cookie \notin valid
        BY <1>0, <2>1, <2>4 DEF CookieKnown
    <2> QED BY <2>2, <2>3, <2>4
<1>5. ASSUME NEW u \in Requests, Takes(u) PROVE CookieKnown'
    <2>1. CASE req[u] = "rotated"
        BY <1>0, <1>5, <2>1 DEF Takes, TakeCookie, IssuedInv, CookieKnown
    <2>2. CASE req[u] # "rotated"
        BY <1>0, <1>5, <2>2 DEF Takes, TakeCookie, CookieKnown
    <2> QED BY <2>1, <2>2
<1> QED BY <1>0, <1>1, <1>2, <1>3, <1>4, <1>5, WireSteps

\* A request stays presentable or has an excuse.
LEMMA TokenInductive ==
    ASSUME Types, SessionInv, [Next]_vars
    PROVE  \A r \in Requests : RequestKnown(r)'
<1> SUFFICES ASSUME NEW r \in Requests
             PROVE  RequestKnown(r)'
    OBVIOUS
<1>0. /\ req \in [Requests -> {"none", "sent", "lookedUp", "rotated", "refused", "done"}]
      /\ token \in [Requests -> Nat] /\ issued \in [Requests -> Nat]
      /\ HistoryInv /\ IssuedInv /\ CookieKnown
      /\ req[r] = "sent" => Presentable(r)
      /\ req[r] = "refused" => Excuse(r)
    BY DEF Types, WireTypes, SessionInv, TokenInv, RequestKnown
<1>1. req[r] # "none" /\ Excuse(r) => Excuse(r)'
    BY <1>0, ExcuseStays
<1>2. CASE Loses \/ \E u \in Requests : Takes(u)
    <2>1. valid' = valid /\ token' = token /\ (req'[r] \in {"sent", "refused"} => req'[r] = req[r])
        BY <1>0, <1>2 DEF Loses, Takes, TakeCookie
    <2> QED BY <1>0, <1>1, <2>1 DEF Presentable, RequestKnown
<1>3. ASSUME NEW u \in Requests, Sends(u)
      PROVE  RequestKnown(r)'
    <2>1. CASE r # u
        <3>1. valid' = valid /\ token'[r] = token[r] /\ req'[r] = req[r]
            BY <1>0, <1>3, <2>1 DEF Sends, Send
        <3> QED BY <1>0, <1>1, <3>1 DEF Presentable, RequestKnown
    <2>2. CASE r = u
        <3>1. /\ req'[r] = "sent" /\ token'[r] = cookie /\ valid' = valid
              /\ met' = met \cup {{r, s} : s \in {s \in Requests : InFlight(s)}}
              /\ lost' = lost /\ req[r] = "none"
            BY <1>0, <1>3, <2>2 DEF Sends, Send
        <3>2. CASE cookie \in valid
            BY <3>1, <3>2 DEF Presentable, RequestKnown
        <3>3. CASE cookie \notin valid
            <4>1. PICK s \in Requests : /\ token[s] = cookie /\ req[s] # "none"
                                        /\ req[s] = "rotated" \/ s \in lost
                BY <1>0, <3>3 DEF CookieKnown
            <4>2. s # r /\ token'[s] = token'[r]
                BY <1>0, <3>1, <4>1, SentOnce
            <4>3. {s, r} \in met' \/ s \in lost'
                <5>1. CASE req[s] = "rotated"
                    <6>1. {r, s} \in met' /\ {r, s} = {s, r}
                        BY <3>1, <5>1 DEF InFlight
                    <6> QED BY <6>1
                <5> QED BY <3>1, <4>1, <5>1
            <4> QED BY <3>1, <4>1, <4>2, <4>3 DEF Excuse, Presentable, RequestKnown
        <3> QED BY <3>1, <3>2, <3>3 DEF RequestKnown
    <2> QED BY <2>1, <2>2
<1>4. ASSUME NEW u \in Requests, LooksUp(u)
      PROVE  RequestKnown(r)'
    <2>1. valid' = valid /\ token' = token
        BY <1>4 DEF LooksUp
    <2>2. CASE r # u
        BY <1>0, <1>1, <1>4, <2>1, <2>2 DEF LooksUp, Presentable, RequestKnown
    <2>3. CASE r = u /\ token[r] \in valid
        BY <1>0, <1>4, <2>3 DEF LooksUp, RequestKnown
    <2>4. CASE r = u /\ token[r] \notin valid
        BY <1>0, <1>1, <1>4, <2>4 DEF LooksUp, Presentable, RequestKnown
    <2> QED BY <2>2, <2>3, <2>4
<1>5. ASSUME NEW u \in Requests, Rotates(u)
      PROVE  RequestKnown(r)'
    <2>1. /\ req[u] = "lookedUp" /\ req' = [req EXCEPT ![u] = "rotated"] /\ token' = token
          /\ met' = met /\ lost' = lost /\ valid \ {token[u]} \subseteq valid'
        BY <1>5 DEF Rotates
    <2>2. req'[r] \in {"sent", "refused"} => req'[r] = req[r] /\ r # u
        BY <1>0, <2>1
    <2>3. ASSUME req'[r] = "sent", token[r] \in valid PROVE Presentable(r)'
        <3>1. CASE token[r] # token[u]
            BY <2>1, <2>3, <3>1 DEF Presentable, RequestKnown
        <3>2. CASE token[r] = token[u]
            <4>1. {u, r} \in met
                BY <1>0, <2>1, <2>2, <2>3 DEF HistoryInv, InFlight
            <4> QED BY <2>1, <2>2, <2>3, <3>2, <4>1 DEF Excuse, Presentable
        <3> QED BY <3>1, <3>2
    <2> QED BY <1>0, <1>1, <2>2, <2>3 DEF Presentable, RequestKnown
<1> QED BY <1>0, <1>2, <1>3, <1>4, <1>5, WireSteps

LEMMA SessionInductive == Types /\ SessionInv /\ [Next]_vars => SessionInv'
BY HistoryInductive, IssuedInductive, CookieInductive, TokenInductive
DEF SessionInv, TokenInv

\* A session is refused only when two requests with its token overlapped or the
\* answer to one was lost.
THEOREM RefusalNeedsOverlap == Spec => []RefusedOnlyByOverlap
<1>1. Init => SessionInv
    <2> SUFFICES ASSUME Init PROVE SessionInv
        OBVIOUS
    <2>1. HistoryInv
        BY Constants_ DEF Init, HistoryInv, InFlight
    <2>2. IssuedInv
        BY DEF Init, IssuedInv
    <2>3. TokenInv
        BY DEF Init, TokenInv, CookieKnown, RequestKnown
    <2> QED BY <2>1, <2>2, <2>3 DEF SessionInv
<1>2. SessionInv => RefusedOnlyByOverlap
    BY Constants_ DEF SessionInv, TokenInv, RequestKnown, Excuse, RefusedOnlyByOverlap
<1> QED BY <1>1, <1>2, SessionInductive, TypesHold, PTL DEF Spec
=============================================================================
