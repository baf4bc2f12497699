------------------------- MODULE ComposerSyncProofs -------------------------
(* Proofs about ComposerSync, for every set of drafts and all bounds.      *)
EXTENDS ComposerSync, TLAPS

-----------------------------------------------------------------------------
(* Types *)

\* All but the first job of the queue have still to be started.
QueueInv == \A i \in 1 .. Len(jobs) : i > 1 => jobs[i].stage = "queued"

FormTypes ==
    /\ draft \in Drafts /\ saved \in Drafts /\ serverDraft \in Drafts /\ lastSent \in Drafts
    /\ published \in Drafts \cup {NoDraft} /\ accepted \subseteq Drafts

RefTypes ==
    /\ lastKey \in Drafts \cup {NoDraft} /\ closeKey \in Drafts \cup {NoDraft}
    /\ appliedSeq \in Nat /\ nextSeq \in Nat /\ explicitKeys \subseteq Drafts
    /\ publishing \in BOOLEAN

PageTypes ==
    /\ timer \in BOOLEAN /\ enabled \in BOOLEAN /\ page \in {"open", "left", "closed"}
    /\ edits \in 0 .. MaxEdits /\ calls \in 0 .. MaxCalls /\ failures \in 0 .. MaxFailures
    /\ lapses \subseteq Lapses

QueueTypes == jobs \in Seq(Job) /\ QueueInv

Types == FormTypes /\ RefTypes /\ PageTypes /\ QueueTypes /\ closing \subseteq CloseSave

LEMMA TypesAreTypeOK == Types => TypeOK
BY DEF Types, FormTypes, RefTypes, PageTypes, QueueTypes, TypeOK

LEMMA HeadIsJob ==
    ASSUME QueueTypes, jobs # <<>>
    PROVE  /\ Head(jobs) \in Job /\ Head(jobs) = jobs[1] /\ Len(jobs) \in Nat \ {0}
           /\ Head(jobs).draft \in Drafts /\ Head(jobs).seq \in Nat
<1>1. jobs \in Seq(Job) /\ Len(jobs) > 0 /\ Head(jobs) \in Job /\ Head(jobs) = jobs[1]
    BY DEF QueueTypes
<1> QED BY <1>1 DEF Job

\* A queue grows at its end, its first job goes on, or it is dropped.
LEMMA JobAdded ==
    ASSUME QueueTypes, NEW k \in {"auto", "explicit", "publish"}, NEW d \in Drafts,
           jobs' = Append(jobs, [kind |-> k, draft |-> d, seq |-> 0, stage |-> "queued"])
    PROVE  QueueTypes'
<1> DEFINE job == [kind |-> k, draft |-> d, seq |-> 0, stage |-> "queued"]
<1>1. job \in Job /\ job.stage = "queued"
    BY DEF Job
<1>2. jobs \in Seq(Job) /\ jobs' = Append(jobs, job) /\ jobs' \in Seq(Job)
    BY <1>1 DEF QueueTypes
<1>3. QueueInv'
    BY <1>1, <1>2 DEF QueueTypes, QueueInv
<1> QED BY <1>2, <1>3 DEF QueueTypes

LEMMA JobGoesOn ==
    ASSUME QueueTypes, jobs # <<>>,
           NEW g \in {"queued", "put", "accepted", "post", "posted"}, NEW n \in Nat,
           \/ jobs' = [jobs EXCEPT ![1].stage = g]
           \/ jobs' = [jobs EXCEPT ![1].stage = g, ![1].seq = n]
    PROVE  /\ QueueTypes' /\ jobs' # <<>> /\ Len(jobs') = Len(jobs)
           /\ jobs'[1].stage = g /\ jobs'[1].draft = jobs[1].draft
           /\ jobs'[1].kind = jobs[1].kind
           /\ \A i \in 1 .. Len(jobs) : i > 1 => jobs'[i] = jobs[i]
<1>1. jobs \in Seq(Job) /\ Len(jobs) \in Nat \ {0} /\ jobs[1] \in Job /\ 1 \in 1 .. Len(jobs)
    BY HeadIsJob DEF QueueTypes
<1>2. PICK job \in Job : /\ jobs' = [jobs EXCEPT ![1] = job]
                         /\ job.stage = g /\ job.draft = jobs[1].draft /\ job.kind = jobs[1].kind
    <2>1. [jobs[1] EXCEPT !.stage = g] \in Job /\ [jobs[1] EXCEPT !.stage = g, !.seq = n] \in Job
        BY <1>1 DEF Job
    <2>2. jobs' \in {[jobs EXCEPT ![1] = [jobs[1] EXCEPT !.stage = g]],
                     [jobs EXCEPT ![1] = [jobs[1] EXCEPT !.stage = g, !.seq = n]]}
        BY <1>1
    <2> QED BY <1>1, <2>1, <2>2 DEF Job
<1>3. jobs' \in Seq(Job) /\ Len(jobs') = Len(jobs) /\ jobs'[1] = job
      /\ \A i \in 1 .. Len(jobs) : i > 1 => jobs'[i] = jobs[i]
    BY <1>1, <1>2
<1>4. QueueInv'
    BY <1>1, <1>3 DEF QueueTypes, QueueInv
<1> QED BY <1>1, <1>2, <1>3, <1>4 DEF QueueTypes

LEMMA JobSettles ==
    ASSUME QueueTypes, jobs # <<>>, jobs' = Tail(jobs)
    PROVE  QueueTypes' /\ (jobs' # <<>> => jobs'[1].stage = "queued")
<1>1. jobs \in Seq(Job) /\ Len(jobs) \in Nat \ {0} /\ jobs' \in Seq(Job)
      /\ Len(jobs') = Len(jobs) - 1 /\ \A i \in 1 .. Len(jobs') : jobs'[i] = jobs[i + 1]
    BY HeadIsJob DEF QueueTypes
<1>2. \A i \in 1 .. Len(jobs') : jobs'[i].stage = "queued"
    BY <1>1 DEF QueueTypes, QueueInv
<1>3. jobs' # <<>> => 1 \in 1 .. Len(jobs')
    BY <1>1
<1> QED BY <1>1, <1>2, <1>3 DEF QueueTypes, QueueInv

\* What is left of the queue when the tab is gone.
Remnant == {<<>>} \cup {<<jobs[i]>> : i \in {i \in DOMAIN jobs : jobs[i].stage \in {"put", "post"}}}

LEMMA QueueDropped ==
    ASSUME QueueTypes, jobs' \in Remnant
    PROVE  QueueTypes' /\ (jobs' = <<>> \/ (jobs # <<>> /\ jobs' = <<jobs[1]>>))
<1>1. CASE jobs' = <<>>
    BY <1>1 DEF QueueTypes, QueueInv
<1>2. CASE jobs' # <<>>
    <2>1. PICK i \in DOMAIN jobs : jobs' = <<jobs[i]>> /\ jobs[i].stage \in {"put", "post"}
        BY <1>2 DEF Remnant
    <2>2. jobs \in Seq(Job) /\ i \in 1 .. Len(jobs) /\ jobs[i] \in Job
        BY <2>1 DEF QueueTypes
    <2>3. i = 1
        BY <2>1, <2>2 DEF QueueTypes, QueueInv
    <2>4. Len(jobs') = 1 /\ jobs' \in Seq(Job) /\ jobs # <<>>
        BY <2>1, <2>2
    <2> QED BY <2>1, <2>3, <2>4 DEF QueueTypes, QueueInv
<1> QED BY <1>1, <1>2

LEMMA LapseTypes == ASSUME PageTypes, NEW l \in Lapses, NEW b \in BOOLEAN
                    PROVE  Lapse(l, b) \subseteq Lapses /\ lapses \subseteq Lapse(l, b)
BY DEF Lapse, PageTypes

\* A counter below its bound may be increased.
LEMMA CountUp ==
    ASSUME PageTypes
    PROVE  /\ edits < MaxEdits => edits + 1 \in 0 .. MaxEdits
           /\ calls < MaxCalls => calls + 1 \in 0 .. MaxCalls
           /\ failures < MaxFailures => failures + 1 \in 0 .. MaxFailures
<1>1. MaxEdits \in Nat /\ MaxCalls \in Nat /\ MaxFailures \in Nat
    BY ComposerAssumption
<1> QED BY <1>1 DEF PageTypes

LEMMA SettleTypes ==
    ASSUME Types, jobs # <<>>, NEW base \in Drafts, Settle(base)
    PROVE  QueueTypes' /\ explicitKeys' \subseteq Drafts /\ publishing' \in BOOLEAN /\ timer' \in BOOLEAN
BY JobSettles DEF Types, Settle, RefTypes, PageTypes

LEMMA AppliedTypes ==
    ASSUME Types, NEW d \in Drafts, NEW n \in Nat, ApplySaved(d, n)
    PROVE  saved' \in Drafts /\ lastKey' \in Drafts \cup {NoDraft} /\ appliedSeq' \in Nat
BY DEF Types, ApplySaved, RefTypes, FormTypes

LEMMA CloseTypes ==
    ASSUME Types, NEW b \in BOOLEAN, SaveOnPageClose(b)
    PROVE  /\ timer' \in BOOLEAN /\ closeKey' \in Drafts \cup {NoDraft} /\ nextSeq' \in Nat
           /\ closing' \subseteq CloseSave /\ lastSent' \in Drafts
           /\ lapses' \subseteq Lapses /\ lapses \subseteq lapses'
<1>1. {"overlap", "disabled", "reverted", "skipped"} \subseteq Lapses
    BY DEF Lapses
<1>2. lapses' \subseteq Lapses /\ lapses \subseteq lapses'
    BY <1>1 DEF Types, PageTypes, SaveOnPageClose, Lapse
<1>3. [draft |-> draft, seq |-> nextSeq + 1, stage |-> "put"] \in CloseSave /\ nextSeq + 1 \in Nat
    BY DEF Types, FormTypes, RefTypes, CloseSave
<1> QED BY <1>2, <1>3 DEF Types, FormTypes, RefTypes, PageTypes, SaveOnPageClose

LEMMA TypesInductive == Types /\ [Next]_vars => Types'
<1> SUFFICES ASSUME Types, [Next]_vars PROVE Types'
    OBVIOUS
<1> USE ComposerAssumption DEF Types
<1>0. {"failed", "overlap", "reverted", "disabled", "abandoned", "skipped"} \subseteq Lapses
    BY DEF Lapses
<1>1. ASSUME NEW d \in Drafts, Edit(d) PROVE Types'
    <2>1. timer' \in BOOLEAN /\ lapses' \subseteq Lapses
        BY <1>0, <1>1 DEF Edit, PageTypes, Lapse
    <2>2. QueueTypes' /\ RefTypes'
        BY <1>1 DEF Edit, RefTypes, QueueTypes, QueueInv, refs
    <2>3. PageTypes'
        BY <1>1, <2>1, CountUp DEF Edit, PageTypes
    <2> QED BY <1>1, <2>2, <2>3 DEF Edit, FormTypes, server
<1>2. CASE TimerFires
    <2>1. QueueTypes'
        BY <1>2, JobAdded DEF TimerFires, FormTypes
    <2> QED BY <1>2, <2>1 DEF TimerFires, FormTypes, RefTypes, PageTypes, refs, server, bounds
<1>3. CASE SaveDraft
    <2>1. QueueTypes'
        BY <1>3, JobAdded DEF SaveDraft, FormTypes, QueueTypes, QueueInv
    <2>2. lapses' \subseteq Lapses /\ explicitKeys' \subseteq Drafts
        BY <1>0, <1>3 DEF SaveDraft, PageTypes, FormTypes, RefTypes, Lapse
    <2>3. PageTypes'
        BY <1>3, <2>2, CountUp DEF SaveDraft, PageTypes
    <2> QED BY <1>3, <2>1, <2>2, <2>3 DEF SaveDraft, FormTypes, RefTypes, server
<1>4. CASE PublishDraft
    <2>1. QueueTypes'
        BY <1>4, JobAdded DEF PublishDraft, FormTypes
    <2>2. PageTypes'
        BY <1>4, CountUp DEF PublishDraft, PageTypes
    <2> QED BY <1>4, <2>1, <2>2 DEF PublishDraft, FormTypes, RefTypes, server
<1>5. CASE StartSave
    <2>1. QueueTypes' /\ Head(jobs).draft \in Drafts
        <3>1. nextSeq + 1 \in Nat /\ jobs # <<>>
            BY <1>5 DEF StartSave, RefTypes
        <3>2. jobs' = [jobs EXCEPT ![1].stage = "put", ![1].seq = nextSeq + 1]
            BY <1>5 DEF StartSave
        <3> QED BY <3>1, <3>2, JobGoesOn, HeadIsJob
    <2>2. lapses' \subseteq Lapses
        BY <1>0, <1>5 DEF StartSave, PageTypes, Lapse
    <2> QED BY <1>5, <2>1, <2>2 DEF StartSave, FormTypes, RefTypes, PageTypes, server, bounds
<1>6. CASE ServerAccepts
    <2>1. QueueTypes' /\ Head(jobs).draft \in Drafts
        <3>1. 0 \in Nat
            OBVIOUS
        <3> QED BY <1>6, <3>1, JobGoesOn, HeadIsJob DEF ServerAccepts
    <2> QED BY <1>6, <2>1 DEF ServerAccepts, FormTypes, RefTypes, PageTypes, refs, bounds
<1>7. CASE SaveReturns
    <2>1. jobs # <<>> /\ ApplySaved(Head(jobs).draft, Head(jobs).seq)
        BY <1>7 DEF SaveReturns
    <2>2. saved' \in Drafts /\ lastKey' \in Drafts \cup {NoDraft} /\ appliedSeq' \in Nat
        BY <2>1, AppliedTypes, HeadIsJob
    <2>3. CASE Head(jobs).kind = "publish"
        <3>1. QueueTypes'
            BY <1>7, <2>1, <2>3, JobGoesOn, 0 \in Nat DEF SaveReturns
        <3> QED BY <1>7, <2>2, <2>3, <3>1 DEF SaveReturns, FormTypes, RefTypes, PageTypes, server, bounds
    <2>4. CASE Head(jobs).kind # "publish"
        <3>1. Settle(saved')
            BY <1>7, <2>4 DEF SaveReturns
        <3>2. QueueTypes' /\ explicitKeys' \subseteq Drafts /\ publishing' \in BOOLEAN /\ timer' \in BOOLEAN
            BY <2>1, <2>2, <3>1, SettleTypes
        <3> QED BY <1>7, <2>2, <3>2 DEF SaveReturns, FormTypes, RefTypes, PageTypes, server, bounds
    <2> QED BY <2>3, <2>4
<1>8. CASE ServerPublishes
    <2>1. QueueTypes'
        BY <1>8, JobGoesOn, 0 \in Nat DEF ServerPublishes
    <2> QED BY <1>8, <2>1 DEF ServerPublishes, FormTypes, RefTypes, PageTypes, refs, bounds
<1>9. CASE PublishReturns
    <2>1. QueueTypes' /\ explicitKeys' \subseteq Drafts /\ publishing' \in BOOLEAN /\ timer' \in BOOLEAN
        BY <1>9, SettleTypes DEF PublishReturns, FormTypes
    <2>2. lapses' \subseteq Lapses
        BY <1>0, <1>9 DEF PublishReturns, PageTypes, Lapse
    <2> QED BY <1>9, <2>1, <2>2 DEF PublishReturns, FormTypes, RefTypes, PageTypes, server, bounds
<1>10. CASE SaveFails
    <2>1. QueueTypes' /\ explicitKeys' \subseteq Drafts /\ publishing' \in BOOLEAN /\ timer' \in BOOLEAN
        BY <1>10, SettleTypes DEF SaveFails, FormTypes
    <2> QED BY <1>0, <1>10, <2>1 DEF SaveFails, FormTypes, RefTypes, PageTypes, server
<1>11. CASE TabHidden \/ PageLeft
    <2>1. /\ timer' \in BOOLEAN /\ closeKey' \in Drafts \cup {NoDraft} /\ nextSeq' \in Nat
          /\ closing' \subseteq CloseSave /\ lastSent' \in Drafts /\ lapses' \subseteq Lapses
        BY <1>11, CloseTypes DEF TabHidden, PageLeft
    <2>2. PageTypes'
        BY <1>11, <2>1, CountUp DEF TabHidden, PageLeft, PageTypes, bounds
    <2>3. QueueTypes' /\ FormTypes'
        BY <1>11, <2>1 DEF TabHidden, PageLeft, FormTypes, QueueTypes, QueueInv, server
    <2> QED BY <1>11, <2>1, <2>2, <2>3 DEF TabHidden, PageLeft, RefTypes
<1>12. CASE TabClosed
    <2>1. /\ timer' \in BOOLEAN /\ closeKey' \in Drafts \cup {NoDraft} /\ nextSeq' \in Nat
          /\ closing' \subseteq CloseSave /\ lastSent' \in Drafts /\ lapses' \subseteq Lapses
        <3>1. CASE page = "open"
            BY <1>12, <3>1, CloseTypes DEF TabClosed
        <3>2. CASE page # "open"
            BY <1>0, <1>12, <3>2 DEF TabClosed, FormTypes, RefTypes, PageTypes, Lapse
        <3> QED BY <3>1, <3>2
    <2>2. QueueTypes'
        BY <1>12, QueueDropped DEF TabClosed, Remnant
    <2> QED BY <1>12, <2>1, <2>2 DEF TabClosed, FormTypes, RefTypes, PageTypes, server, bounds
<1>13. ASSUME NEW s \in closing, CloseSaveAccepted(s) PROVE Types'
    <2>1. s.draft \in Drafts /\ [s EXCEPT !.stage = "accepted"] \in CloseSave
        BY DEF CloseSave
    <2> QED BY <1>13, <2>1
        DEF CloseSaveAccepted, FormTypes, RefTypes, PageTypes, QueueTypes, QueueInv, refs, bounds
<1>14. ASSUME NEW s \in closing, CloseSaveReturns(s) PROVE Types'
    <2>1. s.draft \in Drafts /\ s.seq \in Nat
        BY DEF CloseSave
    <2>2. saved' \in Drafts /\ lastKey' \in Drafts \cup {NoDraft} /\ appliedSeq' \in Nat
        BY <1>14, <2>1, AppliedTypes DEF CloseSaveReturns
    <2> QED BY <1>14, <2>2
        DEF CloseSaveReturns, ForgetCloseKey, FormTypes, RefTypes, PageTypes, QueueTypes, QueueInv,
            server, bounds
<1>15. ASSUME NEW s \in closing, CloseSaveFails(s) PROVE Types'
    BY <1>0, <1>15
    DEF CloseSaveFails, ForgetCloseKey, FormTypes, RefTypes, PageTypes, QueueTypes, QueueInv, server
<1>16. CASE ToggleEnabled
    BY <1>16 DEF ToggleEnabled, FormTypes, RefTypes, PageTypes, QueueTypes, QueueInv, refs, server
<1>17. CASE UNCHANGED vars
    BY <1>17 DEF vars, FormTypes, RefTypes, PageTypes, QueueTypes, QueueInv, refs, server, bounds
<1> QED BY <1>1, <1>2, <1>3, <1>4, <1>5, <1>6, <1>7, <1>8, <1>9, <1>10, <1>11, <1>12, <1>13,
           <1>14, <1>15, <1>16, <1>17 DEF Next

LEMMA TypesHold == Spec => []Types
<1>1. ASSUME Init PROVE Types
    <2>1. FormTypes /\ RefTypes
        BY <1>1, ComposerAssumption DEF Init, FormTypes, RefTypes
    <2>2. MaxEdits \in Nat /\ MaxCalls \in Nat /\ MaxFailures \in Nat
        BY ComposerAssumption
    <2>3. PageTypes
        <3>1. edits \in 0 .. MaxEdits /\ calls \in 0 .. MaxCalls /\ failures \in 0 .. MaxFailures
            BY <1>1, <2>2 DEF Init
        <3> QED BY <1>1, <3>1 DEF Init, PageTypes
    <2>4. QueueTypes /\ closing \subseteq CloseSave
        BY <1>1 DEF Init, QueueTypes, QueueInv
    <2> QED BY <2>1, <2>3, <2>4 DEF Types
<1> QED BY <1>1, TypesInductive, PTL DEF Spec

\* Every variable has its type, for every set of drafts and all bounds.
THEOREM TypeCorrect == Spec => []TypeOK
BY TypesAreTypeOK, TypesHold, PTL

-----------------------------------------------------------------------------
(* The first job of the queue, the only one that has been started *)

Started == jobs # <<>> /\ jobs[1].stage # "queued"

\* A job that is first and started was so before the step.
HeadStays == Started' => Started /\ jobs'[1] = jobs[1]

\* The save under way in the queue.
QueueSave == Started /\ jobs[1].stage \in {"put", "accepted"}

LEMMA AddedBehind ==
    ASSUME QueueTypes, NEW k \in {"auto", "explicit", "publish"}, NEW d \in Drafts,
           jobs' = Append(jobs, [kind |-> k, draft |-> d, seq |-> 0, stage |-> "queued"])
    PROVE  HeadStays /\ (Started => Started' /\ jobs'[1] = jobs[1])
<1>1. jobs \in Seq(Job)
    BY DEF QueueTypes
<1>2. CASE jobs = <<>>
    BY <1>2 DEF HeadStays, Started
<1>3. CASE jobs # <<>>
    BY <1>1, <1>3 DEF HeadStays, Started
<1> QED BY <1>2, <1>3

LEMMA SettledLeaves ==
    ASSUME QueueTypes, jobs # <<>>, NEW base, Settle(base) PROVE HeadStays
BY JobSettles DEF Settle, HeadStays, Started

LEMMA DroppedLeaves == ASSUME QueueTypes, TabClosed PROVE HeadStays
<1>1. QueueTypes' /\ (jobs' = <<>> \/ (jobs # <<>> /\ jobs' = <<jobs[1]>>))
    BY QueueDropped DEF TabClosed, Remnant
<1> QED BY <1>1 DEF HeadStays, Started

\* The user edits, clicks or does nothing; a job is added or ends, and when its
\* save is still under way then it has failed.
QuietStep ==
    /\ HeadStays
    /\ QueueSave => (Started' /\ jobs'[1] = jobs[1]) \/ "failed" \in lapses'
    /\ lapses \subseteq lapses'
    /\ UNCHANGED <<saved, serverDraft, accepted, closing, page, nextSeq, appliedSeq, lastSent, published>>
\* The first job goes on to the next stage.
JobStep(from, to) ==
    /\ Started' /\ jobs # <<>> /\ jobs[1].stage = from /\ jobs'[1].stage = to
    /\ jobs'[1].draft = jobs[1].draft /\ jobs'[1].kind = jobs[1].kind
    /\ UNCHANGED <<closing, page>>
    /\ lapses \subseteq lapses'

LEMMA StageChanges ==
    ASSUME QueueTypes, jobs # <<>>, NEW g \in {"put", "accepted", "post", "posted"},
           jobs' = [jobs EXCEPT ![1].stage = g]
    PROVE  /\ Started' /\ jobs'[1].stage = g /\ jobs'[1].draft = jobs[1].draft
           /\ jobs'[1].kind = jobs[1].kind /\ jobs'[1].seq = jobs[1].seq
<1>1. jobs \in Seq(Job) /\ 1 \in 1 .. Len(jobs) /\ jobs[1] \in Job /\ Len(jobs) \in Nat
    BY HeadIsJob DEF QueueTypes
<1>2. jobs'[1] = [jobs[1] EXCEPT !.stage = g] /\ Len(jobs') = Len(jobs)
    BY <1>1
<1>3. jobs' # <<>>
    BY <1>1, <1>2
<1> QED BY <1>1, <1>2, <1>3 DEF Started, Job

LEMMA QuietSteps ==
    ASSUME Types,
           \/ \E d \in Drafts : Edit(d)
           \/ TimerFires \/ SaveDraft \/ PublishDraft \/ PublishReturns \/ SaveFails \/ ToggleEnabled
           \/ UNCHANGED vars
    PROVE  QuietStep
<1> USE DEF Types, QuietStep, QueueSave
<1>1. ASSUME NEW d \in Drafts, Edit(d) PROVE QuietStep
    BY <1>1 DEF Edit, Lapse, refs, server, HeadStays, Started
<1>2. CASE TimerFires
    BY <1>2, AddedBehind DEF TimerFires, refs, server, FormTypes
<1>3. CASE SaveDraft
    <2>1. CASE IsDirty
        BY <1>3, <2>1, AddedBehind DEF SaveDraft, server, FormTypes, Lapse
    <2>2. CASE ~IsDirty
        BY <1>3, <2>2 DEF SaveDraft, server, HeadStays, Started, Lapse
    <2> QED BY <2>1, <2>2
<1>4. CASE PublishDraft
    BY <1>4, AddedBehind DEF PublishDraft, server, FormTypes
<1>5. CASE PublishReturns
    BY <1>5, SettledLeaves, HeadIsJob DEF PublishReturns, server, Lapse
<1>6. CASE SaveFails
    BY <1>6, SettledLeaves DEF SaveFails, server
<1>7. CASE ToggleEnabled
    BY <1>7 DEF ToggleEnabled, refs, server, HeadStays, Started
<1>8. CASE UNCHANGED vars
    BY <1>8 DEF vars, refs, server, HeadStays, Started
<1> QED BY <1>1, <1>2, <1>3, <1>4, <1>5, <1>6, <1>7, <1>8

\* The first element of a sequence is replaced.
LEMMA ReplacedFirst ==
    ASSUME NEW S, NEW q \in Seq(S), NEW x \in S, Len(q) > 0
    PROVE  LET r == [q EXCEPT ![1] = x] IN r[1] = x /\ Len(r) = Len(q) /\ r # <<>>
<1> DEFINE r == [q EXCEPT ![1] = x]
<1>1. r \in Seq(S) /\ r[1] = x /\ Len(r) = Len(q)
    OBVIOUS
<1>2. r # <<>>
    BY <1>1
<1> QED BY <1>1, <1>2

LEMMA FirstIsSent ==
    ASSUME QueueTypes, jobs # <<>>, NEW n \in Nat,
           jobs' \in {[jobs EXCEPT ![1].stage = "put", ![1].seq = n]}
    PROVE  /\ Started' /\ jobs'[1].stage = "put" /\ jobs'[1].draft = jobs[1].draft
           /\ jobs'[1].kind = jobs[1].kind /\ jobs'[1].seq = n
<1>1. jobs \in Seq(Job) /\ Len(jobs) \in Nat \ {0} /\ jobs[1] \in Job /\ 1 \in 1 .. Len(jobs)
    BY HeadIsJob DEF QueueTypes
<1>2. PICK job \in Job : /\ jobs' = [jobs EXCEPT ![1] = job] /\ job.stage = "put" /\ job.seq = n
                         /\ job.draft = jobs[1].draft /\ job.kind = jobs[1].kind
    <2>1. [jobs[1] EXCEPT !.stage = "put", !.seq = n] \in Job
        BY <1>1 DEF Job
    <2>2. jobs' = [jobs EXCEPT ![1] = [jobs[1] EXCEPT !.stage = "put", !.seq = n]]
        BY <1>1
    <2> QED BY <1>1, <2>1, <2>2 DEF Job
<1>3. job \in Job /\ jobs' = [jobs EXCEPT ![1] = job]
    BY <1>2
<1>4. jobs'[1] = job /\ jobs' # <<>>
    BY <1>1, <1>3, ReplacedFirst
<1> QED BY <1>2, <1>4 DEF Started

LEMMA Starts ==
    ASSUME Types, StartSave
    PROVE  /\ JobStep("queued", "put") /\ jobs'[1].seq = nextSeq + 1
           /\ nextSeq' = nextSeq + 1 /\ lastSent' = jobs[1].draft
           /\ lapses' = Lapse("overlap", Overlaps(jobs[1].draft))
           /\ UNCHANGED <<saved, serverDraft, accepted, appliedSeq, published>>
<1>1. Head(jobs) = jobs[1] /\ jobs # <<>> /\ nextSeq + 1 \in Nat
    BY HeadIsJob DEF Types, RefTypes, StartSave
<1>2. jobs' \in {[jobs EXCEPT ![1].stage = "put", ![1].seq = nextSeq + 1]}
    BY DEF StartSave
<1>3. /\ Started' /\ jobs'[1].stage = "put" /\ jobs'[1].draft = jobs[1].draft
      /\ jobs'[1].kind = jobs[1].kind /\ jobs'[1].seq = nextSeq + 1
    BY <1>1, <1>2, FirstIsSent DEF Types
<1> QED BY <1>1, <1>3 DEF StartSave, JobStep, Lapse, server, bounds

LEMMA Accepts ==
    ASSUME Types, ServerAccepts
    PROVE  /\ JobStep("put", "accepted") /\ jobs'[1].seq = jobs[1].seq
           /\ serverDraft' = jobs[1].draft /\ accepted' = accepted \cup {jobs[1].draft}
           /\ UNCHANGED <<saved, appliedSeq, nextSeq, lastSent, published>>
BY HeadIsJob, StageChanges DEF Types, ServerAccepts, JobStep, refs, bounds

LEMMA Publishes ==
    ASSUME Types, ServerPublishes
    PROVE  /\ JobStep("post", "posted") /\ jobs'[1].seq = jobs[1].seq
           /\ UNCHANGED <<saved, serverDraft, accepted, appliedSeq, nextSeq, lastSent>>
BY HeadIsJob, StageChanges DEF Types, ServerPublishes, JobStep, refs, bounds

LEMMA Returns ==
    ASSUME Types, SaveReturns
    PROVE  /\ Started /\ jobs[1].stage = "accepted" /\ ApplySaved(jobs[1].draft, jobs[1].seq)
           /\ \/ HeadStays /\ (Started' => jobs'[1].stage # jobs[1].stage)
              \/ JobStep("accepted", "post") /\ jobs[1].kind = "publish"
           /\ UNCHANGED <<serverDraft, accepted, closing, page, nextSeq, lastSent, published, lapses>>
<1>1. jobs # <<>> /\ Head(jobs) = jobs[1] /\ jobs[1].stage = "accepted" /\ Started
    BY HeadIsJob DEF Types, SaveReturns, Started
<1>2. CASE jobs[1].kind = "publish"
    <2>1. jobs' = [jobs EXCEPT ![1].stage = "post"]
        BY <1>1, <1>2 DEF SaveReturns
    <2> QED BY <1>1, <1>2, <2>1, StageChanges DEF Types, SaveReturns, JobStep, server, bounds
<1>3. CASE jobs[1].kind # "publish"
    <2>1. jobs' = Tail(jobs)
        BY <1>1, <1>3 DEF SaveReturns, Settle
    <2>2. ~Started'
        BY <1>1, <2>1, JobSettles DEF Types, Started
    <2> QED BY <1>1, <2>2 DEF SaveReturns, HeadStays, server, bounds
<1> QED BY <1>2, <1>3

\* A save on page close is sent, or nothing is.
ClosesPage ==
    /\ HeadStays
    /\ lapses \subseteq lapses'
    /\ \/ UNCHANGED <<closing, nextSeq, lastSent>>
       \/ /\ closing' = closing \cup {[draft |-> draft, seq |-> nextSeq + 1, stage |-> "put"]}
          /\ nextSeq' = nextSeq + 1 /\ lastSent' = draft
          /\ Started /\ jobs[1].kind = "publish" => "overlap" \in lapses'
    /\ Alive' => Alive /\ jobs' = jobs
    /\ UNCHANGED <<saved, serverDraft, accepted, appliedSeq, published>>

LEMMA ClosingSteps ==
    ASSUME Types, TabHidden \/ PageLeft \/ TabClosed
    PROVE  ClosesPage
<1>1. ASSUME NEW b \in BOOLEAN, SaveOnPageClose(b)
      PROVE  /\ lapses \subseteq lapses'
             /\ \/ UNCHANGED <<closing, nextSeq, lastSent>>
                \/ /\ closing' = closing \cup {[draft |-> draft, seq |-> nextSeq + 1, stage |-> "put"]}
                   /\ nextSeq' = nextSeq + 1 /\ lastSent' = draft
                   /\ Started /\ jobs[1].kind = "publish" => "overlap" \in lapses'
    <2>1. lapses \subseteq lapses'
        BY <1>1, CloseTypes
    <2>2. Started => 1 \in DOMAIN jobs
        BY HeadIsJob DEF Types, QueueTypes, Started
    <2> QED BY <1>1, <2>1, <2>2 DEF SaveOnPageClose, Lapse
<1>2. CASE TabHidden
    BY <1>1, <1>2 DEF TabHidden, ClosesPage, HeadStays, Started, server, Alive
<1>3. CASE PageLeft
    BY <1>1, <1>3 DEF PageLeft, ClosesPage, HeadStays, Started, server, Alive
<1>4. CASE TabClosed
    <2>1. HeadStays
        BY <1>4, DroppedLeaves DEF Types
    <2>2. CASE page = "open"
        BY <1>1, <1>4, <2>1, <2>2 DEF TabClosed, ClosesPage, server, Alive
    <2>3. CASE page # "open"
        BY <1>4, <2>1, <2>3 DEF TabClosed, ClosesPage, Lapse, server, Alive
    <2> QED BY <2>2, <2>3
<1> QED BY <1>2, <1>3, <1>4

\* Every step is one of these.
LEMMA Steps ==
    ASSUME Types, [Next]_vars
    PROVE  \/ QuietStep \/ StartSave \/ ServerAccepts \/ SaveReturns \/ ServerPublishes \/ ClosesPage
           \/ \E s \in closing : CloseSaveAccepted(s) \/ CloseSaveReturns(s) \/ CloseSaveFails(s)
BY QuietSteps, ClosingSteps DEF Next

-----------------------------------------------------------------------------
(* The baseline *)

\* The server has accepted what an answer under way will be taken for.
AcceptInv ==
    /\ BaselineWasAccepted
    /\ Started /\ jobs[1].stage # "put" => jobs[1].draft \in accepted
    /\ \A s \in closing : s.stage = "accepted" => s.draft \in accepted

LEMMA AcceptInductive == Types /\ AcceptInv /\ [Next]_vars => AcceptInv'
<1> SUFFICES ASSUME Types, AcceptInv, [Next]_vars PROVE AcceptInv'
    OBVIOUS
<1> USE DEF AcceptInv, BaselineWasAccepted
<1>1. CASE QuietStep
    BY <1>1 DEF QuietStep, HeadStays
<1>2. CASE StartSave
    BY <1>2, Starts DEF JobStep
<1>3. CASE ServerAccepts
    BY <1>3, Accepts DEF JobStep
<1>4. CASE SaveReturns
    BY <1>4, Returns DEF JobStep, HeadStays, ApplySaved
<1>5. CASE ServerPublishes
    BY <1>5, Publishes DEF JobStep, Started
<1>6. CASE ClosesPage
    BY <1>6 DEF ClosesPage, HeadStays
<1>7. ASSUME NEW s \in closing, CloseSaveAccepted(s) PROVE AcceptInv'
    <2>1. [s EXCEPT !.stage = "accepted"].draft = s.draft
        BY DEF Types, CloseSave
    <2> QED BY <1>7, <2>1 DEF CloseSaveAccepted, Started
<1>8. ASSUME NEW s \in closing, CloseSaveReturns(s) PROVE AcceptInv'
    BY <1>8 DEF CloseSaveReturns, ApplySaved, Started, server
<1>9. ASSUME NEW s \in closing, CloseSaveFails(s) PROVE AcceptInv'
    BY <1>9 DEF CloseSaveFails, Started, server
<1> QED BY <1>1, <1>2, <1>3, <1>4, <1>5, <1>6, <1>7, <1>8, <1>9, Steps

\* The page takes for saved only what the server has accepted.
THEOREM BaselineAccepted == Spec => []BaselineWasAccepted
<1>1. Init => AcceptInv
    BY DEF Init, AcceptInv, BaselineWasAccepted, Started
<1>2. AcceptInv => BaselineWasAccepted
    BY DEF AcceptInv
<1> QED BY <1>1, <1>2, AcceptInductive, TypesHold, PTL DEF Spec

\* Saves are numbered as they are sent; without failures the last one has been
\* applied or will be.
OrderInv ==
    /\ appliedSeq <= nextSeq
    /\ QueueSave => jobs[1].seq <= nextSeq /\ (jobs[1].seq = nextSeq => jobs[1].draft = lastSent)
    /\ \A s \in closing : s.seq <= nextSeq /\ (s.seq = nextSeq => s.draft = lastSent)
    /\ Alive /\ "failed" \notin lapses =>
        \/ appliedSeq = nextSeq /\ saved = lastSent
        \/ QueueSave /\ jobs[1].seq = nextSeq
        \/ \E s \in closing : s.seq = nextSeq

LEMMA OrderInductive == Types /\ OrderInv /\ [Next]_vars => OrderInv'
<1> SUFFICES ASSUME Types, OrderInv, [Next]_vars PROVE OrderInv'
    OBVIOUS
<1>0. /\ appliedSeq \in Nat /\ nextSeq \in Nat
      /\ \A s \in closing : s.seq \in Nat
      /\ Started => jobs[1].seq \in Nat
    BY HeadIsJob DEF Types, RefTypes, CloseSave, Started
<1> USE <1>0 DEF OrderInv, QueueSave
<1>1. CASE QuietStep
    BY <1>1 DEF QuietStep, HeadStays, Alive
<1>2. CASE StartSave
    BY <1>2, Starts DEF JobStep, Alive
<1>3. CASE ServerAccepts
    BY <1>3, Accepts DEF JobStep, Alive, Started
<1>4. CASE SaveReturns
    <2>1. /\ Started /\ jobs[1].stage = "accepted" /\ ApplySaved(jobs[1].draft, jobs[1].seq)
          /\ ~QueueSave'
          /\ UNCHANGED <<closing, page, nextSeq, lastSent, lapses>>
        BY <1>4, Returns DEF JobStep, HeadStays
    <2>2. CASE jobs[1].seq = nextSeq
        <3>1. appliedSeq' = nextSeq /\ saved' = lastSent
            BY <2>1, <2>2 DEF ApplySaved
        <3> QED BY <2>1, <3>1 DEF Alive
    <2>3. CASE jobs[1].seq # nextSeq
        <3>1. appliedSeq' <= nextSeq
            BY <2>1, <2>3 DEF ApplySaved
        <3>2. appliedSeq = nextSeq => saved' = saved /\ appliedSeq' = appliedSeq
            BY <2>1, <2>3 DEF ApplySaved
        <3> QED BY <2>1, <2>3, <3>1, <3>2 DEF Alive
    <2> QED BY <2>2, <2>3
<1>5. CASE ServerPublishes
    BY <1>5, Publishes DEF JobStep, Alive
<1>6. CASE ClosesPage
    <2>1. [draft |-> draft, seq |-> nextSeq + 1, stage |-> "put"].seq = nextSeq + 1
        OBVIOUS
    <2>2. appliedSeq' <= nextSeq'
        BY <1>6 DEF ClosesPage
    <2>3. QueueSave' => /\ jobs'[1].seq <= nextSeq'
                        /\ jobs'[1].seq = nextSeq' => jobs'[1].draft = lastSent'
        BY <1>6 DEF ClosesPage, HeadStays
    <2>4. \A s \in closing' : s.seq <= nextSeq' /\ (s.seq = nextSeq' => s.draft = lastSent')
        BY <1>6, <2>1 DEF ClosesPage
    <2>5. Alive' /\ "failed" \notin lapses' =>
              \/ appliedSeq' = nextSeq' /\ saved' = lastSent'
              \/ QueueSave' /\ jobs'[1].seq = nextSeq'
              \/ \E s \in closing' : s.seq = nextSeq'
        BY <1>6, <2>1 DEF ClosesPage, Started
    <2> QED BY <2>2, <2>3, <2>4, <2>5
<1>7. ASSUME NEW s \in closing, CloseSaveAccepted(s) PROVE OrderInv'
    <2>1. [s EXCEPT !.stage = "accepted"].draft = s.draft /\ [s EXCEPT !.stage = "accepted"].seq = s.seq
        BY DEF Types, CloseSave
    <2>2. closing' = (closing \ {s}) \cup {[s EXCEPT !.stage = "accepted"]}
          /\ UNCHANGED <<saved, jobs, page, lastSent, lapses, appliedSeq, nextSeq>>
        BY <1>7 DEF CloseSaveAccepted, refs
    <2> QED BY <2>1, <2>2 DEF Started, Alive
<1>8. ASSUME NEW s \in closing, CloseSaveReturns(s) PROVE OrderInv'
    <2>1. /\ closing' = closing \ {s} /\ ApplySaved(s.draft, s.seq)
          /\ UNCHANGED <<jobs, page, nextSeq, lastSent, lapses>>
        BY <1>8 DEF CloseSaveReturns
    <2>2. CASE s.seq = nextSeq
        <3>1. appliedSeq' = nextSeq /\ saved' = lastSent
            BY <2>1, <2>2 DEF ApplySaved
        <3> QED BY <2>1, <3>1 DEF Alive, Started
    <2>3. CASE s.seq # nextSeq
        <3>1. appliedSeq' <= nextSeq
            BY <2>1, <2>3 DEF ApplySaved
        <3>2. appliedSeq = nextSeq => saved' = saved /\ appliedSeq' = appliedSeq
            BY <2>1, <2>3 DEF ApplySaved
        <3> QED BY <2>1, <2>3, <3>1, <3>2 DEF Alive, Started
    <2> QED BY <2>2, <2>3
<1>9. ASSUME NEW s \in closing, CloseSaveFails(s) PROVE OrderInv'
    BY <1>9 DEF CloseSaveFails, Started, Alive
<1> QED BY <1>1, <1>2, <1>3, <1>4, <1>5, <1>6, <1>7, <1>8, <1>9, Steps

\* Without failures, the page ends up with the content of the save sent last,
\* in whatever order the answers come.
THEOREM LastSentWins == Spec => []BaselineIsLastSent
<1>1. Init => OrderInv
    BY DEF Init, OrderInv, QueueSave, Started
<1>2. OrderInv => BaselineIsLastSent
    BY DEF OrderInv, BaselineIsLastSent, Quiet, QueueSave, Started
<1> QED BY <1>1, <1>2, OrderInductive, TypesHold, PTL DEF Spec

-----------------------------------------------------------------------------
(* Publication *)

\* Between the two requests of a publication no other content reaches the
\* server, unless a save on page close has slipped in.
PublishInv ==
    /\ Started /\ jobs[1].stage \in {"post", "posted"} => jobs[1].kind = "publish"
    /\ Started /\ jobs[1].kind = "publish" /\ "overlap" \notin lapses =>
        /\ \A s \in closing : s.stage = "put" => s.draft = jobs[1].draft
        /\ jobs[1].stage \in {"accepted", "post"} => serverDraft = jobs[1].draft

LEMMA PublishInductive == Types /\ PublishInv /\ [Next]_vars => PublishInv'
<1> SUFFICES ASSUME Types, PublishInv, [Next]_vars PROVE PublishInv'
    OBVIOUS
<1> USE DEF PublishInv
<1>1. CASE QuietStep
    BY <1>1 DEF QuietStep, HeadStays
<1>2. CASE StartSave
    <2>1. "overlap" \notin lapses' =>
              \A s \in closing : s.stage = "put" => s.draft = jobs[1].draft
        BY <1>2, Starts DEF Lapse, Overlaps, OnTheWay
    <2> QED BY <1>2, <2>1, Starts DEF JobStep
<1>3. CASE ServerAccepts
    BY <1>3, Accepts DEF JobStep, Started
<1>4. CASE SaveReturns
    BY <1>4, Returns DEF JobStep, HeadStays
<1>5. CASE ServerPublishes
    BY <1>5, Publishes DEF JobStep, Started
<1>6. CASE ClosesPage
    BY <1>6 DEF ClosesPage, HeadStays
<1>7. ASSUME NEW s \in closing, CloseSaveAccepted(s) PROVE PublishInv'
    <2>1. [s EXCEPT !.stage = "accepted"].stage = "accepted"
        BY DEF Types, CloseSave
    <2> QED BY <1>7, <2>1 DEF CloseSaveAccepted, Started
<1>8. ASSUME NEW s \in closing, CloseSaveReturns(s) PROVE PublishInv'
    BY <1>8 DEF CloseSaveReturns, Started, server
<1>9. ASSUME NEW s \in closing, CloseSaveFails(s) PROVE PublishInv'
    BY <1>9 DEF CloseSaveFails, Started, server
<1> QED BY <1>1, <1>2, <1>3, <1>4, <1>5, <1>6, <1>7, <1>8, <1>9, Steps

\* Only what the user asked to publish is published, unless a save on page close
\* has slipped in between the two requests.
THEOREM ClickedDraftIsPublished == Spec => OnlyTheClickedDraftPublished
<1>1. Init => PublishInv
    BY DEF Init, PublishInv, Started
<1>2. ASSUME Types, PublishInv, [Next]_vars
      PROVE  [published' # published =>
                 "overlap" \in lapses \/ published' = Head(jobs).draft]_vars
    <2>1. CASE ServerPublishes
        <3>1. /\ jobs # <<>> /\ Head(jobs).stage = "post" /\ published' = serverDraft
              /\ Head(jobs) = jobs[1]
            BY <2>1, HeadIsJob DEF ServerPublishes, Types
        <3> QED BY <1>2, <3>1 DEF PublishInv, Started
    <2>2. CASE ~ServerPublishes
        <3>1. published' = published
            BY <1>2, <2>2, Steps, Starts, Accepts, Returns
            DEF QuietStep, ClosesPage, CloseSaveAccepted, CloseSaveReturns, CloseSaveFails, server
        <3> QED BY <3>1
    <2> QED BY <2>1, <2>2
<1> QED BY <1>1, <1>2, PublishInductive, TypesHold, PTL DEF Spec, OnlyTheClickedDraftPublished
=============================================================================
