---------------------------- MODULE ComposerSync ----------------------------
(***************************************************************************)
(* Saving of the draft of an agent on its configure page:                  *)
(* web/features/agent-v2/agent-detail/configure/use-agent-configure-sync   *)
(* with the serial queue of use-serial-async-callback and the two atoms of *)
(* the composer store.                                                     *)
(*                                                                         *)
(* One tab edits one agent.  A draft is a value: its form state, the       *)
(* configuration made of it and the JSON key compared by the hook stand    *)
(* and fall together (the model chosen outside of the form is left out).   *)
(* Ordinary saves go through a serial queue; a save on page close does     *)
(* not, it is a keepalive request of its own.  A request reaches the       *)
(* server in one step and its answer the page in another one.              *)
(***************************************************************************)
EXTENDS Integers, Sequences, FiniteSets

CONSTANTS
    Drafts,     \* contents of the form
    Loaded,     \* the draft that the page was opened with
    NoDraft,    \* undefined, for the keys and what was never published
    MaxEdits,   \* bound on the edits of the user
    MaxCalls,   \* bound on explicit saves, publications and hidden tabs
    MaxFailures \* bound on failing requests

ASSUME ComposerAssumption ==
    /\ Loaded \in Drafts
    /\ NoDraft \notin Drafts
    /\ {MaxEdits, MaxCalls, MaxFailures} \subseteq Nat

VARIABLES
    draft,        \* agentComposerDraftAtom
    saved,        \* agentComposerSavedDraftAtom, the baseline
    lastKey,      \* lastAutosavedDraftKeyRef
    appliedSeq,   \* latestAppliedSaveSequenceRef
    nextSeq,      \* nextSaveSequenceRef
    closeKey,     \* pageCloseSavingDraftKeyRef
    explicitKeys, \* explicitlySavingDraftKeysRef
    publishing,   \* publishInFlightRef
    timer,        \* the debounced autosave is pending
    jobs,         \* queueRef: the ordinary saves, only the first one runs
    closing,      \* keepalive saves that have not returned
    page,         \* "open", "left" (unmounted) or "closed"
    enabled,      \* enabledRef: the composer query has succeeded
    serverDraft,  \* the draft kept by the server
    published,    \* what was published last
    edits, calls, failures, \* used up bounds
    accepted,     \* history: the drafts that the server has accepted
    lastSent,     \* history: the draft of the save with the highest sequence
    lapses        \* history: what has happened that a later save must repair

refs == <<lastKey, appliedSeq, nextSeq, closeKey, explicitKeys, publishing>>
bounds == <<edits, calls, failures>>
server == <<serverDraft, published, accepted>>
vars == <<draft, saved, refs, timer, jobs, closing, page, enabled, server,
          bounds, lastSent, lapses>>

Job == [kind : {"auto", "explicit", "publish"}, draft : Drafts, seq : Nat,
        stage : {"queued", "put", "accepted", "post", "posted"}]
CloseSave == [draft : Drafts, seq : Nat, stage : {"put", "accepted"}]
Lapses == {"failed", "overlap", "reverted", "disabled", "abandoned", "skipped"}

IsDirty == draft # saved
Alive == page # "closed"

\* Contents of the saves that are queued or have not returned.
Pending == {jobs[i].draft : i \in DOMAIN jobs} \cup {s.draft : s \in closing}

\* Contents that the server has still to accept.
OnTheWay == {s.draft : s \in {c \in closing : c.stage = "put"}}
            \cup {jobs[i].draft : i \in {k \in DOMAIN jobs : jobs[k].stage = "put"}}

Lapse(name, condition) == IF condition THEN lapses \cup {name} ELSE lapses

Init ==
    /\ draft = Loaded /\ saved = Loaded /\ serverDraft = Loaded
    /\ lastKey = NoDraft /\ closeKey = NoDraft /\ published = NoDraft
    /\ appliedSeq = 0 /\ nextSeq = 0
    /\ explicitKeys = {} /\ publishing = FALSE /\ timer = FALSE
    /\ jobs = <<>> /\ closing = {}
    /\ page = "open" /\ enabled = TRUE
    /\ edits = 0 /\ calls = 0 /\ failures = 0
    /\ accepted = {Loaded} /\ lastSent = Loaded /\ lapses = {}

-----------------------------------------------------------------------------
(* The form and the debounced autosave. *)

\* The subscriber of the draft atom: a clean draft cancels the timer, a dirty
\* one arms it unless a publication runs or this content was saved last.
Edit(d) ==
    /\ page = "open" /\ enabled
    /\ edits < MaxEdits /\ d # draft
    /\ draft' = d
    /\ timer' = CASE d = saved -> FALSE
                  [] d # saved /\ ~publishing /\ lastKey # d -> TRUE
                  [] OTHER -> timer
    /\ edits' = edits + 1
    /\ lapses' = Lapse("reverted", d = saved /\ Pending \ {d} # {})
    /\ UNCHANGED <<saved, refs, jobs, closing, page, enabled, server, calls,
                   failures, lastSent>>

\* The debounced function asks neither whether saving is enabled nor whether
\* the draft is dirty; it takes the draft of now.
TimerFires ==
    /\ Alive /\ timer
    /\ timer' = FALSE
    /\ jobs' = Append(jobs, [kind |-> "auto", draft |-> draft, seq |-> 0,
                             stage |-> "queued"])
    /\ UNCHANGED <<draft, saved, refs, closing, page, enabled, server, bounds,
                   lastSent, lapses>>

-----------------------------------------------------------------------------
(* saveDraft and publishDraft. *)

SaveDraft ==
    /\ page = "open" /\ enabled /\ calls < MaxCalls
    /\ calls' = calls + 1
    /\ timer' = FALSE
    /\ IF IsDirty
       THEN /\ explicitKeys' = explicitKeys \cup {draft}
            /\ jobs' = Append(jobs, [kind |-> "explicit", draft |-> draft,
                                     seq |-> 0, stage |-> "queued"])
       ELSE UNCHANGED <<explicitKeys, jobs>>
    /\ lapses' = Lapse("reverted", ~IsDirty /\ Pending \ {draft} # {})
    /\ UNCHANGED <<draft, saved, lastKey, appliedSeq, nextSeq, closeKey, publishing,
                   closing, page, enabled, server, edits, failures, lastSent>>

\* A draft that does not validate is refused before anything is changed.
PublishDraft ==
    /\ page = "open" /\ enabled /\ calls < MaxCalls
    /\ ~publishing
    /\ calls' = calls + 1
    /\ publishing' = TRUE
    /\ timer' = FALSE
    /\ jobs' = Append(jobs, [kind |-> "publish", draft |-> draft, seq |-> 0,
                             stage |-> "queued"])
    /\ UNCHANGED <<draft, saved, lastKey, appliedSeq, nextSeq, closeKey,
                   explicitKeys, closing, page, enabled, server, edits, failures,
                   lastSent, lapses>>

-----------------------------------------------------------------------------
(* The serial queue.  The request of the first job is sent once the jobs   *)
(* before it have settled.                                                 *)

Overlaps(d) == OnTheWay \ {d} # {}

\* Mutant: the stage of a request that has been sent is misspelled.
StartSaveMisspelled ==
    /\ Alive /\ jobs # <<>> /\ Head(jobs).stage = "queued"
    /\ jobs' = [jobs EXCEPT ![1].stage = "sent"]
    /\ UNCHANGED <<draft, saved, refs, timer, closing, page, enabled, server, bounds,
                   lastSent, lapses>>

StartSave ==
    /\ Alive /\ jobs # <<>> /\ Head(jobs).stage = "queued"
    /\ nextSeq' = nextSeq + 1
    /\ jobs' = [jobs EXCEPT ![1].stage = "put", ![1].seq = nextSeq + 1]
    /\ lastSent' = Head(jobs).draft
    /\ lapses' = Lapse("overlap", Overlaps(Head(jobs).draft))
    /\ UNCHANGED <<draft, saved, lastKey, appliedSeq, closeKey, explicitKeys,
                   publishing, timer, closing, page, enabled, server, bounds>>

ServerAccepts ==
    /\ jobs # <<>> /\ Head(jobs).stage = "put"
    /\ serverDraft' = Head(jobs).draft
    /\ accepted' = accepted \cup {Head(jobs).draft}
    /\ jobs' = [jobs EXCEPT ![1].stage = "accepted"]
    /\ UNCHANGED <<draft, saved, refs, timer, closing, page, enabled, published,
                   bounds, lastSent, lapses>>

\* Mutant: the answer that comes last is taken for the newest.
ApplySavedInAnyOrder(d, seq) == saved' = d /\ lastKey' = d /\ appliedSeq' = seq

\* applySavedDraft: the answer to an older save than the one applied last
\* changes nothing.
ApplySaved(d, seq) ==
    IF seq < appliedSeq
    THEN UNCHANGED <<saved, lastKey, appliedSeq>>
    ELSE saved' = d /\ lastKey' = d /\ appliedSeq' = seq

\* Mutant: edits made during a publication do not arm the autosave.
SettleWithoutRearm(base) ==
    /\ jobs' = Tail(jobs)
    /\ explicitKeys' = IF Head(jobs).kind = "explicit"
                       THEN explicitKeys \ {Head(jobs).draft} ELSE explicitKeys
    /\ publishing' = (publishing /\ Head(jobs).kind # "publish")
    /\ timer' = timer

\* The end of a job.  publishDraft re-arms the autosave for edits made while
\* it ran (base is the baseline after the job); saveDraft forgets its key.
Settle(base) ==
    LET job == Head(jobs) IN
    /\ jobs' = Tail(jobs)
    /\ explicitKeys' = IF job.kind = "explicit"
                       THEN explicitKeys \ {job.draft} ELSE explicitKeys
    /\ publishing' = (publishing /\ job.kind # "publish")
    /\ timer' = (timer \/ (job.kind = "publish" /\ enabled /\ draft # base))

SaveReturns ==
    /\ Alive /\ jobs # <<>> /\ Head(jobs).stage = "accepted"
    /\ ApplySaved(Head(jobs).draft, Head(jobs).seq)
    /\ IF Head(jobs).kind = "publish"
       THEN /\ jobs' = [jobs EXCEPT ![1].stage = "post"]
            /\ UNCHANGED <<explicitKeys, publishing, timer>>
       ELSE Settle(saved')
    /\ UNCHANGED <<draft, nextSeq, closeKey, closing, page, enabled, server, bounds,
                   lastSent, lapses>>

\* The publish request names no content: the server publishes its draft.
ServerPublishes ==
    /\ jobs # <<>> /\ Head(jobs).stage = "post"
    /\ published' = serverDraft
    /\ jobs' = [jobs EXCEPT ![1].stage = "posted"]
    /\ UNCHANGED <<draft, saved, refs, timer, closing, page, enabled, serverDraft,
                   accepted, bounds, lastSent, lapses>>

PublishReturns ==
    /\ Alive /\ jobs # <<>> /\ Head(jobs).stage = "posted"
    /\ Settle(saved)
    /\ lapses' = Lapse("disabled", ~enabled /\ IsDirty) \cup
                 Lapse("reverted", ~IsDirty /\ Pending \ {draft} # {})
    /\ UNCHANGED <<draft, saved, lastKey, appliedSeq, nextSeq, closeKey, closing,
                   page, enabled, server, bounds, lastSent>>

\* Mutant: a failing autosave marks its draft as saved.
SaveFailsButApplied ==
    /\ Alive /\ jobs # <<>> /\ Head(jobs).stage # "queued"
    /\ failures < MaxFailures
    /\ failures' = failures + 1
    /\ ApplySaved(Head(jobs).draft, Head(jobs).seq)
    /\ Settle(saved')
    /\ lapses' = lapses \cup {"failed"}
    /\ UNCHANGED <<draft, nextSeq, closeKey, closing, page, enabled, server, edits,
                   calls, lastSent>>

\* Mutant: the publication goes on although its save has failed.
SaveFailsButPublishes ==
    /\ Alive /\ jobs # <<>> /\ Head(jobs).stage = "put"
    /\ failures < MaxFailures
    /\ failures' = failures + 1
    /\ Head(jobs).kind = "publish"
    /\ jobs' = [jobs EXCEPT ![1].stage = "post"]
    /\ lapses' = lapses \cup {"failed"}
    /\ UNCHANGED <<draft, saved, refs, timer, closing, page, enabled, server, edits,
                   calls, lastSent>>

\* A request fails, or its answer is lost after the server has carried it out.
SaveFails ==
    /\ Alive /\ jobs # <<>> /\ Head(jobs).stage # "queued"
    /\ failures < MaxFailures
    /\ failures' = failures + 1
    /\ Settle(saved)
    /\ lapses' = lapses \cup {"failed"}
    /\ UNCHANGED <<draft, saved, lastKey, appliedSeq, nextSeq, closeKey, closing,
                   page, enabled, server, edits, calls, lastSent>>

-----------------------------------------------------------------------------
(* saveDirtyDraftOnPageClose: when the tab is hidden or closed (a save in  *)
(* flight may be repeated) and when the page is left (it may not).         *)

SaveOnPageClose(allowInFlightDuplicate) ==
    IF /\ enabled /\ IsDirty
       /\ draft \notin {lastKey, closeKey}
       /\ allowInFlightDuplicate \/ draft \notin explicitKeys
    THEN /\ timer' = FALSE
         /\ closeKey' = draft
         /\ nextSeq' = nextSeq + 1
         /\ closing' = closing \cup {[draft |-> draft, seq |-> nextSeq + 1,
                                      stage |-> "put"]}
         /\ lastSent' = draft
         /\ lapses' = Lapse("overlap",
                OnTheWay \ {draft} # {} \/ \E i \in DOMAIN jobs :
                    jobs[i].draft # draft \/ jobs[i].kind = "publish")
    ELSE /\ UNCHANGED <<timer, closeKey, nextSeq, closing, lastSent>>
         /\ lapses' = Lapse("disabled", ~enabled /\ IsDirty) \cup
                Lapse("reverted", ~IsDirty /\ Pending \ {draft} # {}) \cup
                Lapse("skipped", enabled /\ IsDirty /\ draft = closeKey /\
                    ~\E s \in closing : s.draft = draft /\ s.seq = nextSeq)

\* The page is hidden, or hears beforeunload of a navigation that takes its time
\* or is given up: it saves and goes on.
TabHidden ==
    /\ page = "open" /\ calls < MaxCalls
    /\ calls' = calls + 1
    /\ SaveOnPageClose(TRUE)
    /\ UNCHANGED <<draft, saved, lastKey, appliedSeq, explicitKeys, publishing, jobs,
                   page, enabled, server, edits, failures>>

\* The hook is unmounted; its timers and promises go on.
PageLeft ==
    /\ page = "open"
    /\ page' = "left"
    /\ SaveOnPageClose(FALSE)
    /\ UNCHANGED <<draft, saved, lastKey, appliedSeq, explicitKeys, publishing, jobs,
                   enabled, server, bounds>>

\* The tab is gone; a page that is still open saves as it is hidden for the last
\* time.  Queued jobs are lost, the request under way may be cancelled, keepalive
\* requests go on.
TabClosed ==
    /\ page # "closed"
    /\ page' = "closed"
    /\ IF page = "open"
       THEN SaveOnPageClose(TRUE)
       ELSE /\ lapses' = Lapse("abandoned", jobs # <<>> \/ timer)
            /\ UNCHANGED <<timer, closeKey, nextSeq, closing, lastSent>>
    /\ jobs' \in {<<>>} \cup {<<jobs[i]>> : i \in {i \in DOMAIN jobs :
                                                  jobs[i].stage \in {"put", "post"}}}
    /\ UNCHANGED <<draft, saved, lastKey, appliedSeq, explicitKeys, publishing,
                   enabled, server, bounds>>

CloseSaveAccepted(s) ==
    /\ s \in closing /\ s.stage = "put"
    /\ serverDraft' = s.draft
    /\ accepted' = accepted \cup {s.draft}
    /\ closing' = (closing \ {s}) \cup {[s EXCEPT !.stage = "accepted"]}
    /\ UNCHANGED <<draft, saved, refs, timer, jobs, page, enabled, published, bounds,
                   lastSent, lapses>>

ForgetCloseKey(s) == closeKey' = IF closeKey = s.draft THEN NoDraft ELSE closeKey

CloseSaveReturns(s) ==
    /\ Alive /\ s \in closing /\ s.stage = "accepted"
    /\ ApplySaved(s.draft, s.seq)
    /\ ForgetCloseKey(s)
    /\ closing' = closing \ {s}
    /\ UNCHANGED <<draft, nextSeq, explicitKeys, publishing, timer, jobs, page,
                   enabled, server, bounds, lastSent, lapses>>

CloseSaveFails(s) ==
    /\ s \in closing /\ failures < MaxFailures
    /\ failures' = failures + 1
    /\ ForgetCloseKey(s)
    /\ closing' = closing \ {s}
    /\ lapses' = lapses \cup {"failed"}
    /\ UNCHANGED <<draft, saved, lastKey, appliedSeq, nextSeq, explicitKeys,
                   publishing, timer, jobs, page, enabled, server, edits, calls,
                   lastSent>>

\* A refetch of the composer query fails or succeeds again.
ToggleEnabled ==
    /\ page = "open" /\ calls < MaxCalls
    /\ calls' = calls + 1
    /\ enabled' = ~enabled
    /\ UNCHANGED <<draft, saved, refs, timer, jobs, closing, page, server, edits,
                   failures, lastSent, lapses>>

Next ==
    \/ \E d \in Drafts : Edit(d)
    \/ TimerFires \/ SaveDraft \/ PublishDraft
    \/ StartSave \/ ServerAccepts \/ SaveReturns
    \/ ServerPublishes \/ PublishReturns \/ SaveFails
    \/ TabHidden \/ PageLeft \/ TabClosed
    \/ \E s \in closing :
        CloseSaveAccepted(s) \/ CloseSaveReturns(s) \/ CloseSaveFails(s)
    \/ ToggleEnabled

\* Timers fire and requests are answered; what the user does is not assumed.
Fairness ==
    /\ WF_vars(TimerFires)
    /\ WF_vars(StartSave \/ ServerAccepts \/ SaveReturns \/ ServerPublishes
               \/ PublishReturns)
    /\ WF_vars(\E s \in closing : CloseSaveAccepted(s) \/ CloseSaveReturns(s))

Spec == Init /\ [][Next]_vars
FairSpec == Spec /\ Fairness

-----------------------------------------------------------------------------
(* Properties. *)

\* Every variable has its type.
TypeOK ==
    /\ {draft, saved, serverDraft, lastSent} \subseteq Drafts
    /\ {lastKey, closeKey, published} \subseteq Drafts \cup {NoDraft}
    /\ appliedSeq \in Nat /\ nextSeq \in Nat
    /\ explicitKeys \subseteq Drafts
    /\ {publishing, timer, enabled} \subseteq BOOLEAN
    /\ jobs \in Seq(Job) /\ closing \subseteq CloseSave
    /\ page \in {"open", "left", "closed"}
    /\ edits \in 0..MaxEdits /\ calls \in 0..MaxCalls /\ failures \in 0..MaxFailures
    /\ accepted \subseteq Drafts /\ lapses \subseteq Lapses

\* The page takes for saved only what the server has accepted, whatever fails
\* and in whatever order the answers come: an edit is never marked as saved on
\* the strength of a failed or an overtaken request.
BaselineWasAccepted == saved \in accepted /\ serverDraft \in accepted

\* No request is queued, under way or due.
Quiet == jobs = <<>> /\ closing = {} /\ (Alive => ~timer)

\* When every answer has come and none was a failure, the baseline is the
\* content of the save that was sent last, although saves on page close run
\* beside the queue and their answers come in any order.
BaselineIsLastSent ==
    Quiet /\ Alive /\ "failed" \notin lapses => saved = lastSent

\* Only what the user asked to publish is published, unless a save on page
\* close has slipped in between the two requests of the publication.
OnlyTheClickedDraftPublished ==
    [][published' # published =>
        "overlap" \in lapses \/ published' = Head(jobs).draft]_vars

\* The last edit reaches the server, by the autosave, after a publication, and
\* when the page is left or closed, unless a request failed, two saves of
\* different contents overlapped, the draft was the baseline again while another
\* save was pending, saving was disabled when it was due, the page was left
\* or closed while an older close save of the same content was unanswered, or the
\* tab was closed while a save of the page that the user had left was due.
LatestEditSaved == <>[](lapses = {} => serverDraft = draft)
=============================================================================
