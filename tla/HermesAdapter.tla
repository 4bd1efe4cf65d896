--------------------------- MODULE HermesAdapter ----------------------------
(***************************************************************************)
(* The Hermes adapter (integrations/hermes), in two parts that share no    *)
(* state: messages towards the agent, and the replies it sends.            *)
(***************************************************************************)
EXTENDS Integers, Sequences, FiniteSets, SequencesExt

(***************************************************************************)
(* The inbound half of the Hermes platform adapter                         *)
(* (integrations/hermes/marmot/adapter.py): one listener task reads the    *)
(* connector's event stream, drops repeats, optionally debounces by sender *)
(* and hands turns to a queue per group; turns of one group run in order,  *)
(* those of different groups side by side.  Before a turn the one-time     *)
(* profile-name prompt may claim the message.                              *)
(***************************************************************************)

CONSTANTS HiGroups, HiSenders,
          HiHung,      \* a group whose turns may never end
          HiDepth,     \* DEFAULT_INBOUND_QUEUE_MAX_DEPTH
          HiWindow,    \* DEFAULT_INBOUND_DEDUPE_WINDOW
          HiMaxPosts, HiMaxBreaks   \* bounds

VARIABLES hiDebounce,  \* configuration: debounce_ms > 0
          hiLog,       \* the messages the connector has for us: [g, s]
          hiPos,       \* how far the current subscription has emitted it
          hiConn,      \* "waiting" (to resubscribe), "open", "closing", "off"
          hiRecent,    \* _recent_inbound_ids, oldest first
          hiPending,   \* _debounce_pending; a non-empty batch has a timer
          hiQueue,     \* _inbound_queue: group -> tasks, the head runs
          hiPhase,     \* where the head task of a group stands
          hiStore,     \* ProfileNameOnboardingStore: "none", "done" or a group
          hiOutcome,   \* message -> what became of it
          hiTurns,     \* messages in the order their turns started
          hiPrompted,  \* groups whose prompt was reported as sent
          hiBreaks

hiVars == <<hiDebounce, hiLog, hiPos, hiConn, hiRecent, hiPending, hiQueue,
            hiPhase, hiStore, hiOutcome, hiTurns, hiPrompted,
            hiBreaks>>

HiIds == 1 .. HiMaxPosts
HiKeys == HiGroups \X HiSenders
HiInvite == <<>>                 \* the task of a group_invite event

HiInit ==
    /\ hiDebounce \in BOOLEAN
    /\ hiLog = <<>> /\ hiPos = 0 /\ hiConn = "waiting" /\ hiRecent = <<>>
    /\ hiPending = [k \in HiKeys |-> <<>>]
    /\ hiQueue = [g \in HiGroups |-> <<>>]
    /\ hiPhase = [g \in HiGroups |-> "idle"]
    /\ hiStore = "none"
    /\ hiOutcome = [i \in HiIds |-> "none"]
    /\ hiTurns = <<>> /\ hiPrompted = {} /\ hiBreaks = 0

MarkAll(ids, how) ==
    [i \in HiIds |-> IF i \in ids THEN how ELSE hiOutcome[i]]

(* A member posts (environment).                                           *)
Post(g, s) ==
    /\ Len(hiLog) < HiMaxPosts /\ hiLog' = Append(hiLog, [g |-> g, s |-> s])
    /\ UNCHANGED <<hiDebounce, hiPos, hiConn, hiRecent, hiPending, hiQueue,
                   hiPhase, hiStore, hiOutcome, hiTurns,
                   hiPrompted, hiBreaks>>

(* _consume_inbound_loop opens a subscription after its backoff; the       *)
(* connector may emit again what an earlier one had emitted.               *)
Subscribe ==
    /\ hiConn = "waiting" /\ hiConn' = "open"
    /\ \E p \in 0 .. hiPos : hiPos' = p
    /\ UNCHANGED <<hiDebounce, hiLog, hiRecent, hiPending, hiQueue, hiPhase,
                   hiStore, hiOutcome, hiTurns, hiPrompted,
                   hiBreaks>>

(* The stream ends: an error, a clean end, or resync_required.  Queues and *)
(* debounce batches outlive it.                                            *)
SubscriptionEnds ==
    /\ hiConn = "open" /\ hiBreaks < HiMaxBreaks
    /\ hiConn' = "waiting" /\ hiBreaks' = hiBreaks + 1
    /\ UNCHANGED <<hiDebounce, hiLog, hiPos, hiRecent, hiPending, hiQueue,
                   hiPhase, hiStore, hiOutcome, hiTurns,
                   hiPrompted>>

(* _RecentKeys.add.                                                        *)
Remembered(recent, i) ==
    LET all == Append(recent, i)
    IN  IF Len(all) > HiWindow THEN Tail(all) ELSE all

(* KeyedAsyncQueue.enqueue: at the depth limit the new task is shed.       *)
Enqueue(g, task) ==
    IF Len(hiQueue[g]) >= HiDepth
    THEN /\ hiOutcome' = MarkAll(ToSet(task), "shed") /\ UNCHANGED hiQueue
    ELSE /\ hiQueue' = [hiQueue EXCEPT ![g] = Append(@, task)]
         /\ UNCHANGED hiOutcome

(* Mutant: the listener awaits the turns instead of queueing them.         *)
ListenerWaits == \A g \in HiGroups : hiQueue[g] = <<>>

(* The listener pulls the next event whatever the turns are doing.         *)
ListenerReady == TRUE

(* Mutant: ids are not remembered across subscriptions.                    *)
SeenBeforeThisStream(i) == FALSE

SeenBefore(i) == i \in ToSet(hiRecent)

(* _handle_control_event for an inbound message: dedupe, remember, then    *)
(* debounce (the batch's timer restarts) or queue.                         *)
HandleMessage ==
    /\ hiConn = "open" /\ hiPos < Len(hiLog) /\ ListenerReady
    /\ hiPos' = hiPos + 1
    /\ LET i == hiPos + 1
           k == <<hiLog[i].g, hiLog[i].s>>
       IN  IF SeenBefore(i)
           THEN UNCHANGED <<hiRecent, hiPending, hiQueue, hiOutcome>>
           ELSE /\ hiRecent' = Remembered(hiRecent, i)
                /\ IF hiDebounce
                   THEN /\ hiPending' = [hiPending EXCEPT ![k] = Append(@, i)]
                        /\ UNCHANGED <<hiQueue, hiOutcome>>
                   ELSE Enqueue(hiLog[i].g, <<i>>) /\ UNCHANGED hiPending
    /\ UNCHANGED <<hiDebounce, hiLog, hiConn, hiPhase, hiStore, hiTurns, hiPrompted, hiBreaks>>

(* The debounce timer of a sender: the batch becomes one queued task.      *)
FlushDebounced(k) ==
    /\ hiPending[k] # <<>>
    /\ hiPending' = [hiPending EXCEPT ![k] = <<>>]
    /\ Enqueue(k[1], hiPending[k])
    /\ UNCHANGED <<hiDebounce, hiLog, hiPos, hiConn, hiRecent, hiPhase, hiStore,
                   hiTurns, hiPrompted, hiBreaks>>

(* group_invite: prompt on join, queued like a message (a group's invite   *)
(* comes before its messages).                                             *)
HandleGroupInvite(g) ==
    /\ hiConn = "open" /\ ListenerReady /\ hiLog = <<>>
    /\ Enqueue(g, HiInvite) /\ hiQueue[g] = <<>>
    /\ UNCHANGED <<hiDebounce, hiLog, hiPos, hiConn, hiRecent, hiPending,
                   hiPhase, hiStore, hiTurns, hiPrompted, hiBreaks>>

-----------------------------------------------------------------------------
(* Turns.                                                                  *)

(* The head task moves to another phase; nothing else of the queue moves.  *)
HeadTo(g, phase) ==
    /\ hiPhase' = [hiPhase EXCEPT ![g] = phase]
    /\ UNCHANGED <<hiQueue, hiOutcome>>

(* The head task is over.                                                  *)
HeadDone(g, how) ==
    /\ hiPhase' = [hiPhase EXCEPT ![g] = "idle"]
    /\ hiQueue' = [hiQueue EXCEPT ![g] = Tail(@)]
    /\ hiOutcome' = MarkAll(ToSet(Head(hiQueue[g])), how)

(* What a head task that is no onboarding business does next.              *)
NoPrompt(g) == IF Head(hiQueue[g]) = HiInvite THEN HeadDone(g, "none")
               ELSE HeadTo(g, "turn")

HiTurnFrame == UNCHANGED <<hiDebounce, hiLog, hiPos, hiConn, hiRecent, hiPending,
                           hiBreaks>>

(* _should_run_turn: the activation mode, a mention, the activation cache  *)
(* or group_info decide; a failed lookup skips the turn.                   *)
TaskStarts(g) ==
    /\ hiQueue[g] # <<>> /\ hiPhase[g] = "idle"
    /\ IF Head(hiQueue[g]) = HiInvite THEN HeadTo(g, "claim")
       ELSE HeadTo(g, "get") \/ HeadDone(g, "skipped")
    /\ UNCHANGED <<hiStore, hiTurns, hiPrompted>> /\ HiTurnFrame

(* _maybe_handle_profile_name_onboarding reads the store; an error is      *)
(* logged and the message runs as a turn.                                  *)
OnboardingGet(g) ==
    /\ hiPhase[g] = "get"
    /\ \/ HeadTo(g, CASE hiStore = "none" -> "claim"
                      [] hiStore = g      -> "reply"
                      [] OTHER            -> "turn")
       \/ HeadTo(g, "turn")
    /\ UNCHANGED <<hiStore, hiTurns, hiPrompted>> /\ HiTurnFrame

(* Mutant: the claim relies on the state read before.                      *)
ClaimAsRead(g) == TRUE

(* try_claim_prompt decides again under the lock.                          *)
ClaimWins(g) == hiStore = "none"

TryClaimPrompt(g) ==
    /\ hiPhase[g] = "claim"
    /\ IF ClaimWins(g) THEN hiStore' = g /\ HeadTo(g, "prompt")
       ELSE NoPrompt(g) /\ UNCHANGED hiStore
    /\ UNCHANGED <<hiTurns, hiPrompted>> /\ HiTurnFrame

(* The prompt is sent, or its failure releases the claim and the message   *)
(* runs as a turn.                                                         *)
PromptSent(g) ==
    /\ hiPhase[g] = "prompt"
    /\ hiPrompted' = hiPrompted \union {g}
    /\ HeadDone(g, "onboarding")
    /\ UNCHANGED <<hiStore, hiTurns>> /\ HiTurnFrame

PromptFails(g) ==
    /\ hiPhase[g] = "prompt" /\ hiStore' = "none" /\ NoPrompt(g)
    /\ UNCHANGED <<hiTurns, hiPrompted>> /\ HiTurnFrame

(* _handle_profile_name_reply: a skip or a published name closes the       *)
(* matter; an invalid answer or a failed publish leaves it open.           *)
ProfileNameReply(g) ==
    /\ hiPhase[g] = "reply" /\ HeadDone(g, "onboarding")
    /\ hiStore' \in {hiStore, "done"}
    /\ UNCHANGED <<hiTurns, hiPrompted>> /\ HiTurnFrame

(* handle_message starts.                                                  *)
TurnStarts(g) ==
    /\ hiPhase[g] = "turn" /\ HeadTo(g, "running")
    /\ hiTurns' = hiTurns \o Head(hiQueue[g])
    /\ UNCHANGED <<hiStore, hiPrompted>> /\ HiTurnFrame

(* The turn returns or raises; either way the next task of the group goes. *)
TurnEnds(g) ==
    /\ hiPhase[g] = "running" /\ HeadDone(g, "turn")
    /\ UNCHANGED <<hiStore, hiTurns, hiPrompted>> /\ HiTurnFrame
-----------------------------------------------------------------------------
(* disconnect: the listener and every queued task are cancelled; live      *)
(* streams are then cancelled one by one, and timers run meanwhile.        *)
Disconnect ==
    /\ hiConn \in {"waiting", "open"} /\ hiBreaks < HiMaxBreaks
    /\ hiConn' = "closing" /\ hiBreaks' = hiBreaks + 1
    /\ hiQueue' = [g \in HiGroups |-> <<>>]
    /\ hiPhase' = [g \in HiGroups |-> "idle"]
    /\ hiOutcome' = MarkAll(UNION {ToSet(t) : t \in UNION {ToSet(hiQueue[g]) :
                                               g \in HiGroups}}, "lost")
    /\ UNCHANGED <<hiDebounce, hiLog, hiPos, hiRecent, hiPending, hiStore,
                   hiTurns, hiPrompted>>

(* _cancel_debounce_tasks and the rest of disconnect.                      *)
DisconnectEnds ==
    /\ hiConn = "closing" /\ hiConn' = "off"
    /\ hiPending' = [k \in HiKeys |-> <<>>]
    /\ hiOutcome' = MarkAll(UNION {ToSet(hiPending[k]) : k \in HiKeys}, "lost")
    /\ UNCHANGED <<hiDebounce, hiLog, hiPos, hiRecent, hiQueue, hiPhase, hiStore,
                   hiTurns, hiPrompted, hiBreaks>>

(* connect on the same adapter: the recent ids are still there.            *)
Connect ==
    /\ hiConn = "off" /\ hiConn' = "waiting"
    /\ UNCHANGED <<hiDebounce, hiLog, hiPos, hiRecent, hiPending, hiQueue,
                   hiPhase, hiStore, hiOutcome, hiTurns, hiPrompted,
                   hiBreaks>>

HiRuns(g) == \/ TaskStarts(g) \/ OnboardingGet(g) \/ TryClaimPrompt(g)
             \/ PromptSent(g) \/ PromptFails(g) \/ ProfileNameReply(g)
             \/ TurnStarts(g)

HiNext == \/ \E k \in HiKeys : Post(k[1], k[2]) \/ FlushDebounced(k)
          \/ Subscribe \/ SubscriptionEnds \/ HandleMessage
          \/ \E g \in HiGroups : \/ HandleGroupInvite(g)
                                 \/ HiRuns(g) \/ TurnEnds(g)
          \/ Disconnect \/ DisconnectEnds \/ Connect

(* The listener, the timers and the queue's tasks are scheduled; a turn    *)
(* ends, except perhaps those of one group.                                *)
HiFairness ==
    /\ WF_hiVars(HandleMessage)
    /\ WF_hiVars(DisconnectEnds) /\ WF_hiVars(Connect)
    /\ \A k \in HiKeys : WF_hiVars(FlushDebounced(k))
    /\ \A g \in HiGroups : WF_hiVars(HiRuns(g))
    /\ \A g \in HiGroups \ {HiHung} : WF_hiVars(TurnEnds(g))

HiTypeOK ==
    /\ hiConn \in {"waiting", "open", "closing", "off"}
    /\ hiPos \in 0 .. Len(hiLog)
    /\ hiRecent \in Seq(HiIds) /\ Len(hiRecent) <= HiWindow
    /\ hiQueue \in [HiGroups -> Seq(Seq(HiIds))]
    /\ \A g \in HiGroups : Len(hiQueue[g]) <= HiDepth
    /\ hiPhase \in [HiGroups -> {"idle", "get", "claim", "prompt", "reply",
                                 "turn", "running"}]
    /\ hiStore \in {"none", "done"} \union HiGroups
    /\ hiOutcome \in [HiIds -> {"none", "turn", "skipped", "shed", "lost",
                                "onboarding"}]

(* Through repeats, resubscriptions, debounced batches and a disconnect, a *)
(* message starts at most one turn, and the messages of one sender in one  *)
(* group reach the agent in the order they were posted                     *)
(* (_handle_control_event, KeyedAsyncQueue).                               *)
TurnsOnceInOrder ==
    \A a, b \in DOMAIN hiTurns :
       (a < b /\ hiLog[hiTurns[a]] = hiLog[hiTurns[b]]) => hiTurns[a] < hiTurns[b]

(* The name prompt is outstanding in at most one group, although the first *)
(* messages of two groups run side by side (try_claim_prompt).             *)
OnePrompt == Cardinality(hiPrompted) <= 1

(* A turn that never ends in one group does not keep another group's       *)
(* messages from being handled: each is run, taken by the onboarding,      *)
(* skipped, shed at the limit, or dropped by a disconnect                  *)
(* (_consume_inbound_once, KeyedAsyncQueue).                               *)
OtherGroupsFlow ==
    \A i \in HiIds :
       (i \in DOMAIN hiLog /\ hiLog[i].g # HiHung) ~>
          (i \in DOMAIN hiLog /\ hiOutcome[i] # "none")

-----------------------------------------------------------------------------
(***************************************************************************)
(* Replies of the Hermes adapter for one chat                              *)
(* (integrations/hermes/marmot/adapter.py): live previews that are edited, *)
(* superseded, finalized or abandoned, the durable send with its retries,  *)
(* tool progress and media.  A call is a coroutine; other calls run at its *)
(* awaits, which are its requests to the connector.  The stream consumer   *)
(* of a turn makes previews one after the other; the turn's own sends may  *)
(* overlap with it.                                                        *)
(***************************************************************************)

CONSTANTS HrTexts,       \* visible texts, as sequences of pieces
          HrDrafts,      \* draft ids
          HrRetries,     \* length of SEND_FINAL_RETRY_BACKOFF_S
          HrToolCap,     \* MAX_TOOL_PROGRESS_MESSAGES
          HrMaxCalls,    \* bound on calls
          HrMaxFaults    \* bound on requests that fail or lose their answer

VARIABLES hrStreams,   \* MarmotLiveStream objects with their connector session
          hrActive,    \* _active_streams, keyed by the stream's message id
          hrDraft,     \* _draft_streams
          hrLast,      \* _last_chat_stream of the chat
          hrTask,      \* the running call of the consumer and of the turn
          hrCalls,     \* every call: what it asked, its result, what it posted
          hrSeen,      \* _tool_progress_events, oldest first
          hrFaults

hrVars == <<hrStreams, hrActive, hrDraft, hrLast, hrTask, hrCalls, hrSeen, hrFaults>>
hrRefs == <<hrActive, hrDraft, hrLast>>

HrTasks == {"consumer", "turn"}
NoPreview == 0
ToolMessages == {1, 2}
IdleTask == [pc |-> "idle"]
HrFault == hrFaults < HrMaxFaults /\ hrFaults' = hrFaults + 1
HeldStreams == hrActive \cup {hrDraft[d] : d \in HrDrafts} \cup {hrLast}

HrInit ==
    /\ hrStreams = <<>> /\ hrActive = {} /\ hrLast = NoPreview /\ hrCalls = <<>>
    /\ hrDraft = [d \in HrDrafts |-> NoPreview] /\ hrSeen = <<>> /\ hrFaults = 0
    /\ hrTask = [t \in HrTasks |-> IdleTask]

-----------------------------------------------------------------------------
(* Local steps: what a call does between two awaits                        *)

\* The call goes on to its next await, or returns its SendResult.
Run(t, r, calls) ==
    IF r.pc \in {"ok", "failed"}
    THEN hrTask' = [hrTask EXCEPT ![t] = IdleTask]
         /\ hrCalls' = [calls EXCEPT ![r.n].res = r.pc]
    ELSE hrTask' = [hrTask EXCEPT ![t] = r] /\ hrCalls' = calls

\* _cancel_stream for some streams, then the rest of the call.
Cancelling(r, streams, then) ==
    [r EXCEPT !.pc = IF streams = {} THEN then ELSE "cancel",
              !.todo = streams, !.then = then]
\* _send_final_direct with a fresh key.
Sending(r) == [r EXCEPT !.pc = "send", !.try = 0]

\* An update that is not append-only: a final goes out without the preview,
\* anything else fails.  AppendOnlyTextState.pending_suffix_for raises.
Rejected(r) == Cancelling(r, {r.s}, IF r.fin THEN "send" ELSE "failed")

\* append_replacement against the committed text of the stream.
AppendReplacement(r, text) ==
    IF ~IsPrefix(text, r.text) THEN Rejected(r)
    ELSE IF text = r.text THEN [r EXCEPT !.pc = IF r.fin THEN "finalize" ELSE "ok"]
    ELSE [r EXCEPT !.pc = "append", !.suffix = SubSeq(r.text, Len(text) + 1, Len(r.text))]

\* The stream s is forgotten: _forget_stream, _remove_stream_refs.
Forget(s) ==
    /\ hrActive' = hrActive \ {s}
    /\ hrDraft' = [d \in HrDrafts |-> IF hrDraft[d] = s THEN NoPreview ELSE hrDraft[d]]
    /\ hrLast' = IF hrLast = s THEN NoPreview ELSE hrLast

-----------------------------------------------------------------------------
(* Calls                                                                   *)

\* A call; d is its draft id or its tool progress message.
Fresh(kind, text, fin, d) ==
    [pc |-> "new", n |-> Len(hrCalls) + 1, kind |-> kind, text |-> text, fin |-> fin,
     draft |-> d, s |-> NoPreview, suffix |-> <<>>, todo |-> {}, then |-> "ok", try |-> 0]

Entry(kind, fin, m, res) ==
    [kind |-> kind, fin |-> fin, m |-> m, res |-> res, posts |-> 0, keyed |-> FALSE,
     lost |-> {}, sends |-> 0]

Start(t, r) ==
    /\ hrTask[t] = IdleTask /\ Len(hrCalls) < HrMaxCalls
    /\ Run(t, r, Append(hrCalls, Entry(r.kind, r.fin, r.draft, "running")))
    /\ UNCHANGED <<hrStreams, hrFaults>>

\* Seeded bug: the streams before it stay open.
SendPreviewBeside(text) ==
    /\ Start("consumer", Cancelling(Fresh("preview", text, FALSE, 0), {}, "begin"))
    /\ UNCHANGED <<hrRefs, hrSeen>>

(* send with the streaming cursor: every other stream of the chat is        *)
(* cancelled, then a new one begins.                                        *)
SendPreview(text) ==
    /\ Start("consumer", Cancelling(Fresh("preview", text, FALSE, 0), HeldStreams \ {NoPreview}, "begin"))
    /\ UNCHANGED <<hrRefs, hrSeen>>

(* send of a final: the last preview of the chat is finalized with it.      *)
Send(text) ==
    LET r == [Fresh("final", text, TRUE, 0) EXCEPT !.s = hrLast] IN
    /\ Start("turn", IF hrLast # NoPreview /\ ~hrStreams[hrLast].finalized
                     THEN AppendReplacement(r, hrStreams[hrLast].text) ELSE Sending(r))
    /\ UNCHANGED <<hrRefs, hrSeen>>

(* edit_message of a preview that is still active.                          *)
EditMessage(s, text, fin) ==
    /\ s \in hrActive
    /\ Start("consumer", AppendReplacement([Fresh("edit", text, fin, 0) EXCEPT !.s = s],
                                           hrStreams[s].text))
    /\ UNCHANGED <<hrRefs, hrSeen>>

(* send_draft: a known draft is extended, a new one cancels the other       *)
(* drafts and then the other streams; a draft that is rewritten is dropped. *)
SendDraft(d, text) ==
    LET s == hrDraft[d]
        r == [Fresh("draft", text, FALSE, d) EXCEPT !.s = s]
        next == IF s = NoPreview
                THEN Cancelling(r, {hrDraft[e] : e \in HrDrafts \ {d}} \ {NoPreview}, "others")
                ELSE AppendReplacement(r, hrStreams[s].text)
    IN  /\ Start("consumer", IF next.pc = "others"
                             THEN Cancelling(r, HeldStreams \ {NoPreview}, "begin") ELSE next)
        /\ hrDraft' = IF next.then = "failed" THEN [hrDraft EXCEPT ![d] = NoPreview] ELSE hrDraft
        /\ UNCHANGED <<hrActive, hrLast, hrSeen>>

\* send_draft with nothing visible.
ClearDraft(d) ==
    /\ Start("consumer", Cancelling([Fresh("draft", <<>>, FALSE, d) EXCEPT !.s = hrDraft[d]],
                                    {hrDraft[d]} \ {NoPreview}, "ok"))
    /\ hrDraft' = [hrDraft EXCEPT ![d] = NoPreview] /\ UNCHANGED <<hrActive, hrLast, hrSeen>>

\* Seeded bug: the set of a message is created anew by every call.
ToolProgressSeenAfresh(m) == <<[m |-> m, seen |-> FALSE]>>

(* _tool_progress_seen: the message becomes the newest, the oldest ones are *)
(* dropped.                                                                 *)
ToolProgressSeen(m) ==
    LET old == SelectSeq(hrSeen, LAMBDA e : e.m = m)
        all == SelectSeq(hrSeen, LAMBDA e : e.m # m)
               \o (IF old = <<>> THEN <<[m |-> m, seen |-> FALSE]>> ELSE old)
    IN  SubSeq(all, IF Len(all) > HrToolCap THEN 2 ELSE 1, Len(all))

(* _send_tool_progress_events for one event of a progress message.          *)
SendToolProgress(m) ==
    LET seen == ToolProgressSeen(m)
        r == Fresh("tool", <<>>, FALSE, m)
    IN  /\ hrSeen' = seen
        /\ Start("turn", [r EXCEPT !.pc = IF Last(seen).seen THEN "ok" ELSE "tool"])
        /\ UNCHANGED hrRefs

\* _send_media_upload of an allowed path that is no reply: one request.
SendMediaUpload ==
    /\ Start("turn", [Fresh("media", <<>>, TRUE, 0) EXCEPT !.pc = "media"])
    /\ UNCHANGED <<hrRefs, hrSeen>>

\* disconnect, once the calls have ended: every active or draft stream is
\* cancelled, and all are forgotten whether or not the requests arrive.
CancelAllStreams ==
    LET streams == (hrActive \cup {hrDraft[d] : d \in HrDrafts}) \ {NoPreview} IN
    /\ \A t \in HrTasks : hrTask[t] = IdleTask
    /\ Len(hrCalls) < HrMaxCalls
    /\ hrCalls' = Append(hrCalls, Entry("disconnect", FALSE, 0, "ok"))
    /\ \E bad \in SUBSET streams :
         /\ IF bad = {} THEN UNCHANGED hrFaults ELSE HrFault
         /\ hrStreams' = [s \in DOMAIN hrStreams |->
                [hrStreams[s] EXCEPT !.conn = IF s \in streams \ bad THEN "over" ELSE @,
                                     !.leaked = @ \/ s \in bad]]
    /\ hrActive' = {} /\ hrDraft' = [d \in HrDrafts |-> NoPreview] /\ hrLast' = NoPreview
    /\ hrSeen' = <<>> /\ UNCHANGED hrTask

-----------------------------------------------------------------------------
(* Requests                                                                *)

\* How a request ends: answered; not delivered; delivered with its answer
\* lost (a timeout); refused by the connector (not retryable).
Outcomes == {"ok", "undelivered", "unanswered", "refused"}
Ending(o) == IF o = "ok" THEN UNCHANGED hrFaults ELSE HrFault
Delivered(o) == o \in {"ok", "unanswered"}

(* _cancel_stream: whatever the request does, the stream is forgotten.      *)
CancelStream(t, s, o) ==
    LET r == hrTask[t]
        rest == r.todo \ {s}
        after == IF rest # {} THEN [r EXCEPT !.todo = rest]
                 ELSE IF r.then = "others" THEN Cancelling(r, HeldStreams \ {NoPreview, s}, "begin")
                 ELSE [r EXCEPT !.todo = {}, !.pc = r.then]
    IN  /\ r.pc = "cancel" /\ s \in r.todo /\ o \in {"ok", "undelivered"}
        /\ hrStreams[s].finalized \/ hrStreams[s].conn # "open" => o = "ok"
        /\ Ending(o) /\ Forget(s)
        /\ hrStreams' = [hrStreams EXCEPT
             ![s].conn = IF o = "ok" /\ @ = "open" THEN "over" ELSE @,
             ![s].leaked = @ \/ o = "undelivered"]
        /\ Run(t, IF after.pc = "send" THEN Sending(after) ELSE after, hrCalls)
        /\ UNCHANGED hrSeen

(* MarmotLiveStream.begin.  A draft's stream is registered before its first *)
(* append, a preview's after it.                                            *)
BeginLiveStream(t, o) ==
    LET r == hrTask[t]
        s == Len(hrStreams) + 1
    IN  /\ r.pc = "begin" /\ Ending(o)
        /\ hrStreams' = IF Delivered(o)
                        THEN Append(hrStreams,
                               [conn |-> "open", got |-> <<>>, text |-> <<>>, log |-> <<>>,
                                finalized |-> FALSE, leaked |-> o = "unanswered"])
                        ELSE hrStreams
        /\ IF o # "ok" THEN Run(t, [r EXCEPT !.pc = "failed"], hrCalls) /\ UNCHANGED hrRefs
           ELSE /\ Run(t, AppendReplacement([r EXCEPT !.s = s], <<>>), hrCalls)
                /\ IF r.kind = "draft"
                   THEN hrDraft' = [hrDraft EXCEPT ![r.draft] = s] /\ hrLast' = s
                        /\ UNCHANGED hrActive
                   ELSE UNCHANGED hrRefs
        /\ UNCHANGED hrSeen

\* The connector's transcript and, after its answer, the local one.
Appended(st, r, o) ==
    [st EXCEPT !.got = IF Delivered(o) THEN Append(@, r.suffix) ELSE @,
               !.log = IF o = "ok" THEN Append(@, r.suffix) ELSE @,
               !.text = IF o = "ok" THEN r.text ELSE @,
               !.leaked = @ \/ (r.kind = "preview" /\ o # "ok")]

(* stream_append: a session that is gone refuses it.  A failed append of a  *)
(* final leads to the durable send.                                         *)
StreamAppend(t, o) ==
    LET r == hrTask[t] IN
    /\ r.pc = "append" /\ (o # "ok" \/ hrStreams[r.s].conn = "open")
    /\ IF hrStreams[r.s].conn = "open"
       THEN Ending(o) /\ hrStreams' = [hrStreams EXCEPT ![r.s] = Appended(@, r, o)]
       ELSE o = "refused" /\ UNCHANGED <<hrFaults, hrStreams>>
    /\ Run(t, IF o = "ok" THEN [r EXCEPT !.pc = IF r.fin THEN "finalize" ELSE "ok"]
              ELSE IF r.fin THEN Cancelling(r, {r.s}, "send")
              ELSE [r EXCEPT !.pc = "failed"], hrCalls)
    /\ IF r.kind = "preview" /\ o = "ok"
       THEN hrActive' = hrActive \cup {r.s} /\ hrLast' = r.s /\ UNCHANGED hrDraft
       ELSE UNCHANGED hrRefs
    /\ UNCHANGED hrSeen

\* A request that posts, with or without a key: a key posts once.  lost holds
\* TRUE or FALSE once an answer with or without a key was lost.
Posted(n, o, key) ==
    [hrCalls EXCEPT
       ![n].posts = IF Delivered(o) /\ ~(key /\ hrCalls[n].keyed) THEN @ + 1 ELSE @,
       ![n].keyed = @ \/ (key /\ Delivered(o)),
       ![n].lost = IF o = "unanswered" THEN @ \cup {key} ELSE @,
       ![n].sends = IF ~key THEN @ ELSE IF o = "refused" THEN HrRetries + 1 ELSE @ + 1]

\* The connector posts the final if text and transcript are what it received.
Matches(st, r) == st.conn = "open" /\ FlattenSeq(st.got) = r.text /\ st.got = st.log

\* Seeded bug: a finalize that fails is the end of the reply.
FinalizeGivesUp(r) == [r EXCEPT !.pc = "failed"]

\* A final whose finalize fails is sent without its preview.
FinalizeFails(r) == Cancelling(r, {r.s}, "send")

(* _finalize_active_stream: the session ends whatever the outcome.          *)
FinalizeActiveStream(t, o) ==
    LET r == hrTask[t]
        st == hrStreams[r.s]
    IN  /\ r.pc = "finalize"
        /\ IF Matches(st, r) THEN Ending(o) ELSE o = "refused" /\ UNCHANGED hrFaults
        /\ hrStreams' = [hrStreams EXCEPT
             ![r.s].conn = IF Delivered(o) \/ o = "refused" THEN "over" ELSE @,
             ![r.s].finalized = @ \/ o = "ok"]
        /\ Run(t, IF o = "ok" THEN [r EXCEPT !.pc = "ok"] ELSE FinalizeFails(r),
               Posted(r.n, o, FALSE))
        /\ IF o = "ok" THEN Forget(r.s) ELSE UNCHANGED hrRefs
        /\ UNCHANGED hrSeen

\* Seeded bug: every attempt has a key of its own.
SendFinalFreshKey(n, o) ==
    [Posted(n, o, TRUE) EXCEPT ![n].posts = hrCalls[n].posts + IF Delivered(o) THEN 1 ELSE 0]

\* send_final of a call: the connector posts a key once.
SendFinalRequest(n, o) == Posted(n, o, TRUE)

(* _send_final_direct: every attempt carries the same key; a refusal is     *)
(* final, anything else is tried again.                                     *)
SendFinalDirect(t, o) ==
    LET r == hrTask[t] IN
    /\ r.pc = "send" /\ Ending(o)
    /\ Run(t, IF o = "ok" THEN [r EXCEPT !.pc = "ok"]
              ELSE IF o = "refused" \/ r.try = HrRetries THEN [r EXCEPT !.pc = "failed"]
              ELSE [r EXCEPT !.try = @ + 1], SendFinalRequest(r.n, o))
    /\ UNCHANGED <<hrStreams, hrRefs, hrSeen>>

\* send_media and send_agent_operation_event: one request without a key.  An
\* event counts as seen once it was answered.
SendOnce(t, o) ==
    LET r == hrTask[t] IN
    /\ r.pc \in {"media", "tool"} /\ Ending(o)
    /\ Run(t, [r EXCEPT !.pc = IF o = "ok" THEN "ok" ELSE "failed"], Posted(r.n, o, FALSE))
    /\ hrSeen' = [i \in DOMAIN hrSeen |->
                    IF r.pc = "tool" /\ o = "ok" /\ hrSeen[i].m = r.draft
                    THEN [hrSeen[i] EXCEPT !.seen = TRUE] ELSE hrSeen[i]]
    /\ UNCHANGED <<hrStreams, hrRefs>>

HrNext ==
    \/ \E text \in HrTexts :
         \/ SendPreview(text) \/ Send(text)
         \/ \E d \in HrDrafts : SendDraft(d, text)
         \/ \E s \in DOMAIN hrStreams, fin \in BOOLEAN : EditMessage(s, text, fin)
    \/ \E d \in HrDrafts : ClearDraft(d)
    \/ \E m \in ToolMessages : SendToolProgress(m)
    \/ SendMediaUpload \/ CancelAllStreams
    \/ \E t \in HrTasks :
         \E o \in Outcomes :
              \/ BeginLiveStream(t, o) \/ StreamAppend(t, o) \/ FinalizeActiveStream(t, o)
              \/ SendFinalDirect(t, o) \/ SendOnce(t, o)
              \/ \E s \in DOMAIN hrStreams : CancelStream(t, s, o)

-----------------------------------------------------------------------------
HrTypeOK ==
    /\ hrActive \subseteq DOMAIN hrStreams /\ hrLast \in 0..Len(hrStreams)
    /\ hrDraft \in [HrDrafts -> 0..Len(hrStreams)]
    /\ \A s \in DOMAIN hrStreams : hrStreams[s].conn \in {"open", "over"}
    /\ \A n \in DOMAIN hrCalls : hrCalls[n].res \in {"running", "ok", "failed"}
    /\ Len(hrSeen) <= HrToolCap /\ Len(hrCalls) <= HrMaxCalls
    /\ hrFaults \in 0..HrMaxFaults

\* However previews, finals and lost answers interleave: a reply reported as
\* sent is in the group; one reported as failed is not, unless an answer of
\* its was lost; and it is there once, unless the answer to its finalize was
\* lost and the durable send repeated it.  It fails only once the durable
\* send was refused or out of attempts, whatever became of its preview.
\* Previews post nothing.
RepliesPosted ==
    \A n \in DOMAIN hrCalls :
        /\ hrCalls[n].res = "ok" /\ hrCalls[n].fin => hrCalls[n].posts >= 1
        /\ hrCalls[n].res = "failed" /\ hrCalls[n].lost = {} => hrCalls[n].posts = 0
        /\ hrCalls[n].posts <= IF FALSE \in hrCalls[n].lost THEN 2 ELSE 1
        /\ hrCalls[n].res = "failed" /\ hrCalls[n].kind \in {"final", "edit"} /\ hrCalls[n].fin
             => hrCalls[n].sends > HrRetries
        /\ hrCalls[n].kind \in {"preview", "draft"} => hrCalls[n].posts = 0

\* An event of a tool progress message is posted once, unless its answer was
\* lost or the adapter forgot the message in between.
ToolEventsOnce ==
    \A i, j \in DOMAIN hrCalls :
        /\ i < j /\ hrCalls[i].kind = "tool" /\ hrCalls[j].kind = "tool"
        /\ hrCalls[i].m = hrCalls[j].m /\ hrCalls[i].posts > 0 /\ hrCalls[j].posts > 0
        => \/ hrCalls[i].lost # {}
           \/ \E k \in i..j : hrCalls[k].kind = "disconnect"
           \/ Cardinality({hrCalls[k].m : k \in {l \in i..j : hrCalls[l].kind = "tool"}}) > HrToolCap

\* Once no call runs, at most one preview session of the chat is open at the
\* connector, and the adapter knows it, so that the next preview or final
\* will end it; except for sessions about which a request failed.
OnePreviewOpen ==
    LET open == {s \in DOMAIN hrStreams : hrStreams[s].conn = "open" /\ ~hrStreams[s].leaked}
    IN  (\A t \in HrTasks : hrTask[t] = IdleTask)
            => open \subseteq HeldStreams /\ Cardinality(open) <= 1

=============================================================================
