---------------------------- MODULE Subscriptions ----------------------------
(***************************************************************************)
(* Runtime subscriptions (crates/marmot-app/src/runtime/subscriptions.rs): *)
(* a snapshot of the store and a task that forwards broadcast events to a  *)
(* bounded channel.  A receiver that falls behind the broadcast ring loses *)
(* the oldest events and is told so.  One subscription of one kind is      *)
(* followed: raw messages, the window of a timeline, or the chat list.     *)
(* Messages are numbers in display (and replay) order; they may be stored  *)
(* out of that order, and their events follow later.                       *)
(***************************************************************************)
EXTENDS Integers, Sequences, FiniteSets, FiniteSetsExt

CONSTANTS SuMessages, SuGroups, SuVersions,
          SuRing,       \* broadcast capacity left to this receiver
          SuBuffer,     \* APP_RUNTIME_SUBSCRIPTION_BUFFER
          SuLimit,      \* the caller's initial replay limit
          SuWindow,     \* TIMELINE_WINDOW_LIMIT
          SuSeenLimit,  \* MESSAGE_SUBSCRIPTION_SEEN_ID_LIMIT
          SuMaxChats    \* bound on chat-list changes

ASSUME SuAssumption ==
    /\ SuMessages \subseteq Nat \ {0} /\ IsFiniteSet(SuMessages)
    /\ IsFiniteSet(SuGroups) /\ SuVersions \subseteq Nat
    /\ SuRing \in Nat /\ SuBuffer \in Nat /\ SuSeenLimit \in Nat
    /\ SuLimit \in Nat \ {0}

VARIABLES suKind,     \* "messages", "timeline" or "chats"
          suAt,       \* "new", "listening" (receiver exists), "live"
          suStore,    \* stored messages
          suUnsaid,   \* of these, the ones whose event is still to come
          suChat,     \* chat-list rows: group -> version, 0 for no visible row
          suEdits,    \* changes of the chat list so far
          suRing, suLag,      \* this receiver of the broadcast channel
          suPending, suOut,   \* updates before the task; the channel
          suSeen,     \* ids in MessageSubscriptionSeenIds, oldest first
          suMark,     \* recovery_watermark: {} for None
          suPrints,   \* row_fingerprints
          suGot, suList,      \* what the caller has: deliveries; chat list
          suWin,      \* [rows, before, after, gen] of a timeline
          suPage,     \* pagination between its read and its merge
          suRefresh,  \* refresh between its read and its installation
          suFailed    \* a read of the task failed

suWorld == <<suStore, suUnsaid, suChat, suEdits>>
suTask == <<suPending, suOut, suSeen, suMark, suPrints, suGot, suList>>
suView == <<suWin, suPage, suRefresh>>
suVars == <<suKind, suAt, suWorld, suRing, suLag, suTask, suView, suFailed>>

Nothing == [rows |-> {}, before |-> FALSE, after |-> FALSE, gen |-> 0]
Idle == [dir |-> "none", page |-> Nothing]

(* Newest or oldest n members of a set of messages.                        *)
NewestOf(n, rows) == {r \in rows : Cardinality({x \in rows : x > r}) < n}
OldestOf(n, rows) == {r \in rows : Cardinality({x \in rows : x < r}) < n}

(* The orders of a finite set, and its ascending one.                      *)
Orders(S) == {q \in [1 .. Cardinality(S) -> S] : Range(q) = S}
Ascending(S) == {q \in Orders(S) : \A i, j \in DOMAIN q : i < j => q[i] < q[j]}

SuInit ==
    /\ suKind \in {"messages", "timeline", "chats"}
    /\ suAt = "new" /\ suStore = {} /\ suUnsaid = {} /\ suEdits = 0
    /\ suChat = [g \in SuGroups |-> 0]
    /\ suRing = <<>> /\ suLag = FALSE /\ suPending = <<>> /\ suOut = <<>>
    /\ suSeen = <<>> /\ suMark = {} /\ suPrints = suChat
    /\ suGot = [m \in SuMessages |-> 0] /\ suList = suChat
    /\ suWin = Nothing /\ suPage = Idle /\ suRefresh = Idle
    /\ suFailed = FALSE

(* broadcast::Sender::send, as this receiver sees it.                      *)
Broadcast(event) ==
    IF suAt = "new" THEN UNCHANGED <<suRing, suLag>>
    ELSE LET ring == Append(suRing, event)
             over == Len(ring) > SuRing
         IN  /\ suRing' = IF over THEN Tail(ring) ELSE ring
             /\ suLag' = (suLag \/ over)

(* A worker stores a message (external to this module) ...                 *)
MessageStored(m) ==
    /\ suKind # "chats" /\ m \notin suStore
    /\ suStore' = suStore \cup {m} /\ suUnsaid' = suUnsaid \cup {m}
    /\ UNCHANGED <<suKind, suAt, suChat, suEdits, suRing, suLag, suTask, suView,
                   suFailed>>

(* ... and broadcasts it when the sync that stored it is over.             *)
MessageAnnounced(m) ==
    /\ suKind # "chats" /\ m \in suUnsaid
    /\ suUnsaid' = suUnsaid \ {m} /\ Broadcast(m)
    /\ UNCHANGED <<suKind, suAt, suStore, suChat, suEdits, suTask, suView,
                   suFailed>>

(* A chat-list row changes.  The event carries the row (ProjectionUpdated) *)
(* or only names the group (chat_list_event_route).                        *)
ChatChanged(g, v) ==
    /\ suKind = "chats" /\ v # suChat[g]
    /\ suEdits < SuMaxChats /\ suEdits' = suEdits + 1
    /\ suChat' = [suChat EXCEPT ![g] = v]
    /\ \E carried \in {v, -1} : Broadcast(<<g, carried>>)
    /\ UNCHANGED <<suKind, suAt, suStore, suUnsaid, suTask, suView, suFailed>>

(* self.events.subscribe(), before the snapshot is read.                   *)
SubscribeEvents ==
    /\ suAt = "new" /\ suAt' = "listening"
    /\ UNCHANGED <<suKind, suWorld, suRing, suLag, suTask, suView, suFailed>>

(* timeline_messages_with_query: a page with its flags.                    *)
SuPageOf(dir, cursor, limit) ==
    LET rows == {r \in suStore : CASE dir = "older" -> r < cursor
                                   [] dir = "upto" -> r <= cursor
                                   [] dir = "newer" -> r > cursor
                                   [] OTHER -> TRUE}
        more == Cardinality(rows) > limit
    IN  [rows |-> IF dir = "newer" THEN OldestOf(limit, rows)
                  ELSE NewestOf(limit, rows),
         before |-> dir = "newer" \/ more,
         after |-> IF dir = "newer" THEN more ELSE dir # "head",
         gen |-> 0]

(* The snapshot, what is remembered of it, and the channel to the caller.  *)
SubscribeSnapshot ==
    /\ suAt = "listening" /\ suAt' = "live"
    /\ CASE suKind = "messages" ->
              LET rows == NewestOf(SuLimit, suStore)
              IN  /\ suSeen' \in Ascending(NewestOf(SuSeenLimit, rows))
                  /\ suMark' = {r \in rows : \A x \in rows : x <= r}
                  /\ suGot' = [m \in SuMessages |-> IF m \in rows THEN 1 ELSE 0]
                  /\ UNCHANGED <<suPrints, suList, suWin>>
         [] suKind = "chats" ->
              /\ suPrints' = suChat /\ suList' = suChat
              /\ UNCHANGED <<suSeen, suMark, suGot, suWin>>
         [] OTHER ->
              /\ suWin' = SuPageOf("head", 0, SuLimit)
              /\ UNCHANGED <<suSeen, suMark, suPrints, suGot, suList>>
    /\ UNCHANGED <<suKind, suWorld, suRing, suLag, suPending, suOut, suPage,
                   suRefresh, suFailed>>
-----------------------------------------------------------------------------
(* The forwarding task.                                                    *)

TaskReady == suAt = "live" /\ suPending = <<>>

(* What the task looks at for an event: a row the event does not carry is  *)
(* read from the store.                                                    *)
UpdateFor(event) ==
    IF suKind = "chats" /\ event[2] = -1 THEN <<event[1], suChat[event[1]]>>
    ELSE event

TaskTakesEvent ==
    /\ TaskReady /\ ~suLag /\ suRing # <<>> /\ suRing' = Tail(suRing)
    /\ suPending' = <<UpdateFor(Head(suRing))>>
    /\ UNCHANGED <<suKind, suAt, suWorld, suLag, suOut, suSeen, suMark, suPrints,
                   suGot, suList, suView, suFailed>>

(* refresh_chat_list_row fails: the event is passed over.                  *)
LookupFails ==
    /\ TaskReady /\ ~suLag /\ suRing # <<>> /\ suKind = "chats"
    /\ Head(suRing)[2] = -1
    /\ suRing' = Tail(suRing) /\ suFailed' = TRUE
    /\ UNCHANGED <<suKind, suAt, suWorld, suLag, suTask, suView>>

(* Mutant: the recovery read keeps the caller's limit.                     *)
LimitedRecoveryRows == NewestOf(SuLimit, suStore)

(* messages_recovery_query: the whole group.                               *)
RecoveryRows == suStore

(* Mutant: lag is passed over, as subscribe_chats does.                    *)
ChatsAfterLagIgnored == suPrints

(* The rows of the chat list as re-read after a lag.                       *)
ChatsAfterLag == suChat

(* recovery_row_is_pre_subscription, negated.                              *)
IsNewer(m) == \A w \in suMark : m > w

(* reconcile_chat_list_snapshot: rows that left the list come first.       *)
ReconcileOrders(rows) ==
    {q \in Orders(SuGroups) : \A i, j \in DOMAIN q :
        i < j /\ rows[q[j]] = 0 => rows[q[i]] = 0}

(* RecvError::Lagged: messages newer than the watermark are looked at      *)
(* again; a chat list is compared with a fresh snapshot; a timeline asks   *)
(* its consumer to refresh.                                                *)
TaskRecovers ==
    /\ TaskReady /\ suLag /\ suLag' = FALSE
    /\ CASE suKind = "messages" ->
              suPending' \in Ascending({m \in RecoveryRows : IsNewer(m)})
         [] suKind = "chats" ->
              \E q \in ReconcileOrders(ChatsAfterLag) :
                suPending' = [i \in DOMAIN q |-> <<q[i], ChatsAfterLag[q[i]]>>]
         [] OTHER -> suPending' = <<0>>
    /\ UNCHANGED <<suKind, suAt, suWorld, suRing, suOut, suSeen, suMark, suPrints,
                   suGot, suList, suView, suFailed>>

(* The store read fails: the task waits for the next event.                *)
RecoveryFails ==
    /\ TaskReady /\ suLag /\ suKind # "timeline" /\ suLag' = FALSE
    /\ suFailed' = TRUE
    /\ UNCHANGED <<suKind, suAt, suWorld, suRing, suTask, suView>>

(* MessageSubscriptionSeenIds::insert: a full memory forgets its oldest.   *)
Insert(seen, m) ==
    LET order == Append(seen, m)
    IN  IF Len(order) > SuSeenLimit THEN Tail(order) ELSE order

(* The id was seen, or the row's fingerprint is the one sent last.         *)
AlreadySent(update) ==
    \/ suKind = "messages" /\ update \in Range(suSeen)
    \/ suKind = "chats" /\ suPrints[update[1]] = update[2]

TaskSkips ==
    /\ suPending # <<>> /\ AlreadySent(Head(suPending))
    /\ suPending' = Tail(suPending)
    /\ UNCHANGED <<suKind, suAt, suWorld, suRing, suLag, suOut, suSeen, suMark,
                   suPrints, suGot, suList, suView, suFailed>>

(* seen_message_ids.insert, send_chat_list_row_update and                  *)
(* send_chat_list_remove_update, then send into the bounded channel.       *)
TaskSends ==
    /\ suPending # <<>> /\ ~AlreadySent(Head(suPending))
    /\ Len(suOut) < SuBuffer
    /\ suOut' = Append(suOut, Head(suPending)) /\ suPending' = Tail(suPending)
    /\ suSeen' = IF suKind = "messages" THEN Insert(suSeen, Head(suPending))
                 ELSE suSeen
    /\ suPrints' = IF suKind = "chats"
                   THEN [suPrints EXCEPT ![Head(suPending)[1]] = Head(suPending)[2]]
                   ELSE suPrints
    /\ UNCHANGED <<suKind, suAt, suWorld, suRing, suLag, suMark, suGot, suList,
                   suView, suFailed>>
-----------------------------------------------------------------------------
(* The caller.                                                             *)

(* insert_live_message and apply_projection_to_window.                     *)
ApplyProjection(w, m) ==
    LET add == m \in w.rows \/ ~w.after \/ (w.rows # {} /\ m <= Max(w.rows))
        rows == IF add THEN w.rows \cup {m} ELSE w.rows
        over == Cardinality(rows) > SuWindow
    IN  [w EXCEPT !.rows = NewestOf(SuWindow, rows), !.before = @ \/ over,
                  !.gen = @ + 1]

(* recv: a delta is applied; a refresh first reads the store.              *)
Recv ==
    /\ suOut # <<>> /\ suRefresh = Idle /\ suOut' = Tail(suOut)
    /\ CASE suKind = "messages" ->
              /\ suGot' = [suGot EXCEPT ![Head(suOut)] = @ + 1]
              /\ UNCHANGED <<suList, suView>>
         [] suKind = "chats" ->
              /\ suList' = [suList EXCEPT ![Head(suOut)[1]] = Head(suOut)[2]]
              /\ UNCHANGED <<suGot, suView>>
         [] suKind = "timeline" /\ Head(suOut) # 0 ->
              /\ suWin' = ApplyProjection(suWin, Head(suOut))
              /\ UNCHANGED <<suGot, suList, suPage, suRefresh>>
         [] OTHER ->
              /\ suRefresh' =
                   [dir |-> "refresh",
                    page |-> [SuPageOf(IF suWin.after /\ suWin.rows # {} THEN "upto"
                                       ELSE "head",
                                       IF suWin.rows = {} THEN 0 ELSE Max(suWin.rows),
                                       Max({1, Cardinality(suWin.rows)}))
                              EXCEPT !.gen = suWin.gen]]
              /\ UNCHANGED <<suGot, suList, suWin, suPage>>
    /\ UNCHANGED <<suKind, suAt, suWorld, suRing, suLag, suPending, suSeen, suMark,
                   suPrints, suFailed>>

(* Mutant: the refreshed page always replaces the window.                  *)
InstallAnyway(win, page) == [page EXCEPT !.gen = win.gen + 1]

(* install_refresh: only over the window the refresh was computed for.     *)
Installed(win, page) ==
    IF win.gen = page.gen THEN [page EXCEPT !.gen = win.gen + 1] ELSE win

InstallRefresh ==
    /\ suRefresh # Idle /\ suRefresh' = Idle
    /\ \E ok \in BOOLEAN :   \* a failed read keeps the window
         /\ suWin' = IF ok THEN Installed(suWin, suRefresh.page) ELSE suWin
         /\ suFailed' = (suFailed \/ ~ok)
    /\ UNCHANGED <<suKind, suAt, suWorld, suRing, suLag, suTask,
                   suPage>>

(* paginate_backwards / paginate_forwards: the read outside the lock ...   *)
PaginateReads(dir) ==
    /\ suKind = "timeline" /\ suAt = "live" /\ suPage = Idle
    /\ suWin.gen < Cardinality(SuMessages)
    /\ suWin.rows # {}
    /\ IF dir = "older" THEN suWin.before ELSE suWin.after
    /\ suPage' = [dir |-> dir,
                  page |-> SuPageOf(dir, IF dir = "older" THEN Min(suWin.rows)
                                         ELSE Max(suWin.rows), 1)]
    /\ UNCHANGED <<suKind, suAt, suWorld, suRing, suLag, suTask, suWin,
                   suRefresh, suFailed>>

(* ... and merge_timeline_window, trimmed at the opposite edge.            *)
Merged(win, dir, page) ==
    LET rows == win.rows \cup page.rows
        over == Cardinality(rows) > SuWindow
    IN  IF dir = "older"
        THEN [rows |-> OldestOf(SuWindow, rows), before |-> page.before,
              after |-> win.after \/ over, gen |-> win.gen + 1]
        ELSE [rows |-> NewestOf(SuWindow, rows), before |-> win.before \/ over,
              after |-> page.after, gen |-> win.gen + 1]

PaginateMerges ==
    /\ suPage # Idle /\ suPage' = Idle
    /\ suWin' = Merged(suWin, suPage.dir, suPage.page)
    /\ UNCHANGED <<suKind, suAt, suWorld, suRing, suLag, suTask,
                   suRefresh, suFailed>>

SuNext ==
    \/ \E m \in SuMessages : MessageStored(m) \/ MessageAnnounced(m)
    \/ \E g \in SuGroups, v \in SuVersions : ChatChanged(g, v)
    \/ SubscribeEvents \/ SubscribeSnapshot
    \/ TaskTakesEvent \/ LookupFails \/ TaskRecovers \/ RecoveryFails
    \/ TaskSkips \/ TaskSends
    \/ Recv \/ InstallRefresh
    \/ \E dir \in {"older", "newer"} : PaginateReads(dir)
    \/ PaginateMerges

SuSpec == SuInit /\ [][SuNext]_suVars

SuQuiet == /\ suAt = "live" /\ suRing = <<>> /\ ~suLag /\ suPending = <<>>
           /\ suOut = <<>> /\ suRefresh = Idle /\ suPage = Idle

SuTypeOK ==
    /\ suAt \in {"new", "listening", "live"} /\ Len(suRing) <= SuRing
    /\ Len(suOut) <= SuBuffer /\ Len(suSeen) <= SuSeenLimit
    /\ Cardinality(suWin.rows) <= SuWindow

(* Falling behind the broadcast ring loses nothing as long as the reads    *)
(* succeed: once everything is forwarded, the caller has every announced   *)
(* message newer than its snapshot, exactly once while the memory of seen  *)
(* ids holds them all, and its chat list is the stored one                 *)
(* (RecvError::Lagged, recovery watermark, row fingerprints).              *)
LagRecovers ==
    (SuQuiet /\ ~suFailed) =>
        /\ suKind = "messages" => \A m \in suStore \ suUnsaid :
              IsNewer(m) => /\ suGot[m] >= 1
                            /\ Cardinality(SuMessages) <= SuSeenLimit => suGot[m] = 1
        /\ suKind = "chats" => suList = suChat

(* A refresh never takes back rows that a pagination or a live update      *)
(* brought into the window after the refresh was read (generation).        *)
RefreshKeepsNewerWindow ==
    [][suRefresh # Idle /\ suRefresh' = Idle /\ suWin.gen # suRefresh.page.gen
         => suWin.rows \subseteq suWin'.rows]_suVars
=============================================================================
