----------------------------- MODULE TerminalUi -----------------------------
(***************************************************************************)
(* The terminal interface (crates/cli/src/tui), in two parts that share no *)
(* state: the panes of accounts, chats and messages, and the stream        *)
(* composer with its live previews.                                        *)
(***************************************************************************)
EXTENDS Integers, Sequences, SequencesExt, FiniteSets, FiniteSetsExt

(***************************************************************************)
(* The terminal interface (cli tui/): accounts, the chats of one account,  *)
(* the messages of one chat, unread counts, and the child processes that   *)
(* stream live updates.  Every key runs its commands one after another in  *)
(* the interface's thread, and any of them may fail half way; the children *)
(* deliver to queues that a tick drains.  Which pane has the focus only    *)
(* decides which key means which operation, and is left out.               *)
(***************************************************************************)

CONSTANTS
    TuFirst,       \* the accounts of the first listing, in order
    TuLater,       \* accounts that may be created or logged in
    TuLocal,       \* those of them that can sign
    TuMember,      \* account -> the groups it may be a member of
    TuGroups,      \* groups
    TuIndex,       \* the order listings give the groups in
    TuNewGroup,    \* a group that is created during the session
    TuIds,         \* messages, in the order of the time they carry
    TuStored,      \* group -> messages the database holds at the start
    TuListed,      \* messages a listing returns
    TuScrollback,  \* TUI_MESSAGE_SCROLLBACK_LIMIT
    TuFaults,      \* bound: commands that fail
    TuInputs       \* bound: commands of the person at the keyboard

VARIABLES
    tuApp,     \* TuiApp: accounts, account, chats, chat, pane, rows, unread, archived, daemon, subs
    tuWorld,   \* what the daemon and the database hold
    tuLost,    \* [account, id]: messages no child of the account delivered
    tuStray,   \* the highlighted account was used though another one's chats are listed
    tuOwner,   \* the account whose chats are listed
    tuLeft     \* inputs and faults still to come
tuVars == <<tuApp, tuWorld, tuLost, tuStray, tuOwner, tuLeft>>

NoAccount == "none"
NoGroup == "none"
NoSub == [account |-> NoAccount, about |-> NoGroup, ready |-> FALSE, queue |-> <<>>]
\* A chat child sends the chats it finds on connecting, so only the delay of a message child shows.
NewSub(kind, a, about) == [account |-> a, about |-> about, ready |-> kind # "message", queue |-> <<>>]
Ended == [kind |-> "ended", group |-> NoGroup, id |-> 0, archived |-> FALSE]
ChatEvent(g, archived) == [kind |-> "chat", group |-> g, id |-> 0, archived |-> archived]
MessageEvent(g, id) == [kind |-> "message", group |-> g, id |-> id, archived |-> FALSE]
NoPane == [account |-> NoAccount, group |-> NoGroup]
NoUnread == [g \in TuGroups |-> 0]
NoSubs == [chat |-> NoSub, message |-> NoSub, state |-> NoSub]

CursorAccount(t) == IF t.account \in DOMAIN t.accounts THEN t.accounts[t.account] ELSE NoAccount
CursorChat(t) == IF t.chat \in DOMAIN t.chats THEN t.chats[t.chat] ELSE NoGroup
IndexIn(list, x) == IF x \in ToSet(list) THEN SelectInSeq(list, LAMBDA y : y = x) ELSE 1
Clamp(i, list) == IF Len(list) = 0 THEN 1 ELSE Max({1, Min({i, Len(list)})})
VisibleChats(w, a, archived) ==
    SetToSortSeq({ g \in w.groups[a] : archived \/ g \notin w.archived }, LAMBDA g, h : TuIndex[g] < TuIndex[h])
NewestRows(rows, limit) == { r \in rows : Cardinality({ s \in rows : s.id > r.id }) < limit }
Listed(w, a, g) == NewestRows({ [id |-> i, group |-> g, account |-> a] : i \in w.messages[g] }, TuListed)

-----------------------------------------------------------------------------
\* The children: one per kind, started when the daemon runs and the right one is not there yet.
Ensured(t, kind, a, about, bad) ==
    LET held == t.subs[kind]
    IN  CASE ~t.daemon -> [t EXCEPT !.subs[kind] = NoSub]
          [] t.daemon /\ held.account = a /\ held.about = about -> t
          [] OTHER -> [t EXCEPT !.subs[kind] = IF "spawn" \in bad THEN NoSub ELSE NewSub(kind, a, about)]

\* Seeded bug: a child of another account is taken for the right one.
EnsuredForAny(t, a, bad) ==
    IF t.daemon /\ t.subs.message # NoSub THEN t ELSE Ensured(t, "message", a, NoGroup, bad)

EnsuredMessage(t, a, bad) == Ensured(t, "message", a, NoGroup, bad)
EnsuredChat(t, a, bad) == Ensured(t, "chat", a, IF t.archived THEN "archived" ELSE NoGroup, bad)
EnsuredState(t, a, g, bad) == Ensured(t, "state", a, g, bad)

\* ensure_selected_*: after a change of the daemon or of the chats.
EnsuredSelected(t, bad, kinds) ==
    LET a == CursorAccount(t)
        g == CursorChat(t)
        Without(u, kind) == [u EXCEPT !.subs[kind] = NoSub]
        usable == a \in TuLocal
        withChat(u) == IF "chat" \notin kinds THEN u
                       ELSE IF usable THEN EnsuredChat(u, a, bad) ELSE Without(u, "chat")
        withMessage(u) == IF usable THEN EnsuredMessage(u, a, bad) ELSE Without(u, "message")
        withState(u) == IF usable /\ g # NoGroup THEN EnsuredState(u, a, g, bad) ELSE Without(u, "state")
    IN  withState(withMessage(withChat(t)))

\* The newest messages of the highlighted chat, as the highlighted account has them.
Loadable(t, w, bad) ==
    /\ CursorAccount(t) \in TuLocal /\ CursorChat(t) # NoGroup
    /\ CursorChat(t) \in w.groups[CursorAccount(t)] /\ "messages" \notin bad

\* Seeded bug: opening a chat leaves its unread count.
LoadedUnread(t, w) ==
    LET a == CursorAccount(t)
        g == CursorChat(t)
    IN  [t EXCEPT !.rows = Listed(w, a, g), !.pane = [account |-> a, group |-> g]]

Loaded(t, w) ==
    LET a == CursorAccount(t)
        g == CursorChat(t)
    IN  [t EXCEPT !.rows = Listed(w, a, g), !.pane = [account |-> a, group |-> g], !.unread[g] = 0]

RefreshMessages(t, w, bad) ==
    LET a == CursorAccount(t)
        g == CursorChat(t)
        u == EnsuredMessage(Loaded(t, w), a, bad)
    IN  IF ~Loadable(t, w, bad) THEN t
        ELSE IF u.subs.message = NoSub /\ u.daemon THEN u
        ELSE EnsuredState(u, a, g, bad)

\* Seeded bug: a public account clears what is shown and keeps where to send.
ClearedShown(t) == [t EXCEPT !.chats = <<>>, !.rows = {}, !.subs = NoSubs]

Cleared(t) == [t EXCEPT !.chats = <<>>, !.rows = {}, !.pane = NoPane, !.subs = NoSubs]

\* The chats of the highlighted account, and the messages of the one that stays highlighted.
ListedChats(t, w, a) ==
    LET chats == VisibleChats(w, a, t.archived)
    IN  [t EXCEPT !.chats = chats, !.chat = IndexIn(chats, CursorChat(t)),
                  !.unread = [g \in TuGroups |-> IF g \in ToSet(chats) THEN t.unread[g] ELSE 0]]

RefreshChats(t, w, bad) ==
    LET a == CursorAccount(t)
        u == EnsuredChat(ListedChats(t, w, a), a, bad)
    IN  CASE a \notin TuLocal -> Cleared(t)
          [] a \in TuLocal /\ "chats" \in bad -> t
          [] a \in TuLocal /\ "chats" \notin bad /\ u.chats = <<>> ->
                EnsuredMessage([u EXCEPT !.rows = {}, !.pane = [account |-> a, group |-> NoGroup],
                                         !.subs.state = NoSub], a, bad)
          [] OTHER -> RefreshMessages(u, w, bad)

RefreshAccounts(t, w, bad) ==
    LET u == [t EXCEPT !.accounts = w.accounts, !.account = IndexIn(w.accounts, CursorAccount(t))]
    IN  CASE "accounts" \in bad -> t
          [] "accounts" \notin bad /\ w.accounts = <<>> -> [Cleared(u) EXCEPT !.unread = NoUnread]
          [] OTHER -> RefreshChats(u, w, bad)

SelectChatById(t, w, g, bad) ==
    IF g \notin ToSet(t.chats) THEN t
    ELSE RefreshMessages([t EXCEPT !.chat = IndexIn(t.chats, g)], w, bad)

-----------------------------------------------------------------------------
\* A tick: live chats first, then live messages.
UpsertChat(chats, ev, archived) ==
    CASE ev.archived /\ ~archived -> SelectSeq(chats, LAMBDA g : g # ev.group)
      [] ~(ev.archived /\ ~archived) /\ ev.group \in ToSet(chats) -> chats
      [] OTHER -> Append(chats, ev.group)
ApplyChat(t, ev) ==
    LET chats == UpsertChat(t.chats, ev, t.archived)
        kept == CursorChat(t)
    IN  [t EXCEPT !.chats = chats,
                  !.chat = IF kept \in ToSet(chats) THEN IndexIn(chats, kept) ELSE Clamp(t.chat, chats)]
Before(queue) == IF Ended \in ToSet(queue) THEN SubSeq(queue, 1, IndexIn(queue, Ended) - 1) ELSE queue
Drained(t, kind) ==
    IF Ended \in ToSet(t.subs[kind].queue) THEN [t EXCEPT !.subs[kind] = NoSub]
    ELSE [t EXCEPT !.subs[kind].queue = <<>>]

DrainChat(t) ==
    LET events == Before(t.subs.chat.queue)
        u == Drained(FoldLeft(ApplyChat, t, events), "chat")
        v == IF CursorChat(u) = CursorChat(t) THEN u
             ELSE [u EXCEPT !.rows = {}, !.pane = NoPane, !.subs.message = NoSub, !.subs.state = NoSub]
    IN  IF events = <<>> THEN u ELSE EnsuredSelected(v, {}, {"message", "state"})

\* Seeded bug: a live message is for the pane if it is for the highlighted chat.
ApplyToCursor(t, ev) ==
    IF ev.group # CursorChat(t) THEN [t EXCEPT !.unread[ev.group] = @ + 1]
    ELSE [t EXCEPT !.rows = NewestRows(@ \cup {[id |-> ev.id, group |-> ev.group, account |-> t.subs.message.account]},
                                       TuScrollback)]

ApplyMessage(t, ev) ==
    IF ev.group # t.pane.group THEN [t EXCEPT !.unread[ev.group] = @ + 1]
    ELSE [t EXCEPT !.rows = NewestRows({ r \in @ : r.id # ev.id }
                                       \cup {[id |-> ev.id, group |-> ev.group, account |-> t.subs.message.account]},
                                       TuScrollback)]
DrainMessages(t) == Drained(FoldLeft(ApplyMessage, t, Before(t.subs.message.queue)), "message")

-----------------------------------------------------------------------------
Faulty == {{}} \cup { {c} : c \in IF tuLeft.faults > 0 THEN {"command", "accounts", "chats", "messages", "spawn"} ELSE {} }
Spend(bad) == /\ tuLeft.inputs > 0
              /\ tuLeft' = [inputs |-> tuLeft.inputs - 1, faults |-> tuLeft.faults - Cardinality(bad)]
DroppedIds(t, u) ==
    IF t.subs.message.account # NoAccount /\ u.subs.message.account # t.subs.message.account
    THEN { [account |-> t.subs.message.account, id |-> t.subs.message.queue[i].id] :
             i \in { j \in DOMAIN t.subs.message.queue : t.subs.message.queue[j].kind = "message" } }
    ELSE {}
\* The chats listed are the highlighted account's from a listing on; a failure after it leaves the old pane or child.
ShowAs(u, lists, bad) ==
    /\ tuApp' = u
    /\ tuLost' = tuLost \cup DroppedIds(tuApp, u)
    /\ tuOwner' = IF lists THEN CursorAccount(u) ELSE tuOwner
    /\ tuStray' = IF lists THEN (tuStray \/ CursorAccount(u) # tuOwner) /\ bad \cap {"messages", "spawn"} # {}
                  ELSE tuStray \/ (CursorAccount(u) # tuOwner /\ <<u.subs, u.pane>> # <<tuApp.subs, tuApp.pane>>)
ListsChats(t, bad) == CursorAccount(t) \notin TuLocal \/ "chats" \notin bad

TuMoveAccount(d) ==
    /\ tuApp' = [tuApp EXCEPT !.account = Clamp(@ + d, tuApp.accounts)]
    /\ tuApp' # tuApp /\ Spend({}) /\ UNCHANGED <<tuWorld, tuLost, tuStray, tuOwner>>
TuMoveChat(d) ==
    /\ tuApp' = [tuApp EXCEPT !.chat = Clamp(@ + d, tuApp.chats)]
    /\ tuApp' # tuApp /\ Spend({}) /\ UNCHANGED <<tuWorld, tuLost, tuStray, tuOwner>>
TuEnterAccount(bad) ==
    /\ tuApp.accounts # <<>> /\ Spend(bad)
    /\ ShowAs(RefreshChats(tuApp, tuWorld, bad), ListsChats(tuApp, bad), bad)
    /\ UNCHANGED tuWorld
TuEnterChat(bad) ==
    /\ Spend(bad) /\ ShowAs(RefreshMessages(tuApp, tuWorld, bad), FALSE, bad)
    /\ UNCHANGED tuWorld
TuSelectAccount(a, bad) ==
    /\ a \in ToSet(tuApp.accounts) /\ Spend(bad)
    /\ LET t == [tuApp EXCEPT !.account = IndexIn(tuApp.accounts, a)]
       IN  ShowAs(RefreshChats(t, tuWorld, bad), ListsChats(t, bad), bad)
    /\ UNCHANGED tuWorld
TuRefresh(bad) ==
    /\ Spend(bad)
    /\ LET u == RefreshAccounts(tuApp, tuWorld, bad)
       IN  ShowAs(u, "accounts" \notin bad /\ ListsChats(u, bad), bad)
    /\ UNCHANGED tuWorld
\* create-identity and login: the new account is listed, highlighted and its chats shown.
TuAddAccount(a, bad) ==
    /\ a \in TuLater \ ToSet(tuWorld.accounts) /\ "command" \notin bad /\ Spend(bad)
    /\ LET w == [tuWorld EXCEPT !.accounts = Append(@, a)]
           t == RefreshAccounts(tuApp, w, bad)
           u == [t EXCEPT !.account = IndexIn(t.accounts, a)]
       IN  /\ tuWorld' = w
           /\ IF "accounts" \in bad \/ "chats" \in bad \/ "messages" \in bad
              THEN ShowAs(t, "accounts" \notin bad /\ ListsChats(t, bad), bad)
              ELSE ShowAs(RefreshChats(u, w, bad), TRUE, bad)

\* Commands on the highlighted chat need an account that can sign, and a chat of it.
Commands(bad) == /\ CursorAccount(tuApp) \in TuLocal /\ CursorChat(tuApp) # NoGroup
                 /\ CursorChat(tuApp) \in tuWorld.groups[CursorAccount(tuApp)]
                 /\ "command" \notin bad /\ Spend(bad)
\* add and remove members, start and finish a stream: the command, then the messages again.
TuGroupCommand(bad) ==
    /\ Commands(bad) /\ ShowAs(RefreshMessages(tuApp, tuWorld, bad), FALSE, bad)
    /\ UNCHANGED tuWorld
TuUpdateChat(bad) ==
    /\ Commands(bad)
    /\ LET t == RefreshChats(tuApp, tuWorld, bad)
           u == SelectChatById(t, tuWorld, CursorChat(tuApp), bad)
       IN  ShowAs(IF bad \cap {"chats", "messages"} # {} THEN t ELSE u, ListsChats(tuApp, bad), bad)
    /\ UNCHANGED tuWorld
TuArchive(archived, bad) ==
    /\ Commands(bad)
    /\ LET g == CursorChat(tuApp)
           w == [tuWorld EXCEPT !.archived = IF archived THEN @ \cup {g} ELSE @ \ {g}]
       IN  /\ tuWorld' = w
           /\ ShowAs(RefreshChats(tuApp, w, bad), ListsChats(tuApp, bad), bad)
TuVisibility(include, bad) ==
    /\ Spend(bad)
    /\ LET t == [tuApp EXCEPT !.archived = include]
       IN  ShowAs(RefreshChats(t, tuWorld, bad), ListsChats(t, bad), bad)
    /\ UNCHANGED tuWorld
TuCreateChat(bad) ==
    /\ CursorAccount(tuApp) \in TuLocal /\ "command" \notin bad /\ Spend(bad)
    /\ TuNewGroup \notin UNION { tuWorld.groups[a] : a \in TuLocal }
    /\ LET w == [tuWorld EXCEPT !.groups[CursorAccount(tuApp)] = @ \cup {TuNewGroup}]
           t == RefreshChats(tuApp, w, bad)
           u == SelectChatById(t, w, TuNewGroup, bad)
       IN  /\ tuWorld' = w
           /\ ShowAs(IF bad \cap {"chats", "messages"} # {} THEN t ELSE u, ListsChats(tuApp, bad), bad)

\* A text goes to the conversation of the pane, or to the highlighted one when none is loaded.
SendAccount == IF tuApp.pane.account # NoAccount THEN tuApp.pane.account ELSE CursorAccount(tuApp)
SendGroup == IF tuApp.pane.group # NoGroup THEN tuApp.pane.group ELSE CursorChat(tuApp)
FreshIds(w) == TuIds \ UNION { w.messages[g] : g \in TuGroups }
Delivered(t, g, id) ==
    IF t.subs.message.ready /\ g \in TuMember[t.subs.message.account]
    THEN [t EXCEPT !.subs.message.queue = Append(@, MessageEvent(g, id))] ELSE t
Undelivered(t, id) ==
    { [account |-> a, id |-> id] : a \in { b \in TuLocal : t.subs.message.account # b \/ ~t.subs.message.ready } }
Sent(t, a, g, id) ==
    [t EXCEPT !.rows = NewestRows(@ \cup {[id |-> id, group |-> g, account |-> a]}, TuScrollback)]
TuSend(id, bad) ==
    /\ SendAccount \in TuLocal /\ SendGroup # NoGroup /\ SendGroup \in tuWorld.groups[SendAccount]
    /\ id \in FreshIds(tuWorld) /\ "command" \notin bad /\ Spend(bad)
    /\ tuWorld' = [tuWorld EXCEPT !.messages[SendGroup] = @ \cup {id}]
    /\ tuApp' = Delivered(Sent(tuApp, SendAccount, SendGroup, id), SendGroup, id)
    /\ tuLost' = tuLost \cup Undelivered(tuApp, id)
    /\ tuStray' = (tuStray \/ SendAccount # tuOwner)
    /\ UNCHANGED tuOwner

TuDaemonStatus(bad) ==
    /\ "command" \notin bad /\ Spend(bad)
    /\ ShowAs(EnsuredSelected([tuApp EXCEPT !.daemon = tuWorld.daemon], bad, {"chat", "message", "state"}), FALSE, bad)
    /\ UNCHANGED tuWorld
TuStartDaemon(bad) ==
    /\ "command" \notin bad /\ Spend(bad)
    /\ tuWorld' = [tuWorld EXCEPT !.daemon = TRUE]
    /\ ShowAs(EnsuredSelected([tuApp EXCEPT !.daemon = TRUE], bad, {"chat", "message", "state"}), FALSE, bad)

\* Seeded bug: the children of a stopped daemon are kept.
StopKeepsChildren ==
    /\ Spend({}) /\ tuWorld' = [tuWorld EXCEPT !.daemon = FALSE]
    /\ ShowAs([tuApp EXCEPT !.daemon = FALSE], FALSE, {})

TuStopDaemon ==
    /\ Spend({}) /\ tuWorld' = [tuWorld EXCEPT !.daemon = FALSE]
    /\ ShowAs([tuApp EXCEPT !.daemon = FALSE, !.subs = NoSubs], FALSE, {})
TuTick ==
    /\ \E kind \in {"chat", "message"} : tuApp.subs[kind].queue # <<>>
    /\ ShowAs(DrainMessages(DrainChat(tuApp)), FALSE, {})
    /\ UNCHANGED <<tuWorld, tuLeft>>

-----------------------------------------------------------------------------
\* What happens outside: a child connects or ends, messages and chat changes arrive, the daemon goes.
TuChildReady ==
    /\ tuApp.subs.message # NoSub /\ ~tuApp.subs.message.ready
    /\ Ended \notin ToSet(tuApp.subs.message.queue) /\ tuWorld.daemon
    /\ tuApp' = [tuApp EXCEPT !.subs.message.ready = TRUE]
    /\ UNCHANGED <<tuWorld, tuLost, tuStray, tuOwner, tuLeft>>
TuChildEnds(kind) ==
    /\ tuApp.subs[kind] # NoSub /\ Ended \notin ToSet(tuApp.subs[kind].queue)
    /\ tuWorld.daemon => (tuLeft.faults > 0)
    /\ tuLeft' = IF tuWorld.daemon THEN [tuLeft EXCEPT !.faults = @ - 1] ELSE tuLeft
    /\ tuApp' = [tuApp EXCEPT !.subs[kind].ready = FALSE, !.subs[kind].queue = Append(@, Ended)]
    /\ UNCHANGED <<tuWorld, tuLost, tuStray, tuOwner>>
TuArrive(g, id) ==
    /\ id \in FreshIds(tuWorld) /\ tuWorld.daemon /\ \E a \in TuLocal : g \in tuWorld.groups[a]
    /\ tuWorld' = [tuWorld EXCEPT !.messages[g] = @ \cup {id}]
    /\ tuApp' = Delivered(tuApp, g, id)
    /\ tuLost' = tuLost \cup Undelivered(tuApp, id)
    /\ UNCHANGED <<tuStray, tuOwner, tuLeft>>
TuChatChanges(g) ==
    /\ tuWorld.daemon /\ tuLeft.faults > 0
    /\ tuLeft' = [tuLeft EXCEPT !.faults = @ - 1]
    /\ tuWorld' = [tuWorld EXCEPT !.archived = SymDiff(@, {g})]
    /\ tuApp' = IF tuApp.subs.chat.ready /\ g \in tuWorld.groups[tuApp.subs.chat.account]
                THEN [tuApp EXCEPT !.subs.chat.queue = Append(@, ChatEvent(g, g \notin tuWorld.archived))] ELSE tuApp
    /\ UNCHANGED <<tuLost, tuStray, tuOwner>>
TuDaemonDies ==
    /\ tuWorld.daemon /\ tuLeft.faults > 0
    /\ tuLeft' = [tuLeft EXCEPT !.faults = @ - 1]
    /\ tuWorld' = [tuWorld EXCEPT !.daemon = FALSE]
    /\ UNCHANGED <<tuApp, tuLost, tuStray, tuOwner>>

-----------------------------------------------------------------------------
\* The interface opens with a running daemon, lists the accounts and shows the first chat of the first one.
TuWorld0 ==
    [accounts |-> TuFirst, groups |-> [a \in TuLocal |-> TuMember[a] \ {TuNewGroup}], archived |-> {},
     messages |-> TuStored, daemon |-> TRUE]
TuBlank ==
    [accounts |-> <<>>, account |-> 1, chats |-> <<>>, chat |-> 1, pane |-> NoPane, rows |-> {},
     unread |-> NoUnread, archived |-> FALSE, daemon |-> TRUE, subs |-> NoSubs]
TuInit ==
    /\ tuWorld = TuWorld0
    /\ tuApp = RefreshAccounts(TuBlank, TuWorld0, {})
    /\ tuOwner = TuFirst[1]
    /\ tuLost = {} /\ tuStray = FALSE
    /\ tuLeft = [inputs |-> TuInputs, faults |-> TuFaults]

TuNext ==
    \/ \E d \in {-1, 1} : TuMoveAccount(d) \/ TuMoveChat(d)
    \/ \E bad \in Faulty :
         \/ TuEnterAccount(bad) \/ TuEnterChat(bad) \/ TuRefresh(bad)
         \/ TuGroupCommand(bad) \/ TuUpdateChat(bad) \/ TuCreateChat(bad)
         \/ TuDaemonStatus(bad) \/ TuStartDaemon(bad)
         \/ \E a \in ToSet(tuApp.accounts) : TuSelectAccount(a, bad)
         \/ \E a \in TuLater : TuAddAccount(a, bad)
         \/ \E b \in BOOLEAN : TuArchive(b, bad) \/ TuVisibility(b, bad)
         \/ \E id \in TuIds : TuSend(id, bad)
    \/ TuStopDaemon \/ TuTick \/ TuDaemonDies \/ TuChildReady
    \/ \E kind \in {"chat", "message"} : TuChildEnds(kind)
    \/ \E g \in TuGroups : TuChatChanges(g) \/ \E id \in TuIds : TuArrive(g, id)

TuSubs == [account : TuLocal \cup {NoAccount}, about : TuGroups \cup {NoGroup, "archived"}, ready : BOOLEAN,
           queue : Seq([kind : {"ended", "chat", "message"}, group : TuGroups \cup {NoGroup},
                        id : TuIds \cup {0}, archived : BOOLEAN])]
TuTypeOK ==
    /\ tuApp.account \in Nat \ {0} /\ tuApp.chat \in Nat \ {0}
    /\ ToSet(tuApp.chats) \subseteq TuGroups /\ tuApp.unread \in [TuGroups -> Nat]
    /\ tuApp.subs \in [chat : TuSubs, message : TuSubs, state : TuSubs]
    /\ tuLost \subseteq [account : TuLocal, id : TuIds]
    /\ tuStray \in BOOLEAN

-----------------------------------------------------------------------------
\* What is shown belongs together: the messages of a loaded pane are all of its chat, no message of it counts
\* as unread, no child outlives the daemon the interface knows of, and while the highlighted account is the one
\* whose chats are listed, the pane and the children are that account's too (or there is none).  In particular a
\* text typed after switching to an account that cannot sign is not sent by the account shown before.
PaneConsistent ==
    /\ tuApp.pane.group # NoGroup =>
          /\ \A r \in tuApp.rows : r.group = tuApp.pane.group
          /\ tuApp.unread[tuApp.pane.group] = 0
    /\ ~tuApp.daemon => tuApp.subs = NoSubs
    /\ (CursorAccount(tuApp) = tuOwner /\ ~tuStray) =>
          /\ tuApp.pane.account \in {NoAccount} \cup (TuLocal \cap {tuOwner})
          /\ \A kind \in DOMAIN tuApp.subs : tuApp.subs[kind].account \in {NoAccount, tuOwner}
          /\ \A r \in tuApp.rows : r.account = tuOwner

\* A message of the loaded chat is shown, or waits in the child's queue, or is older than a full listing, unless
\* the pane's account had no connected child when it arrived or lost the child before the next tick.
NothingMissed ==
    LET a == tuApp.pane.account
        g == tuApp.pane.group
        queue == tuApp.subs.message.queue
    IN  (g # NoGroup /\ ~tuStray) =>
          \A id \in tuWorld.messages[g] :
            \/ id \in { r.id : r \in tuApp.rows }
            \/ MessageEvent(g, id) \in ToSet(queue)
            \/ Cardinality({ r \in tuApp.rows : r.id > id }) >= TuListed
            \/ [account |-> a, id |-> id] \in tuLost

-----------------------------------------------------------------------------
(***************************************************************************)
(* The stream composer of the terminal interface and its live previews     *)
(* (cli tui/app.rs, client.rs, model.rs).  While a stream is composed each *)
(* key goes to the composer: typed text is queued, appended to the         *)
(* daemon's compose session by a timed flush, and shown in a preview; the  *)
(* same stream comes back as events of the message subscription.  Any      *)
(* command to the daemon may fail, and an append may take effect although  *)
(* its answer is lost.                                                     *)
(***************************************************************************)

CONSTANTS
    TcOwn,        \* the stream that is composed here
    TcOthers,     \* streams of other members of the group
    TcText,       \* bound: characters typed
    TcTextLimit,  \* TUI_LIVE_STREAM_TEXT_LIMIT
    TcPreviews,   \* TUI_LIVE_STREAM_PREVIEW_LIMIT
    TcEvents,     \* bound: events of the subscription
    TcFaults      \* bound: commands that fail

VARIABLES
    tcComposer,  \* streaming: "none", or the text queued for the session
    tcInput,     \* the composer line
    tcDrafted,   \* the line holds a stream's draft
    tcSession,   \* the daemon's compose session: [state, text, final]
    tcPreviews,  \* live_stream_previews
    tcMessages,  \* what was sent as ordinary messages
    tcSure,      \* every append that was answered with an error had no effect
    tcLeft       \* [typed, events, faults] still to come
tcVars == <<tcComposer, tcInput, tcDrafted, tcSession, tcPreviews, tcMessages, tcSure, tcLeft>>

NotComposing == <<"idle">>
Composing == tcComposer # NotComposing
NoSession == [state |-> "none", text |-> <<>>, final |-> <<>>]
Capped(text) == IF Len(text) > TcTextLimit THEN SubSeq(text, Len(text) - TcTextLimit + 1, Len(text)) ELSE text
Preview(s, status, text, optimistic) ==
    [stream |-> s, status |-> status, text |-> Capped(text), optimistic |-> optimistic]
Streams(previews) == { previews[i].stream : i \in DOMAIN previews }
CapPreviews(previews) ==
    IF Len(previews) > TcPreviews THEN SubSeq(previews, Len(previews) - TcPreviews + 1, Len(previews)) ELSE previews
OnStream(previews, s, F(_)) ==
    [i \in DOMAIN previews |-> IF previews[i].stream = s THEN F(previews[i]) ELSE previews[i]]

\* Seeded bug: a preview is added without looking for the stream's.
PushPreview(previews, p, replace) == CapPreviews(Append(previews, p))

UpsertPreview(previews, p, replace) ==
    LET Merge(old) ==
          IF old.optimistic /\ ~p.optimistic /\ ~replace THEN [old EXCEPT !.status = p.status]
          ELSE [p EXCEPT !.text = IF replace \/ old.text = <<>> THEN p.text ELSE old.text]
    IN  IF p.stream \in Streams(previews) THEN OnStream(previews, p.stream, Merge)
        ELSE CapPreviews(Append(previews, p))

\* Seeded bug: a delta of the stream composed here is added to what was typed.
AppendAnyDelta(previews, s, text) ==
    LET Extend(old) == [old EXCEPT !.status = "streaming", !.text = Capped(@ \o text)]
    IN  IF s \in Streams(previews) THEN OnStream(previews, s, Extend)
        ELSE CapPreviews(Append(previews, Preview(s, "streaming", text, FALSE)))

AppendDelta(previews, s, text) ==
    LET Extend(old) == IF old.optimistic THEN old
                       ELSE [old EXCEPT !.status = "streaming", !.text = Capped(@ \o text)]
    IN  IF s \in Streams(previews) THEN OnStream(previews, s, Extend)
        ELSE CapPreviews(Append(previews, Preview(s, "streaming", text, FALSE)))
RemovePreview(previews, s) == SelectSeq(previews, LAMBDA p : p.stream # s)

-----------------------------------------------------------------------------
\* What a command to the daemon may come to; "lost" took effect and answered with an error.
Outcomes == {"ok"} \cup IF tcLeft.faults > 0 THEN {"failed", "lost"} ELSE {}
Reported(outcome) == IF outcome = "ok" THEN "ok" ELSE "failed"
Charge(outcome) == tcLeft' = [tcLeft EXCEPT !.faults = IF outcome = "ok" THEN @ ELSE @ - 1]

TcOpen(refreshed) ==
    /\ ~Composing /\ tcSession.state = "none" /\ Charge(refreshed)
    /\ tcComposer' = <<>> /\ tcInput' = <<>> /\ tcDrafted' = FALSE
    /\ tcSession' = [NoSession EXCEPT !.state = "open"]
    /\ tcPreviews' = IF refreshed = "ok" THEN UpsertPreview(tcPreviews, Preview(TcOwn, "streaming", <<>>, TRUE), FALSE)
                     ELSE tcPreviews
    /\ UNCHANGED <<tcMessages, tcSure>>

TcType(c) ==
    /\ tcLeft.typed > 0 /\ tcLeft' = [tcLeft EXCEPT !.typed = @ - 1]
    /\ tcInput' = Append(tcInput, c)
    /\ IF Composing
       THEN /\ tcComposer' = Append(tcComposer, c) /\ tcDrafted' = TRUE
            /\ tcPreviews' = UpsertPreview(tcPreviews, Preview(TcOwn, "streaming", tcInput', TRUE), TRUE)
       ELSE UNCHANGED <<tcComposer, tcDrafted, tcPreviews>>
    /\ UNCHANGED <<tcSession, tcMessages, tcSure>>

\* An append takes effect unless it failed or the session does not take text any more.
Appends(outcome) == outcome # "failed" /\ tcSession.state = "open"
Appended(outcome) == IF Appends(outcome) THEN [tcSession EXCEPT !.text = @ \o tcComposer] ELSE tcSession
AppendAnswer(outcome) == IF tcSession.state = "open" THEN Reported(outcome) ELSE "failed"
KnownAppend(outcome) == tcSure /\ (outcome # "lost" \/ tcSession.state # "open")

\* Seeded bug: text whose append failed is not put back.
QueueForgotten(answer, pending) == <<>>

QueueAfter(answer, pending) == IF answer = "ok" THEN <<>> ELSE pending

TcFlush(outcome) ==
    /\ Composing /\ tcComposer # <<>> /\ Charge(outcome)
    /\ tcSession' = Appended(outcome)
    /\ tcComposer' = QueueAfter(AppendAnswer(outcome), tcComposer)
    /\ tcSure' = KnownAppend(outcome)
    /\ UNCHANGED <<tcInput, tcDrafted, tcPreviews, tcMessages>>

\* Enter while composing: flush what is queued, then finish; a failure of either keeps the composer.
FinishRefused ==
    /\ Composing /\ tcInput = <<>>
    /\ UNCHANGED tcVars
FinishFlushFails(outcome) ==
    /\ Composing /\ tcInput # <<>> /\ tcComposer # <<>>
    /\ AppendAnswer(outcome) = "failed" /\ Charge(outcome)
    /\ tcSession' = Appended(outcome) /\ tcSure' = KnownAppend(outcome)
    /\ UNCHANGED <<tcComposer, tcInput, tcDrafted, tcPreviews, tcMessages>>
Flushed == IF tcComposer = <<>> THEN tcSession ELSE Appended("ok")
Flushes == tcInput # <<>> /\ (tcComposer # <<>> => tcSession.state = "open")

\* Seeded bug: a failed finish leaves the composer.
FinishDropsComposer(left) ==
    /\ Composing /\ Flushes /\ Charge("failed")
    /\ tcComposer' = NotComposing /\ tcSession' = [Flushed EXCEPT !.state = left]
    /\ UNCHANGED <<tcInput, tcDrafted, tcPreviews, tcMessages, tcSure>>

FinishFails(left) ==
    /\ Composing /\ Flushes /\ Charge("failed")
    /\ tcComposer' = <<>> /\ tcSession' = [Flushed EXCEPT !.state = left]
    /\ UNCHANGED <<tcInput, tcDrafted, tcPreviews, tcMessages, tcSure>>
TcFinish ==
    /\ Composing /\ Flushes /\ tcSession.state = "open"
    /\ tcSession' = [Flushed EXCEPT !.state = "finished", !.final = tcInput]
    /\ tcComposer' = NotComposing /\ tcInput' = <<>> /\ tcDrafted' = FALSE
    /\ tcPreviews' = RemovePreview(tcPreviews, TcOwn)
    /\ UNCHANGED <<tcMessages, tcSure, tcLeft>>
TcFinishFails ==
    \/ FinishRefused
    \/ \E outcome \in Outcomes : FinishFlushFails(outcome)
    \/ tcLeft.faults > 0 /\ \E left \in {tcSession.state, "closed"} : FinishFails(left)
TcCancel ==
    /\ Composing
    /\ tcSession' = [tcSession EXCEPT !.state = "cancelled"]
    /\ tcComposer' = NotComposing /\ tcInput' = <<>> /\ tcDrafted' = FALSE
    /\ tcPreviews' = RemovePreview(tcPreviews, TcOwn)
    /\ UNCHANGED <<tcMessages, tcSure, tcLeft>>

\* Outside the composer: Enter sends the line as a message, Esc clears it.
TcSubmit ==
    /\ ~Composing /\ tcInput # <<>>
    /\ tcMessages' = tcMessages \cup {[text |-> tcInput, draft |-> tcDrafted]}
    /\ tcInput' = <<>> /\ tcDrafted' = FALSE
    /\ UNCHANGED <<tcComposer, tcSession, tcPreviews, tcSure, tcLeft>>
TcEscape ==
    /\ ~Composing /\ tcInput # <<>> /\ tcInput' = <<>> /\ tcDrafted' = FALSE
    /\ UNCHANGED <<tcComposer, tcSession, tcPreviews, tcMessages, tcSure, tcLeft>>

\* Events of the message subscription, for this stream and for others, in any order.
TcEvent(s, kind) ==
    /\ tcLeft.events > 0 /\ tcLeft' = [tcLeft EXCEPT !.events = @ - 1]
    /\ s = TcOwn => tcSession.state # "none"
    /\ tcPreviews' =
         CASE kind = "start" -> UpsertPreview(tcPreviews, Preview(s, "streaming", <<>>, FALSE), FALSE)
           [] kind = "delta" -> AppendDelta(tcPreviews, s, <<"d">>)
           [] kind = "preview" -> UpsertPreview(tcPreviews, Preview(s, "running", <<"d">>, FALSE), TRUE)
           [] kind = "final" -> RemovePreview(tcPreviews, s)
    /\ UNCHANGED <<tcComposer, tcInput, tcDrafted, tcSession, tcMessages, tcSure>>

TcInit ==
    /\ tcComposer = NotComposing /\ tcInput = <<>> /\ tcDrafted = FALSE /\ tcSession = NoSession
    /\ tcPreviews = <<>> /\ tcMessages = {} /\ tcSure = TRUE
    /\ tcLeft = [typed |-> TcText, events |-> TcEvents, faults |-> TcFaults]
TcNext ==
    \/ \E outcome \in Outcomes \ {"lost"} : TcOpen(outcome)
    \/ \E outcome \in Outcomes : TcFlush(outcome)
    \/ \E c \in {"a", "b"} : TcType(c)
    \/ TcFinish \/ TcFinishFails \/ TcCancel \/ TcSubmit \/ TcEscape
    \/ \E s \in {TcOwn} \cup TcOthers, kind \in {"start", "delta", "preview", "final"} : TcEvent(s, kind)

TcTypeOK ==
    /\ tcComposer = NotComposing \/ tcComposer \in Seq({"a", "b"})
    /\ tcInput \in Seq({"a", "b"}) /\ tcDrafted \in BOOLEAN /\ tcSure \in BOOLEAN
    /\ tcSession.state \in {"none", "open", "closed", "finished", "cancelled"}
    /\ \A i \in DOMAIN tcPreviews : tcPreviews[i].stream \in {TcOwn} \cup TcOthers

-----------------------------------------------------------------------------
\* The session has exactly what was typed, in order, with what is still queued; a stream that finished says what
\* the line said.  Failed appends neither lose nor repeat text, unless one took effect and only its answer was lost.
DraftIntact ==
    tcSure =>
      /\ Composing => tcSession.text \o tcComposer = tcInput
      /\ tcSession.state = "finished" => tcSession.text = tcSession.final

\* The draft of a stream is not sent as an ordinary message: when the composer is gone, so is the draft.
DraftStaysDraft ==
    /\ ~Composing => ~tcDrafted
    /\ \A m \in tcMessages : ~m.draft

\* One preview for a stream, within the limits; the preview of the stream composed here shows what was typed, and
\* the echo of it that comes back does not add to it.
PreviewsSound ==
    /\ Len(tcPreviews) <= TcPreviews /\ Cardinality(Streams(tcPreviews)) = Len(tcPreviews)
    /\ \A i \in DOMAIN tcPreviews :
         /\ Len(tcPreviews[i].text) <= TcTextLimit
         /\ (Composing /\ tcPreviews[i].optimistic) => tcPreviews[i].text = Capped(tcInput)

=============================================================================
