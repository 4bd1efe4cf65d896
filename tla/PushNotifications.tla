------------------------- MODULE PushNotifications --------------------------
(***************************************************************************)
(* Push, in two parts that share no state: the tokens that members gossip, *)
(* and the notification that a message raises on a device.                 *)
(***************************************************************************)
EXTENDS Integers, Sequences, SequencesExt, FiniteSets

(***************************************************************************)
(* Push-token gossip in one group.  Every member keeps, for every member,  *)
(* at most one token record and one tombstone (group_push_tokens,          *)
(* group_push_token_tombstones), each stamped by its owner.  A member that *)
(* registers a token stores it and gossips it (kind 447); one that removes *)
(* it gossips a removal (449) and leaves a tombstone; any member may relay *)
(* records of others (448).  Gossip is lost, repeated and reordered.       *)
(*                                                                         *)
(* A stamp stands for (owner_ts, record_digest); the wall clock may step   *)
(* back, so a new stamp is any unused one.                                 *)
(***************************************************************************)

CONSTANTS
  PtMembers,   \* members of the group, one client each
  PtOwners,    \* the members that register tokens
  PtStamps     \* stamps, positive naturals

ASSUME PtAssumption == PtStamps \subseteq Nat \ {0} /\ PtOwners \subseteq PtMembers

VARIABLES
  pushLive,     \* client -> member -> stamp of the live record, 0 for none
  pushTomb,     \* client -> member -> stamp of the tombstone, 0 for none
  pushGossip,   \* records published so far
  pushActive,   \* client -> the members it takes to be in the group
  pushOwn,      \* member -> its registration and native-push setting
  pushHeard     \* client -> member -> records heard since its rows were last cleared

ptVars == <<pushLive, pushTomb, pushGossip, pushActive, pushOwn, pushHeard>>

Token(m, s) == [kind |-> "token", member |-> m, stamp |-> s]
Removal(m, s) == [kind |-> "removal", member |-> m, stamp |-> s]
Records == [kind : {"token", "removal"}, member : PtMembers, stamp : PtStamps]

StampsUsed(m) ==
  {r.stamp : r \in {x \in pushGossip : x.member = m}} \cup {pushLive[m][m], pushTomb[m][m]}

PtInit ==
  /\ pushLive = [c \in PtMembers |-> [m \in PtMembers |-> 0]]
  /\ pushTomb = [c \in PtMembers |-> [m \in PtMembers |-> 0]]
  /\ pushGossip = {}
  /\ pushActive = [c \in PtMembers |-> PtMembers]
  /\ pushOwn = [m \in PtMembers |-> [registered |-> FALSE, enabled |-> FALSE, shared |-> FALSE]]
  /\ pushHeard = [c \in PtMembers |-> [m \in PtMembers |-> {}]]

-----------------------------------------------------------------------------
(* Storage: the ordering primitive *)

\* Seeded bug: a removal is only compared with the live record.
NewerThanLive(c, m, s) == s > pushLive[c][m]

\* push_stamp_strictly_newer against both the live record and the tombstone.
StrictlyNewer(c, m, s) == s > pushLive[c][m] /\ s > pushTomb[c][m]

ApplyToken(c, m, s) ==
  IF StrictlyNewer(c, m, s)
  THEN /\ pushLive' = [pushLive EXCEPT ![c][m] = s]
       /\ pushTomb' = [pushTomb EXCEPT ![c][m] = 0]
  ELSE UNCHANGED <<pushLive, pushTomb>>

ApplyTombstone(c, m, s) ==
  IF StrictlyNewer(c, m, s)
  THEN /\ pushLive' = [pushLive EXCEPT ![c][m] = 0]
       /\ pushTomb' = [pushTomb EXCEPT ![c][m] = s]
  ELSE UNCHANGED <<pushLive, pushTomb>>

-----------------------------------------------------------------------------
(* The owner *)

\* The rows of the account's own registration and setting: a token other than the
\* stored one starts out as not shared, and a cleared registration is gone whole.
StoreRegistration(reg, new) == [reg EXCEPT !.registered = TRUE, !.shared = @ /\ ~new]
DeleteRegistration(reg) == [reg EXCEPT !.registered = FALSE, !.shared = FALSE]
MarkShared(reg, sent) == [reg EXCEPT !.shared = @ \/ sent]
StoreSetting(reg, on) == [reg EXCEPT !.enabled = on]

\* upsert_group_push_token: the own record is stored whatever is there.
StoreOwn(o, s) == pushLive' = [pushLive EXCEPT ![o][o] = s]

\* share_push_registration: the own record is stored unconditionally, then
\* gossiped; a failed send is only logged.
Share(o, reg, s, sent) ==
  IF reg.registered /\ reg.enabled /\ o \in pushActive[o]
  THEN /\ s \notin StampsUsed(o)
       /\ StoreOwn(o, s)
       /\ pushGossip' = IF sent THEN pushGossip \cup {Token(o, s)} ELSE pushGossip
       /\ pushOwn' = [pushOwn EXCEPT ![o] = MarkShared(reg, sent)]
       /\ UNCHANGED pushTomb
  ELSE /\ pushOwn' = [pushOwn EXCEPT ![o] = reg]
       /\ UNCHANGED <<pushLive, pushTomb, pushGossip>>

Register(o, new, s, sent) ==
  /\ Share(o, StoreRegistration(pushOwn[o], new), s, sent)
  /\ UNCHANGED <<pushActive, pushHeard>>

\* remove_push_registration: gossip the removal, then the local tombstone.
Retract(o, reg, s, sent) ==
  IF pushOwn[o].registered /\ o \in pushActive[o]
  THEN /\ s \notin StampsUsed(o)
       /\ pushGossip' = IF sent THEN pushGossip \cup {Removal(o, s)} ELSE pushGossip
       /\ ApplyTombstone(o, o, s)
       /\ pushOwn' = [pushOwn EXCEPT ![o] = reg]
  ELSE /\ pushOwn' = [pushOwn EXCEPT ![o] = reg]
       /\ UNCHANGED <<pushLive, pushTomb, pushGossip>>

ClearRegistration(o, s, sent) ==
  /\ Retract(o, DeleteRegistration(pushOwn[o]), s, sent)
  /\ UNCHANGED <<pushActive, pushHeard>>

\* Turning native push off retracts the token and deletes the registration.
DisableNativePush(o, s, sent) ==
  /\ Retract(o, DeleteRegistration(StoreSetting(pushOwn[o], FALSE)), s, sent)
  /\ UNCHANGED <<pushActive, pushHeard>>

\* Enabling shares nothing by itself.
EnableNativePush(o) ==
  /\ pushOwn' = [pushOwn EXCEPT ![o] = StoreSetting(@, TRUE)]
  /\ UNCHANGED <<pushLive, pushTomb, pushGossip, pushActive, pushHeard>>

-----------------------------------------------------------------------------
(* Everyone *)

\* verify_push_gossip: the record is its owner's, who is in the group.
Verified(c, r) == r.member \in pushActive[c]

\* ingest_push_gossip_message, of a record published by anybody and relayed
\* any number of times: records of members that are not active are dropped.
Ingest(c, r) ==
  /\ r \in pushGossip
  /\ Verified(c, r)
  /\ IF r.kind = "token" THEN ApplyToken(c, r.member, r.stamp)
     ELSE ApplyTombstone(c, r.member, r.stamp)
  /\ pushHeard' = [pushHeard EXCEPT ![c][r.member] = @ \cup {r}]
  /\ UNCHANGED <<pushGossip, pushActive, pushOwn>>

Forget(c, gone) ==
  /\ pushLive' = [pushLive EXCEPT ![c] = [m \in PtMembers |-> IF m \in gone THEN 0 ELSE @[m]]]
  /\ pushTomb' = [pushTomb EXCEPT ![c] = [m \in PtMembers |-> IF m \in gone THEN 0 ELSE @[m]]]
  /\ pushHeard' = [pushHeard EXCEPT ![c] = [m \in PtMembers |-> IF m \in gone THEN {} ELSE @[m]]]

\* A member's departure clears its rows; an error in that is ignored.
Depart(c, m, ok) ==
  /\ m \in pushActive[c] /\ m # c
  /\ pushActive' = [pushActive EXCEPT ![c] = @ \ {m}]
  /\ IF ok THEN Forget(c, {m}) ELSE UNCHANGED <<pushLive, pushTomb, pushHeard>>
  /\ UNCHANGED <<pushGossip, pushOwn>>

Rejoin(c, m) ==
  /\ m \notin pushActive[c]
  /\ pushActive' = [pushActive EXCEPT ![c] = @ \cup {m}]
  /\ UNCHANGED <<pushLive, pushTomb, pushGossip, pushOwn, pushHeard>>

\* cleanup_stale_push_tokens_best_effort, after removing members.
CleanupStale(c) ==
  /\ Forget(c, PtMembers \ pushActive[c])
  /\ UNCHANGED <<pushGossip, pushActive, pushOwn>>

PtNext ==
  \/ \E o \in PtOwners, s \in PtStamps, sent, new \in BOOLEAN : Register(o, new, s, sent)
  \/ \E o \in PtOwners, s \in PtStamps, sent \in BOOLEAN :
       ClearRegistration(o, s, sent)
  \/ \E o \in PtOwners, s \in PtStamps, sent \in BOOLEAN :
       DisableNativePush(o, s, sent)
  \/ \E o \in PtOwners : EnableNativePush(o)
  \/ \E c \in PtMembers : \E r \in pushGossip : Ingest(c, r)
  \/ \E c \in PtMembers, m \in PtOwners, ok \in BOOLEAN : Depart(c, m, ok)
  \/ \E c \in PtMembers, m \in PtOwners : Rejoin(c, m)
  \/ \E c \in PtMembers : CleanupStale(c)

PtSpec == PtInit /\ [][PtNext]_ptVars

-----------------------------------------------------------------------------
(* Properties *)

\* Stamps, records and settings have their types.
PtTypeOK ==
  /\ pushLive \in [PtMembers -> [PtMembers -> PtStamps \cup {0}]]
  /\ pushTomb \in [PtMembers -> [PtMembers -> PtStamps \cup {0}]]
  /\ pushGossip \subseteq Records
  /\ pushActive \in [PtMembers -> SUBSET PtMembers]
  /\ pushOwn \in [PtMembers -> [registered : BOOLEAN, enabled : BOOLEAN, shared : BOOLEAN]]
  /\ pushHeard \in [PtMembers -> [PtMembers -> SUBSET Records]]

\* What a client stores about another member is decided by the newest record
\* it heard and by nothing else: a live token, a tombstone, or neither when
\* it heard none.  Two clients that heard the same records agree, whatever
\* the order, loss and repetition of the gossip.
NewestRecordWins ==
  \A c, m \in PtMembers : c # m =>
    IF pushHeard[c][m] = {} THEN pushLive[c][m] = 0 /\ pushTomb[c][m] = 0
    ELSE \E r \in pushHeard[c][m] :
           /\ \A x \in pushHeard[c][m] : x.stamp <= r.stamp
           /\ IF r.kind = "token" THEN pushLive[c][m] = r.stamp /\ pushTomb[c][m] = 0
              ELSE pushLive[c][m] = 0 /\ pushTomb[c][m] = r.stamp

-----------------------------------------------------------------------------
(***************************************************************************)
(* Notifications (crates/marmot-app/src/notifications.rs, client/push.rs   *)
(* and collect_notifications_after_wake of runtime/mod.rs).  The sender of *)
(* a message asks the push server of every other member's token to wake    *)
(* its device; a woken runtime subscribes to its event bus, catches up and *)
(* turns the events that arrive into notifications, while its user may     *)
(* change the settings and messages are deleted.                           *)
(***************************************************************************)

CONSTANTS
    NtEvents,  \* events of the bus: [kind, id, self, target, mentions]
    NtMine,    \* the ids of messages this account wrote
    NtBuffer,  \* how many events the bus keeps for a slow reader
    NtMax,     \* bound: how many events are published
    NtRecords, \* token records: [member, leaf, server, hint], no two alike but for the hint
    NtServers, \* the push servers, in the order of their keys
    NtSelf     \* the member that sends

VARIABLES
    ntRole,    \* "wakes" or "sends"
    ntStep,    \* where the collection stands
    ntEnabled, \* local_notifications_enabled
    ntShown,   \* messages of the timeline that are neither deleted nor invalidated
    ntKnown,   \* messages that have a timeline row
    ntBus,     \* events published and not yet read by the collection
    ntCount,   \* events published
    ntCache,   \* the resolver's settings: "none" or the value first read
    ntTaken,   \* the events read, with what was true when they were read
    ntFound,   \* the notifications of the collection
    ntTokens,  \* the token records of the group
    ntInboxes, \* servers whose inbox relays the directory knows
    ntTodo,    \* servers still to be asked
    ntAsked    \* server -> [tokens, relays, ok] of every request made

ntWakeVars == <<ntStep, ntEnabled, ntShown, ntKnown, ntBus, ntCount, ntCache, ntTaken, ntFound>>
ntSendVars == <<ntTokens, ntInboxes, ntTodo, ntAsked>>
ntVars == <<ntRole, ntWakeVars, ntSendVars>>

\* ------------------------------------------------------------------- the wake

\* collect_notifications_after_wake subscribes before it catches up.
Wake ==
    /\ ntStep = "asleep"
    /\ ntStep' = "catching"
    /\ UNCHANGED <<ntEnabled, ntShown, ntKnown, ntBus, ntCount, ntCache, ntTaken, ntFound>>

\* A failed or timed-out catch-up ends the collection with nothing.
CatchUpEnds(ok) ==
    /\ ntStep = "catching"
    /\ ntStep' = IF ok THEN "draining" ELSE "failed"
    /\ UNCHANGED <<ntEnabled, ntShown, ntKnown, ntBus, ntCount, ntCache, ntTaken, ntFound>>

\* An event is published; a reader that is too slow loses the oldest one.
Arrive(e) ==
    /\ ntCount < NtMax /\ ntStep \in {"asleep", "catching", "draining"}
    /\ ntCount' = ntCount + 1
    /\ ntBus' = IF ntStep = "asleep" THEN ntBus
                ELSE LET all == Append(ntBus, e)
                     IN  IF Len(all) > NtBuffer THEN Tail(all) ELSE all
    /\ IF e.kind = "chat"
       THEN ntKnown' = ntKnown \cup {e.id} /\ ntShown' = IF e.id \in ntKnown THEN ntShown ELSE ntShown \cup {e.id}
       ELSE IF e.kind = "delete"
       THEN ntShown' = ntShown \ {e.target} /\ UNCHANGED ntKnown
       ELSE UNCHANGED <<ntShown, ntKnown>>
    /\ UNCHANGED <<ntStep, ntEnabled, ntCache, ntTaken, ntFound>>

SetLocalNotifications(on) ==
    /\ ntStep = "draining" /\ ntEnabled # on
    /\ ntEnabled' = on
    /\ UNCHANGED <<ntStep, ntShown, ntKnown, ntBus, ntCount, ntCache, ntTaken, ntFound>>

\* NotificationResolver.settings: read once for the whole batch.
SettingsOf(cache) == IF cache = "none" THEN (IF ntEnabled THEN "on" ELSE "off") ELSE cache

\* Seeded bug: any reaction to a known message notifies.
TargetKnown(e) == e.target \in ntKnown

\* A reaction notifies only the author of a message the timeline still has a row for.
TargetIsMine(e) == e.target \in ntKnown \cap NtMine

\* Seeded bug: the preview is taken from the row whatever became of the message.
PreviewOfRow(e) == e.kind = "reaction" /\ e.target \in ntKnown

\* reaction_notification_fields: no text of a deleted or invalidated message.
HasPreview(e) == e.kind = "reaction" /\ e.target \in ntShown

\* notification_update_from_message and notification_update_from_group_join.
KeyOf(e) == IF e.kind = "join" THEN <<"invite", e.id>> ELSE <<"message", e.id>>
Mentions(e) == e.kind = "chat" /\ e.mentions /\ ~e.self
Notifies(e) ==
    \/ e.kind \in {"chat", "join"}
    \/ e.kind = "reaction" /\ TargetIsMine(e)
Update(e) == [key |-> KeyOf(e), event |-> e, preview |-> HasPreview(e), mention |-> Mentions(e)]

\* Which events ask for the settings at all.
AsksSettings(e) == e.kind # "state"

\* collect_notification_update_from_event.
Collect(e) ==
    /\ ntCache' = IF AsksSettings(e) THEN SettingsOf(ntCache) ELSE ntCache
    /\ ntFound' = IF AsksSettings(e) /\ SettingsOf(ntCache) = "on" /\ Notifies(e)
                  THEN Append(ntFound, Update(e))
                  ELSE ntFound
    /\ ntTaken' = Append(ntTaken, [event |-> e, known |-> ntKnown, shown |-> ntShown, on |-> ntEnabled])

\* The drain takes whatever the bus has; only an empty bus is compared with the deadline.
Take ==
    /\ ntStep = "draining" /\ ntBus # <<>>
    /\ Collect(Head(ntBus))
    /\ ntBus' = Tail(ntBus)
    /\ UNCHANGED <<ntStep, ntEnabled, ntShown, ntKnown, ntCount>>

\* Seeded bug: notifications are not compared by key.
KeepAll(found) == found

\* dedupe_notification_updates
Dedupe(found) ==
    LET Add(done, u) == IF \E i \in DOMAIN done : done[i].key = u.key THEN done ELSE Append(done, u)
    IN  FoldLeft(Add, <<>>, found)

CollectionEnds ==
    /\ ntStep = "draining" /\ ntBus = <<>>
    /\ ntFound' = Dedupe(ntFound)
    /\ ntStep' = "collected"
    /\ UNCHANGED <<ntEnabled, ntShown, ntKnown, ntBus, ntCount, ntCache, ntTaken>>

WakeSteps ==
    /\ ntRole = "wakes"
    /\ \/ Wake
       \/ \E ok \in BOOLEAN : CatchUpEnds(ok)
       \/ \E e \in NtEvents : Arrive(e)
       \/ \E on \in BOOLEAN : SetLocalNotifications(on)
       \/ Take
       \/ CollectionEnds
    /\ UNCHANGED <<ntRole, ntSendVars>>

\* ---------------------------------------------------------------- the sender

\* Seeded bug: the sender's own tokens are not left out.
OthersAll == ntTokens

\* token_records_by_server: one record per member and server, none of the sender's; of
\* several leaves the first of the stored order is kept.
Others == { r \in ntTokens : r.member # NtSelf }
RecordsOf(server) ==
    { r \in Others : r.server = server /\
        \A x \in Others : (x.server = server /\ x.member = r.member) => r.leaf <= x.leaf }

\* select_notification_trigger_relays
Preferred(hints, inbox) == IF hints # {} THEN hints ELSE inbox

\* notification_trigger_target_relays: the hints of the records, or the server's inbox.
RelaysOf(server, inboxes) ==
    Preferred({ r.hint : r \in RecordsOf(server) } \ {"none"},
              IF server \in inboxes THEN {"inbox"} ELSE {})

StartTrigger ==
    /\ ntStep = "asleep"
    /\ ntStep' = "asking"
    /\ ntTodo' = SelectSeq(NtServers, LAMBDA s : RecordsOf(s) # {})
    /\ UNCHANGED <<ntTokens, ntInboxes, ntAsked>>

\* publish_notification_trigger: an unreachable server is skipped, an error of one
\* request ends the loop.
AskNext(ok) ==
    /\ ntStep = "asking" /\ ntTodo # <<>>
    /\ LET s == Head(ntTodo)
       IN  IF RelaysOf(s, ntInboxes) = {}
           THEN ok /\ ntTodo' = Tail(ntTodo) /\ UNCHANGED ntAsked
           ELSE /\ ntTodo' = IF ok THEN Tail(ntTodo) ELSE <<>>
                /\ ntAsked' = [ntAsked EXCEPT ![s] = Append(@,
                     [tokens |-> RecordsOf(s), relays |-> RelaysOf(s, ntInboxes), ok |-> ok])]
    /\ UNCHANGED <<ntStep, ntTokens, ntInboxes>>
TriggerEnds ==
    /\ ntStep = "asking" /\ ntTodo = <<>>
    /\ ntStep' = "asked"
    /\ UNCHANGED ntSendVars

SendSteps ==
    /\ ntRole = "sends"
    /\ StartTrigger \/ (\E ok \in BOOLEAN : AskNext(ok)) \/ TriggerEnds
    /\ UNCHANGED <<ntRole, ntEnabled, ntShown, ntKnown, ntBus, ntCount, ntCache, ntTaken, ntFound>>

NtInit ==
    /\ ntRole \in {"wakes", "sends"}
    /\ ntTokens \in IF ntRole = "sends" THEN SUBSET NtRecords ELSE {{}}
    /\ ntInboxes \in IF ntRole = "sends" THEN SUBSET ToSet(NtServers) ELSE {{}}
    /\ ntEnabled \in IF ntRole = "sends" THEN {TRUE} ELSE BOOLEAN
    /\ ntStep = "asleep" /\ ntCount = 0 /\ ntCache = "none"
    /\ ntShown = {} /\ ntKnown = {} /\ ntBus = <<>> /\ ntTaken = <<>> /\ ntFound = <<>>
    /\ ntTodo = <<>> /\ ntAsked = [s \in ToSet(NtServers) |-> <<>>]
NtNext == WakeSteps \/ SendSteps

NtTypeOK ==
    /\ ntStep \in {"asleep", "catching", "draining", "failed", "collected", "asking", "asked"}
    /\ ntEnabled \in BOOLEAN /\ ntCache \in {"none", "on", "off"}
    /\ ntShown \subseteq ntKnown
    /\ Len(ntBus) <= NtBuffer /\ ntCount \in 0 .. NtMax
    /\ ntTokens \subseteq NtRecords

\* --------------------------------------------------------------- properties

(* A collection that succeeds holds one notification for every message and invite    *)
(* it read that deserves one, none twice, however often the runtime published it,    *)
(* and it is decided by a single reading of the settings                             *)
(* (collect_notifications_after_wake, dedupe_notification_updates).                  *)
Deserves(t) ==
    \/ t.event.kind \in {"chat", "join"}
    \/ t.event.kind = "reaction" /\ t.event.target \in t.known \cap NtMine
CollectionExact ==
    ntStep = "collected" =>
        LET wanted == { KeyOf(ntTaken[i].event) : i \in { j \in DOMAIN ntTaken : Deserves(ntTaken[j]) } }
            found  == { ntFound[i].key : i \in DOMAIN ntFound }
        IN  /\ Cardinality(found) = Len(ntFound)
            /\ found = IF ntCache = "off" THEN {} ELSE wanted

(* A notification never shows text of a message that was deleted when the            *)
(* notification was made, a reaction to somebody else's message never notifies, and  *)
(* a mention in one's own message is none (reaction_notification_fields,             *)
(* notification_is_mention).                                                         *)
NotificationsDiscreet ==
    \A i \in DOMAIN ntFound :
        LET u == ntFound[i]
        IN  /\ u.event.kind = "reaction" => u.event.target \in NtMine
            /\ u.preview => \E j \in DOMAIN ntTaken :
                  ntTaken[j].event = u.event /\ u.event.target \in ntTaken[j].shown
            /\ u.mention => ~u.event.self

(* Each member is woken at most once per server and the sender never;                *)
(* a server whose relays are known was asked unless the request to an earlier one    *)
(* failed (token_records_by_server, publish_notification_trigger).                   *)
TriggersExact ==
    /\ \A s \in DOMAIN ntAsked :
         /\ Len(ntAsked[s]) <= 1
         /\ \A i \in DOMAIN ntAsked[s] :
              /\ NtSelf \notin { r.member : r \in ntAsked[s][i].tokens }
              /\ \A r, x \in ntAsked[s][i].tokens : r.member = x.member => r = x
              /\ ntAsked[s][i].relays # {}
    /\ ntStep = "asked" =>
         \A k \in DOMAIN NtServers :
            LET s == NtServers[k]
                here == { r \in ntTokens : r.server = s /\ r.member # NtSelf }
                due == here # {} /\ (s \in ntInboxes \/ \A r \in here : r.hint # "none")
            IN  due /\ ntAsked[s] = <<>> =>
                  \E j \in 1 .. k - 1 : \E i \in DOMAIN ntAsked[NtServers[j]] : ~ntAsked[NtServers[j]][i].ok

=============================================================================
