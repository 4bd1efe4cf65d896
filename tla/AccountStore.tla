---- MODULE AccountStore ----
(***************************************************************************)
(* The account's projected state in its database, and the import of the    *)
(* database an older build kept it in (marmot-app lib.rs, conversions.rs,  *)
(* projection.rs; storage-sqlite account_projection.rs).  Nothing of an    *)
(* account is read or written before its import has run to the end; the    *)
(* import is a series of transactions, any of which may fail or be the     *)
(* last one before a crash.  After it a client loads the state, changes    *)
(* its copy and saves it whole, while other writers change rows directly.  *)
(***************************************************************************)
EXTENDS Integers, Sequences, SequencesExt, FiniteSets, FiniteSetsExt, Functions

CONSTANTS
    PjLegacies,  \* what the old database may hold: [groups, seen, messages, settings, tokens]
    PjGroups,    \* groups
    PjRecords,   \* what a client may know of a group: [archived, extras]
    PjIds,       \* transport event ids
    PjMessages,  \* messages
    PjSeenCap,   \* MAX_SEEN_EVENT_IDS
    PjClock,     \* bound: seconds the clock shows
    PjChanges,   \* bound: changes of the copy and of the rows
    PjFaults     \* bound: failed import steps and crashes

VARIABLES
    pjLegacy,    \* the old database, or NoLegacy
    pjPc,        \* "closed", the import step that is next, "ready"
    pjRows,      \* account_groups with their components: group -> [archived, components, membership]
    pjSeen,      \* seen_events: [id, at, row]
    pjStored,    \* app_events
    pjSettings,  \* notification_settings, or NoSettings
    pjTokens,    \* group_push_tokens
    pjMarker,    \* account_import_markers has the import's
    pjCopy,      \* the client's AccountState, or NoCopy
    pjNow,       \* unix_now_seconds
    pjLeft,      \* changes and faults still to come
    pjExpected   \* what the account holds: the old database and every change since
pjVars == <<pjLegacy, pjPc, pjRows, pjSeen, pjStored, pjSettings, pjTokens, pjMarker, pjCopy, pjNow,
            pjLeft, pjExpected>>

NoLegacy == [groups |-> <<>>, seen |-> <<>>, messages |-> {}, settings |-> <<>>, tokens |-> {}]
NoSettings == <<>>
NoCopy == [seen |-> <<>>, groups |-> <<>>, open |-> FALSE]
Extras == {"agent", "avatar", "media"}
Memberships == {"member", "left", "removed"}

SeenIds(rows) == { r.id : r \in rows }
Later(r, s) == r.at > s.at \/ (r.at = s.at /\ r.row > s.row)
NewestSeen(rows) == { r \in rows : Cardinality({ s \in rows : Later(s, r) }) < PjSeenCap }
SeenList(rows) ==
    LET order == SetToSortSeq(NewestSeen(rows), LAMBDA r, s : Later(s, r))
    IN  [i \in DOMAIN order |-> order[i].id]
LastRow(rows) == IF rows = {} THEN 0 ELSE Max({ r.row : r \in rows })

\* The newest ids of a list are written with the time of the save; a row keeps its place in the table.
Retained(list) == SubSeq(list, IF Len(list) > PjSeenCap THEN Len(list) - PjSeenCap + 1 ELSE 1, Len(list))
Upserted(rows, list, now) ==
    LET fresh == SelectSeq(list, LAMBDA e : e \notin SeenIds(rows))
    IN  { IF r.id \in Range(list) THEN [r EXCEPT !.at = now] ELSE r : r \in rows }
        \cup { [id |-> fresh[i], at |-> now, row |-> LastRow(rows) + i] : i \in DOMAIN fresh }

\* Seeded bug: the ids with the oldest stamps are kept.
KeepOldest(rows) == { r \in rows : Cardinality({ s \in rows : Later(r, s) }) < PjSeenCap }

PruneSeen(rows) == NewestSeen(rows)

\* Only the order of the row numbers matters.
Renumbered(rows) == { [r EXCEPT !.row = Cardinality({ s \in rows : s.row <= r.row })] : r \in rows }

\* The components a group's record is stored as, and the record they are read back as.
StoredComponents(record) == {"profile", "image", "admins", "retention", "routing"} \cup record.extras
LoadedGroup(row) == [archived |-> row.archived, extras |-> row.components \cap Extras, membership |-> row.membership]

\* Seeded bug: components a group no longer has are not deleted.
KeepStale(old, components) == old

\* delete_stale_group_components
DropStale(old, components) == old \cap components

\* Seeded bug: the copy's membership is written over the stored one.
RowFromCopy(old, record) ==
    [archived |-> record.archived, components |-> StoredComponents(record), membership |-> record.membership]

\* What a save makes of a group's row: its membership stays, a new row is a member's.
RowSaved(old, record) ==
    [archived |-> record.archived,
     components |-> DropStale(old.components, StoredComponents(record)) \cup StoredComponents(record),
     membership |-> old.membership]

RowOf(rows, g) ==
    IF g \in DOMAIN rows THEN rows[g] ELSE [archived |-> FALSE, components |-> {}, membership |-> "member"]
SavedRows(rows, groups) == [g \in DOMAIN groups |-> RowSaved(RowOf(rows, g), groups[g])]

\* save_account_projection_state, one transaction.
SaveProjection(groups, seen) ==
    /\ pjRows' = SavedRows(pjRows, groups)
    /\ pjSeen' = Renumbered(PruneSeen(Upserted(pjSeen, Retained(seen), pjNow)))

\* The old database knew neither avatars nor encrypted media, and no membership.
FromLegacy(groups) ==
    [g \in DOMAIN groups |->
        [archived |-> groups[g].archived, extras |-> groups[g].extras \cap {"agent"}, membership |-> "member"]]

\* Seeded bug: the marker is not looked at.
NeverImported == FALSE

Imported == pjMarker

Step(from, to) == pjPc = from /\ pjPc' = to

\* ensure_account_state up to migrate_legacy_account_projection_if_needed's first write.
EnsureState ==
    /\ Step("closed", IF pjLegacy = NoLegacy \/ Imported THEN "ready" ELSE "state")
    /\ UNCHANGED <<pjLegacy, pjRows, pjSeen, pjStored, pjSettings, pjTokens, pjMarker, pjCopy, pjNow, pjLeft, pjExpected>>

ImportState ==
    /\ Step("state", "messages")
    /\ SaveProjection(FromLegacy(pjLegacy.groups), pjLegacy.seen)
    /\ UNCHANGED <<pjLegacy, pjStored, pjSettings, pjTokens, pjMarker, pjCopy, pjNow, pjLeft, pjExpected>>

\* Messages without an id are passed over; recording one that is there changes nothing.
ImportMessages ==
    /\ \/ \E m \in pjLegacy.messages \ (pjStored \cup {"unnamed"}) :
            Step("messages", "messages") /\ pjStored' = pjStored \cup {m}
       \/ /\ pjLegacy.messages \ {"unnamed"} \subseteq pjStored
          /\ Step("messages", IF pjLegacy.settings = NoSettings THEN "tokens" ELSE "settings")
          /\ UNCHANGED pjStored
    /\ UNCHANGED <<pjLegacy, pjRows, pjSeen, pjSettings, pjTokens, pjMarker, pjCopy, pjNow, pjLeft, pjExpected>>

\* ensure_notification_settings: the defaults, when there is no row.
WithDefaults(settings) == IF settings = NoSettings THEN [local |-> TRUE, push |-> FALSE] ELSE settings

ImportSettings ==
    /\ \/ Step("settings", "local") /\ pjSettings' = WithDefaults(pjSettings)
       \/ Step("local", "push") /\ pjSettings' = [WithDefaults(pjSettings) EXCEPT !.local = pjLegacy.settings.local]
       \/ Step("push", "tokens") /\ pjSettings' = [WithDefaults(pjSettings) EXCEPT !.push = pjLegacy.settings.push]
    /\ UNCHANGED <<pjLegacy, pjRows, pjSeen, pjStored, pjTokens, pjMarker, pjCopy, pjNow, pjLeft, pjExpected>>

ImportTokens ==
    /\ \/ \E t \in pjLegacy.tokens \ pjTokens : Step("tokens", "tokens") /\ pjTokens' = pjTokens \cup {t}
       \/ pjLegacy.tokens \subseteq pjTokens /\ Step("tokens", "marker") /\ UNCHANGED pjTokens
    /\ UNCHANGED <<pjLegacy, pjRows, pjSeen, pjStored, pjSettings, pjMarker, pjCopy, pjNow, pjLeft, pjExpected>>

\* mark_account_import_complete, and the account is ready.
MarkImported ==
    /\ Step("marker", "ready")
    /\ pjMarker' = TRUE
    /\ UNCHANGED <<pjLegacy, pjRows, pjSeen, pjStored, pjSettings, pjTokens, pjCopy, pjNow, pjLeft, pjExpected>>

\* An import step fails, or the process ends: the account is not ready and the copy is gone.
StopAccount ==
    /\ pjPc # "closed" /\ pjLeft.faults > 0
    /\ pjPc' = "closed"
    /\ pjCopy' = NoCopy
    /\ pjLeft' = [pjLeft EXCEPT !.faults = @ - 1]
    /\ UNCHANGED <<pjLegacy, pjRows, pjSeen, pjStored, pjSettings, pjTokens, pjMarker, pjNow, pjExpected>>

\* load_state
LoadState ==
    /\ pjPc = "ready" /\ ~pjCopy.open
    /\ pjCopy' = [seen |-> SeenList(pjSeen), groups |-> [g \in DOMAIN pjRows |-> LoadedGroup(pjRows[g])], open |-> TRUE]
    /\ UNCHANGED <<pjLegacy, pjPc, pjRows, pjSeen, pjStored, pjSettings, pjTokens, pjMarker, pjNow, pjLeft, pjExpected>>

Change == pjLeft.changes > 0 /\ pjLeft' = [pjLeft EXCEPT !.changes = @ - 1]

\* remember_seen_event: the copy forgets its oldest ids beyond the cap.
Remember(id) ==
    /\ pjCopy.open /\ Change /\ id \notin Range(pjCopy.seen)
    /\ pjCopy' = [pjCopy EXCEPT !.seen = Retained(Append(@, id))]
    /\ pjExpected' = [pjExpected EXCEPT !.again = @ \/ id \in SeenIds(pjSeen)]
    /\ UNCHANGED <<pjLegacy, pjPc, pjRows, pjSeen, pjStored, pjSettings, pjTokens, pjMarker, pjNow>>

\* The client learns of a group, changes what it knows of it, or forgets it.
ChangeGroup(g) ==
    /\ pjCopy.open /\ Change
    /\ \/ \E r \in PjRecords :
            pjCopy' = [pjCopy EXCEPT !.groups = (g :> [archived |-> r.archived, extras |-> r.extras,
                        membership |-> IF g \in DOMAIN pjCopy.groups THEN pjCopy.groups[g].membership ELSE "member"]) @@ @]
       \/ g \in DOMAIN pjCopy.groups /\ pjCopy' = [pjCopy EXCEPT !.groups = Restrict(@, DOMAIN @ \ {g})]
    /\ UNCHANGED <<pjLegacy, pjPc, pjRows, pjSeen, pjStored, pjSettings, pjTokens, pjMarker, pjNow, pjExpected>>

\* What the account should hold after a save: the copy, and what is known of memberships.
ExpectedAfterSave ==
    [pjExpected EXCEPT
        !.groups = [g \in DOMAIN pjCopy.groups |->
            [pjCopy.groups[g] EXCEPT !.membership =
                IF g \in DOMAIN pjExpected.groups THEN pjExpected.groups[g].membership ELSE "member"]],
        !.seen = pjCopy.seen]

\* save_state
SaveState ==
    /\ pjPc = "ready" /\ pjCopy.open
    /\ SaveProjection(pjCopy.groups, pjCopy.seen)
    /\ pjExpected' = ExpectedAfterSave
    /\ UNCHANGED <<pjLegacy, pjPc, pjStored, pjSettings, pjTokens, pjMarker, pjCopy, pjNow, pjLeft>>

\* set_group_self_membership: nothing when the group has no row.
SetSelfMembership(g, m) ==
    /\ pjPc = "ready" /\ Change /\ g \in DOMAIN pjRows /\ pjRows[g].membership # m
    /\ pjRows' = [pjRows EXCEPT ![g].membership = m]
    /\ pjExpected' = [pjExpected EXCEPT !.groups[g].membership = m]
    /\ UNCHANGED <<pjLegacy, pjPc, pjSeen, pjStored, pjSettings, pjTokens, pjMarker, pjCopy, pjNow>>

\* record_account_app_event, and secure_prune_app_events_before.
ChangeMessages(m) ==
    /\ pjPc = "ready" /\ Change
    /\ pjStored' = IF m \in pjStored THEN pjStored \ {m} ELSE pjStored \cup {m}
    /\ pjExpected' = [pjExpected EXCEPT !.messages = pjStored']
    /\ UNCHANGED <<pjLegacy, pjPc, pjRows, pjSeen, pjSettings, pjTokens, pjMarker, pjCopy, pjNow>>

\* set_local_notifications_enabled
StoreLocalSetting(on) ==
    /\ pjPc = "ready" /\ Change
    /\ pjSettings' = [WithDefaults(pjSettings) EXCEPT !.local = on]
    /\ pjExpected' = [pjExpected EXCEPT !.settings = pjSettings']
    /\ UNCHANGED <<pjLegacy, pjPc, pjRows, pjSeen, pjStored, pjTokens, pjMarker, pjCopy, pjNow>>

\* The wall clock moves on, or is set back.
SetClock(t) ==
    /\ t \in 1 .. PjClock /\ t # pjNow
    /\ pjNow' = t
    /\ pjExpected' = [pjExpected EXCEPT !.back = @ \/ t < pjNow]
    /\ UNCHANGED <<pjLegacy, pjPc, pjRows, pjSeen, pjStored, pjSettings, pjTokens, pjMarker, pjCopy, pjLeft>>

PjInit ==
    /\ pjLegacy \in PjLegacies \cup {NoLegacy}
    /\ pjPc = "closed"
    /\ pjRows = <<>> /\ pjSeen = {} /\ pjStored = {} /\ pjSettings = NoSettings /\ pjTokens = {}
    /\ pjMarker = FALSE /\ pjCopy = NoCopy /\ pjNow = 1
    /\ pjLeft = [changes |-> PjChanges, faults |-> PjFaults]
    /\ pjExpected = [groups |-> FromLegacy(pjLegacy.groups), seen |-> Retained(pjLegacy.seen),
                     messages |-> pjLegacy.messages \ {"unnamed"}, settings |-> pjLegacy.settings, back |-> FALSE, again |-> FALSE]

PjNext ==
    \/ EnsureState \/ ImportState \/ ImportMessages \/ ImportSettings \/ ImportTokens \/ MarkImported
    \/ StopAccount \/ LoadState \/ SaveState
    \/ \E id \in PjIds : Remember(id)
    \/ \E g \in PjGroups : ChangeGroup(g) \/ \E m \in Memberships : SetSelfMembership(g, m)
    \/ \E m \in PjMessages : ChangeMessages(m)
    \/ \E on \in BOOLEAN : StoreLocalSetting(on)
    \/ \E t \in 1 .. PjClock : SetClock(t)

PjTypeOK ==
    /\ pjPc \in {"closed", "state", "messages", "settings", "local", "push", "tokens", "marker", "ready"}
    /\ DOMAIN pjRows \subseteq PjGroups
    /\ \A g \in DOMAIN pjRows : pjRows[g].membership \in Memberships /\ "routing" \in pjRows[g].components
    /\ \A r \in pjSeen : r.id \in PjIds /\ r.at \in 1 .. PjClock
    /\ Cardinality(pjSeen) <= PjSeenCap
    /\ pjMarker \in BOOLEAN /\ pjNow \in 1 .. PjClock /\ pjCopy.open \in BOOLEAN

\* A ready account holds what the old database held and every change since, whatever failed or crashed on
\* the way: the import runs to its end before anything reads the account, runs again over its own traces
\* harmlessly, and never again once it is marked (lib.rs 2398-2418, 2665-2711).  A save writes everything
\* but memberships, which have a writer of their own (account_projection.rs 420-457).
AccountHoldsChanges ==
    pjPc = "ready" =>
        /\ [g \in DOMAIN pjRows |-> LoadedGroup(pjRows[g])] = pjExpected.groups
        /\ pjStored = pjExpected.messages
        /\ pjSettings = pjExpected.settings
        /\ pjLegacy.tokens \subseteq pjTokens

\* What is read back of the seen ids is the list that was saved, in its order (account_projection.rs
\* 267-283, 379-399), as long as the clock is not set back, which leaves rows of forgotten ids ahead of the
\* new ones, and no id is remembered again while the table has the row of its first time, which keeps its
\* place.
SeenReadBack ==
    pjPc = "ready" /\ ~pjExpected.again /\ ~pjExpected.back => SeenList(pjSeen) = pjExpected.seen
====
