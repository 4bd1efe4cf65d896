---------------------------- MODULE Projections -----------------------------
(***************************************************************************)
(* What is kept for display: the timeline of messages, and the chat list   *)
(* that is kept over it.                                                   *)
(***************************************************************************)
EXTENDS Naturals, FiniteSets, Sequences, SequencesExt, FiniteSetsExt

(***************************************************************************)
(* The materialized message timeline of the account database               *)
(* (storage-sqlite, timeline.rs).  app_events is the log of decrypted      *)
(* application events; message_timeline, agent_stream_starts and           *)
(* message_modifier_edges are tables derived from it.  Recording an event  *)
(* and pruning re-project only the rows the event can affect; invalidating *)
(* rebuilds the whole group.  Each action is one SQLite transaction.       *)
(*                                                                         *)
(* A table is a set of records.  Message ids are naturals, so that the     *)
(* tie-break on message_id_hex is their order; 0 is SQL's NULL.  The body  *)
(* of a message (plaintext, media, stream metadata) is what is cleared     *)
(* together, so it is one field.                                           *)
(***************************************************************************)

CONSTANTS
  TlInputs,      \* the events the application may record
  TlCutoffs      \* retention cutoffs

VARIABLES events, edges, timeline, starts, update

tlVars == <<events, edges, timeline, starts, update>>

Null == 0

\* Kinds whose event is itself a row of the timeline.
RowKinds == {"chat", "start", "activity", "operation", "system", "edit"}
\* Kinds a new event of which is projected without a rebuild of the group.
Incremental == RowKinds \cup {"reaction", "delete"}
\* Kinds whose row can be quoted, so that replies show a preview of it.
Quotable == RowKinds \ {"edit"}

NoUpdate == [group |-> "none", changes |-> {}]

-----------------------------------------------------------------------------
(* Tags *)

TagValues(e) == ToSet(e.refs)
TagValue(e) == IF e.refs = <<>> THEN Null ELSE Head(e.refs)

EventOf(es, g, id) == {e \in es : e.group = g /\ e.id = id}
Live(es, g, k) == {e \in es : e.group = g /\ e.kind = k /\ ~e.inv}
Before(a, b) == a.at < b.at \/ (a.at = b.at /\ a.id < b.id)
RowsOf(tl, g) == {r \in tl : r.group = g}
RowsById(tl, g, ids) == {r \in tl : r.group = g /\ r.id \in ids}

-----------------------------------------------------------------------------
(* Rows *)

\* A quote tag wins over an event reference in a chat; a stream start
\* replies to nothing.
ReplyTarget(e) ==
  CASE e.kind = "start" -> Null
    [] e.kind = "chat" /\ e.quote # Null -> e.quote
    [] OTHER -> TagValue(e)

BaseRow(e) ==
  [group |-> e.group, id |-> e.id, sender |-> e.sender, kind |-> e.kind,
   at |-> e.at, reply |-> ReplyTarget(e), body |-> e.body, mention |-> e.mention,
   reactions |-> {}, deletedBy |-> Null, inv |-> e.inv]

\* A stream start without a stream tag has no row.
HasRow(e) == e.kind \in RowKinds /\ (e.kind = "start" => e.stream)

Reaction(x) == [id |-> x.id, sender |-> x.sender, at |-> x.at]

\* Deletes are applied in (recorded_at, message_id) order and each overwrites
\* the last, so the latest one by the row's author is the one remembered.
ApplyDeletes(row, deletes) ==
  LET own == {d \in deletes : d.sender = row.sender}
  IN  IF own = {} THEN row
      ELSE [row EXCEPT !.body = "cleared", !.reactions = {},
                       !.deletedBy = (CHOOSE d \in own : \A o \in own : ~Before(d, o)).id]

\* The whole group projected from its events: reactions go to the first
\* message they reference, unless a live delete of the same author retracts
\* them; invalidated modifiers change nothing.
ProjectGroupEvents(es, g) ==
  LET deletes == Live(es, g, "delete")
      Retracted(x) == \E d \in deletes : x.id \in TagValues(d) /\ d.sender = x.sender
      Given(id) == {x \in Live(es, g, "reaction") : TagValue(x) = id /\ ~Retracted(x)}
  IN  {ApplyDeletes([BaseRow(e) EXCEPT !.reactions = {Reaction(x) : x \in Given(e.id)}],
                    {d \in deletes : e.id \in TagValues(d)})
         : e \in {x \in es : x.group = g /\ HasRow(x)}}

StreamStarts(es, g) ==
  {[group |-> g, id |-> e.id] : e \in {x \in Live(es, g, "start") : x.stream}}

-----------------------------------------------------------------------------
(* Modifier edges and the projection of one message *)

EdgesOf(e) ==
  IF e.kind \in {"reaction", "delete"}
  THEN {[group |-> e.group, modifier |-> e.id, target |-> t, kind |-> e.kind]
          : t \in TagValues(e)}
  ELSE {}

UpsertModifierEdges(eds, e) ==
  {x \in eds : ~(x.group = e.group /\ x.modifier = e.id)} \cup EdgesOf(e)

\* Seeded bug: invalidated modifiers still apply.
AnyEventsTargeting(es, eds, g, k, id) ==
  {e \in es : /\ e.group = g
              /\ \E x \in eds : x.group = g /\ x.kind = k /\ x.target = id /\ x.modifier = e.id}

\* Live events joined to the edges of a kind that point at a message.
EventsTargeting(es, eds, g, k, id) ==
  {e \in es : /\ e.group = g /\ ~e.inv
              /\ \E x \in eds : x.group = g /\ x.kind = k /\ x.target = id /\ x.modifier = e.id}

DeletedReactions(es, eds, g, reactions) ==
  {x \in reactions : \E d \in EventsTargeting(es, eds, g, "delete", x.id) :
                       d.sender = x.sender}

ApplyTargetedModifiers(es, eds, row) ==
  LET given == EventsTargeting(es, eds, row.group, "reaction", row.id)
      kept == given \ DeletedReactions(es, eds, row.group, given)
  IN  ApplyDeletes([row EXCEPT !.reactions = {Reaction(x) : x \in kept}],
                   EventsTargeting(es, eds, row.group, "delete", row.id))

ProjectSingleMessage(es, eds, g, id) ==
  {ApplyTargetedModifiers(es, eds, BaseRow(e)) : e \in {x \in EventOf(es, g, id) : HasRow(x)}}

\* Re-project the given messages: each row is replaced, or removed when its
\* event is gone or has no row.
UpsertProjection(tl, es, eds, g, ids) ==
  (tl \ RowsById(tl, g, ids)) \cup UNION {ProjectSingleMessage(es, eds, g, i) : i \in ids}

UpsertStarts(st, es, g, ids) ==
  {s \in st : ~(s.group = g /\ s.id \in ids)} \cup {s \in StreamStarts(es, g) : s.id \in ids}

-----------------------------------------------------------------------------
(* Which rows an event can affect *)

ReplyMessageIds(tl, g, targets) == {r.id : r \in {x \in RowsOf(tl, g) : x.reply \in targets}}

ReactionTargets(es, g, ids) ==
  {TagValue(e) : e \in {x \in es : x.group = g /\ x.id \in ids /\ x.kind = "reaction"}} \ {Null}

\* Seeded bug: rows that quote the event are not affected by it.
AffectedWithoutReplies(es, tl, g, e, previews) ==
  (IF e.kind \in RowKinds THEN {e.id} ELSE {})
    \cup (IF e.kind \in {"edit", "reaction", "delete"} THEN TagValues(e) ELSE {})
    \cup (IF e.kind = "delete" THEN ReactionTargets(es, g, TagValues(e)) ELSE {})

\* previews says whether rows that reply to an affected one count as affected:
\* they do when a live update is emitted, and not when pruning.
AffectedIds(es, tl, g, e, previews) ==
  LET own == IF e.kind \in RowKinds THEN {e.id} ELSE {}
      referenced == IF e.kind \in {"edit", "reaction", "delete"} THEN TagValues(e) ELSE {}
      reacted == IF e.kind = "delete" THEN ReactionTargets(es, g, TagValues(e)) ELSE {}
      quoted == CASE e.kind \in Quotable -> {e.id}
                  [] e.kind = "delete" -> TagValues(e)
                  [] OTHER -> {}
  IN  own \cup referenced \cup reacted
        \cup (IF previews THEN ReplyMessageIds(tl, g, quoted) ELSE {})

-----------------------------------------------------------------------------
(* Live changes *)

\* A reply shows the sender, body, kind and deletion of what it replies to.
Preview(tl, r) ==
  {[sender |-> t.sender, body |-> t.body, kind |-> t.kind, deletedBy |-> t.deletedBy]
     : t \in RowsById(tl, r.group, {r.reply})}
View(tl, r) == [row |-> r, preview |-> Preview(tl, r)]

Upserts(tl, g, ids) == {[op |-> "upsert", id |-> r.id] : r \in RowsById(tl, g, ids)}

\* After an invalidation only rows that look different are sent again, and a
\* row that has gone is removed.
InvalidationChanges(tl1, tl2, g, ids) ==
  LET before == {View(tl1, r) : r \in RowsById(tl1, g, ids)}
      after == {View(tl2, r) : r \in RowsById(tl2, g, ids)}
  IN  {[op |-> "upsert", id |-> v.row.id] : v \in after \ before}
        \cup {[op |-> "remove", id |-> i]
                : i \in {v.row.id : v \in before} \ {v.row.id : v \in after}}

-----------------------------------------------------------------------------
(* Transactions *)

TlInit ==
  /\ events = {} /\ edges = {} /\ timeline = {} /\ starts = {}
  /\ update = NoUpdate

\* An upsert keeps the origin commit of the row it replaces when it brings
\* none, and makes the event valid again.
Recorded(e, prev) ==
  [e EXCEPT !.inv = FALSE,
            !.origin = IF e.origin = Null /\ prev # {} THEN (CHOOSE p \in prev : TRUE).origin
                       ELSE e.origin]

ProjectRecorded(e, prev, ids) ==
  IF \A x \in prev \cup {e} : x.kind \in Incremental
  THEN /\ timeline' = UpsertProjection(timeline, events', edges', e.group, ids)
       /\ starts' = UpsertStarts(starts, events', e.group, ids)
  ELSE /\ timeline' = (timeline \ RowsOf(timeline, e.group)) \cup ProjectGroupEvents(events', e.group)
       /\ starts' = {s \in starts : s.group # e.group} \cup StreamStarts(events', e.group)

\* The rows affected by what the event was, as well as by what it becomes.
RecordAffected(e, prev) ==
  UNION {AffectedIds(events, timeline, e.group, x, TRUE) : x \in prev \cup {e}}

RecordTables(e, prev, ids) ==
  /\ events' = (events \ prev) \cup {Recorded(e, prev)}
  /\ edges' = UpsertModifierEdges(edges, e)
  /\ ProjectRecorded(e, prev, ids)

\* The unique index on source_message_id_hex, which the upsert on
\* (group, message id) does not cover: a source another row has fails the
\* transaction.
SourceFree(e, prev) == e.source = Null \/ \A x \in events \ prev : x.source # e.source

RecordAppEvent(e) ==
  LET prev == EventOf(events, e.group, e.id)
      ids == RecordAffected(e, prev)
  IN  /\ SourceFree(e, prev)
      /\ RecordTables(e, prev, ids)
      /\ update' = [group |-> e.group, changes |-> Upserts(timeline', e.group, ids)]

\* Mark the matching events of one group invalid and rebuild the group.
InvalidateTables(g, hit) ==
  /\ events' = (events \ hit) \cup {[e EXCEPT !.inv = TRUE] : e \in hit}
  /\ timeline' = (timeline \ RowsOf(timeline, g)) \cup ProjectGroupEvents(events', g)
  /\ starts' = {s \in starts : s.group # g} \cup StreamStarts(events', g)
  /\ UNCHANGED edges

InvalidateAffected(g, hit) == UNION {AffectedIds(events, timeline, g, e, TRUE) : e \in hit}

Invalidate(g, hit) ==
  /\ InvalidateTables(g, hit)
  /\ update' = [group |-> g,
                changes |-> InvalidationChanges(timeline, timeline', g, InvalidateAffected(g, hit))]

InvalidateBySource(s) ==
  \E e \in events : e.source = s /\ s # Null /\ Invalidate(e.group, {x \in events : x.source = s})

InvalidateByMessageId(g, id) ==
  /\ EventOf(events, g, id) # {}
  /\ Invalidate(g, EventOf(events, g, id))

\* One commit can have produced several system rows; they all go together.
InvalidateByOriginCommit(c) ==
  LET hit == {e \in events : e.origin = c /\ c # Null}
  IN  \E e \in hit : Invalidate(e.group, hit)

\* Rows that lose a modifier are projected again; rows of pruned events go,
\* and the edges of a pruned modifier go with it (ON DELETE CASCADE).
SecurePrune(g, cutoff) ==
  LET gone == {e \in events : e.group = g /\ e.at < cutoff}
      goneIds == {e.id : e \in gone}
      ids == UNION {AffectedIds(events, timeline, g, e, FALSE) : e \in gone} \ goneIds
  IN  /\ gone # {}
      /\ events' = events \ gone
      /\ edges' = {x \in edges : ~(x.group = g /\ x.modifier \in goneIds)}
      /\ timeline' = UpsertProjection(timeline \ RowsById(timeline, g, goneIds),
                                      events', edges', g, ids)
      /\ starts' = UpsertStarts({s \in starts : ~(s.group = g /\ s.id \in goneIds)}, events', g, ids)
      /\ update' = NoUpdate

DeleteLocalGroup(g) ==
  /\ events' = {e \in events : e.group # g}
  /\ edges' = {x \in edges : x.group # g}
  /\ timeline' = timeline \ RowsOf(timeline, g)
  /\ starts' = {s \in starts : s.group # g}
  /\ update' = NoUpdate

TlGroups == {e.group : e \in TlInputs}

TlNext ==
  \/ \E e \in TlInputs : RecordAppEvent(e)
  \/ \E e \in TlInputs : InvalidateBySource(e.source)
  \/ \E e \in TlInputs : InvalidateByMessageId(e.group, e.id)
  \/ \E e \in TlInputs : InvalidateByOriginCommit(e.origin)
  \/ \E g \in TlGroups, c \in TlCutoffs : SecurePrune(g, c)
  \/ \E g \in TlGroups : DeleteLocalGroup(g)

TlSpec == TlInit /\ [][TlNext]_tlVars

-----------------------------------------------------------------------------
(* Properties *)

\* Every table holds records of its shape, and message_timeline,
\* agent_stream_starts and app_events are keyed by (group, message id).
TlTypeOK ==
  /\ \A e \in events : e.kind \in Incremental \cup {"other"} /\ e.inv \in BOOLEAN
  /\ \A r \in timeline : r.kind \in RowKinds /\ r.body \in {"text", "cleared"}
  /\ \A t \in {events, timeline, starts} :
       \A a, b \in t : a.group = b.group /\ a.id = b.id => a = b
  /\ \A c \in update.changes : c.op \in {"upsert", "remove"}

\* The timeline kept up to date event by event (record_app_event, pruning) is
\* always the one a rebuild of the group would produce, whatever the order in
\* which messages, reactions, deletes and their invalidations arrived; and no
\* edge outlives a retargeted or pruned modifier.
TimelineIsRebuild ==
  /\ edges = UNION {EdgesOf(e) : e \in events}
  /\ \A g \in TlGroups :
       /\ RowsOf(timeline, g) = ProjectGroupEvents(events, g)
       /\ {s \in starts : s.group = g} = StreamStarts(events, g)

\* A live subscriber that applies the changes of every transaction shows what
\* the table holds: a row that looks different after recording or
\* invalidating an event, its reply preview included, is among the changes.
ChangesCoverDifferences ==
  update' # NoUpdate =>
       \A g \in TlGroups :
         LET now == {View(timeline', r) : r \in RowsOf(timeline', g)}
             was == {View(timeline, r) : r \in RowsOf(timeline, g)}
             gone == {v.row.id : v \in was} \ {v.row.id : v \in now}
         IN  /\ \A v \in now \ was : g = update'.group
                                     /\ [op |-> "upsert", id |-> v.row.id] \in update'.changes
             /\ \A i \in gone : [op |-> "remove", id |-> i] \in update'.changes

-----------------------------------------------------------------------------
(***************************************************************************)
(* The chat list of an account: chat_list_rows, derived from the account's *)
(* groups, its read markers and the message timeline (chat_list.rs), and   *)
(* the application's use of it (marmot-app lib.rs).  The account worker    *)
(* records an event in one transaction and refreshes the group's row in a  *)
(* second one, and flags the list stale after saving its groups; the user  *)
(* interface reads the list, sets read markers and deletes chats from      *)
(* another thread; the process can stop between any two of these steps.    *)
(***************************************************************************)

CONSTANTS
  ClInputs,    \* the events the worker records
  ClMe,        \* the local account
  ClInfos,     \* values of the group fields the list shows (title, avatar, archived)
  ClCutoff     \* a retention cutoff

VARIABLES
  accountGroups,    \* account_groups: group -> its projected fields
  readState,        \* conversation_read_state: group -> marker
  chatRows,         \* chat_list_rows: group -> row
  mentionsVersion,  \* chat_list_mention_counts_version
  stale, warmed,    \* chat_list_projection_stale / _warmed: process memory
  worker,           \* what the worker does next: <<"idle">>, <<"refresh", g>>, <<"flag">>
  reader,           \* ensure_chat_list_projection: "idle", "stale" or "cold", "refreshed"
  unsettled         \* groups whose timeline changed since their row was rebuilt

clDb == <<accountGroups, readState, chatRows, mentionsVersion>>
clMem == <<stale, warmed, worker, reader>>
clVars == <<tlVars, clDb, clMem, unsettled>>

ClGroups == {e.group : e \in ClInputs}
NoMessage == [id |-> Null, at |-> 0, sender |-> "", body |-> "none", deleted |-> FALSE]
Idle == <<"idle">>

Set(f, k, v) == [x \in DOMAIN f \cup {k} |-> IF x = k THEN v ELSE f[x]]
Drop(f, k) == [x \in DOMAIN f \ {k} |-> f[x]]

-----------------------------------------------------------------------------
(* The row of a group, recomputed *)

MessagePreview(r) ==
  [id |-> r.id, at |-> r.at, sender |-> r.sender, body |-> r.body,
   deleted |-> r.deletedBy # Null]

LatestChat(tl, g) ==
  LET chats == {r \in RowsOf(tl, g) : r.kind = "chat" /\ ~r.inv}
  IN  IF chats = {} THEN NoMessage
      ELSE MessagePreview(CHOOSE r \in chats : \A o \in chats : ~Before(r, o))

\* Chats of others after the marker; everything counts when the marker was
\* initialized on an empty chat, nothing when there is no marker.
UnreadRows(tl, rs, g) ==
  {r \in RowsOf(tl, g) :
     /\ r.kind = "chat" /\ ~r.inv /\ r.deletedBy = Null /\ r.sender # ClMe
     /\ g \in DOMAIN rs
     /\ IF rs[g].id = Null THEN r.at > 0 ELSE Before(rs[g], r)}

FirstOf(rows) == IF rows = {} THEN Null ELSE (CHOOSE r \in rows : \A o \in rows : ~Before(o, r)).id

UnreadSummary(tl, rs, g) ==
  LET rows == UnreadRows(tl, rs, g)
  IN  [count |-> Cardinality(rows),
       mentions |-> Cardinality({r \in rows : r.mention}),
       first |-> FirstOf(rows)]

Marker(rs, g) == IF g \in DOMAIN rs THEN rs[g] ELSE [id |-> Null, at |-> 0]

RebuildRow(tl, ag, rs, g) ==
  [info |-> ag[g].info, membership |-> ag[g].membership, last |-> LatestChat(tl, g),
   unread |-> UnreadSummary(tl, rs, g), read |-> Marker(rs, g)]

RebuildAll(tl, ag, rs) == [g \in DOMAIN ag |-> RebuildRow(tl, ag, rs, g)]

\* A group that is no longer an account group loses its row.
RefreshedRows(tl, ag, rs, rows, g) ==
  IF g \in DOMAIN ag THEN Set(rows, g, RebuildRow(tl, ag, rs, g)) ELSE Drop(rows, g)

\* What warm-up compares; the unread counts are not among it.  Timestamps have
\* second granularity, so a change since the last rebuild may or may not show
\* in updated_at: clock says whether it does.
ProjectionComplete(clock) ==
  /\ DOMAIN chatRows = DOMAIN accountGroups
  /\ \A g \in DOMAIN chatRows :
       /\ chatRows[g].info = accountGroups[g].info
       /\ chatRows[g].membership = accountGroups[g].membership
       /\ g \in DOMAIN readState => chatRows[g].read = readState[g]
       /\ chatRows[g].last = LatestChat(timeline, g)
  /\ ~clock
  /\ mentionsVersion = 0 =>
       \A g \in DOMAIN chatRows :
         chatRows[g].unread.mentions = UnreadSummary(timeline, readState, g).mentions

-----------------------------------------------------------------------------
(* Steps *)

NewGroup == [info |-> Min(ClInfos), membership |-> "member"]

\* Either a fresh account, or one upgraded from before migration 0019, whose
\* mention counts were defaulted to zero.
ClInit ==
  /\ edges = {} /\ starts = {} /\ update = NoUpdate
  /\ stale = FALSE /\ warmed = FALSE /\ worker = Idle /\ reader = "idle"
  /\ unsettled = {}
  /\ \/ /\ events = {} /\ timeline = {}
        /\ accountGroups = <<>> /\ readState = <<>> /\ chatRows = <<>> /\ mentionsVersion = 0
     \/ \E e \in ClInputs :
          /\ e.kind = "chat" /\ e.mention
          /\ events = {e} /\ timeline = {BaseRow(e)}
          /\ accountGroups = [g \in {e.group} |-> NewGroup]
          /\ readState = [g \in {e.group} |-> [id |-> Null, at |-> 0]]
          /\ chatRows = [g \in {e.group} |->
               [RebuildRow({BaseRow(e)}, accountGroups, readState, g) EXCEPT !.unread.mentions = 0]]
          /\ mentionsVersion = 0

\* record_account_app_event and the invalidate_timeline_* calls: one
\* transaction on the timeline, then the row of the group is due.
WorkerRecord(e) ==
  /\ worker = Idle
  /\ SourceFree(e, EventOf(events, e.group, e.id))
  /\ RecordTables(e, EventOf(events, e.group, e.id),
                  RecordAffected(e, EventOf(events, e.group, e.id)))
  /\ worker' = <<"refresh", e.group>>
  /\ unsettled' = unsettled \cup {e.group}
  /\ UNCHANGED <<update, clDb, stale, warmed, reader>>

WorkerInvalidate(e) ==
  /\ worker = Idle
  /\ EventOf(events, e.group, e.id) # {}
  /\ InvalidateTables(e.group, EventOf(events, e.group, e.id))
  /\ worker' = <<"refresh", e.group>>
  /\ unsettled' = unsettled \cup {e.group}
  /\ UNCHANGED <<update, clDb, stale, warmed, reader>>

\* app_projection_update: refresh_chat_list_row in its own transaction.
WorkerRefresh(g) ==
  /\ worker = <<"refresh", g>>
  /\ chatRows' = RefreshedRows(timeline, accountGroups, readState, chatRows, g)
  /\ worker' = Idle
  /\ unsettled' = unsettled \ {g}
  /\ UNCHANGED <<tlVars, accountGroups, readState, mentionsVersion, stale, warmed, reader>>

\* Seeded bug: retention leaves the row's last message.
PruneTimelineOnly(g) ==
  /\ worker = Idle
  /\ SecurePrune(g, ClCutoff)
  /\ unsettled' = unsettled \cup {g}
  /\ UNCHANGED <<chatRows, accountGroups, readState, mentionsVersion, clMem>>

\* Retention: the timeline and the last message of the row, in one transaction.
WorkerPrune(g) ==
  /\ worker = Idle
  /\ SecurePrune(g, ClCutoff)
  /\ chatRows' = IF g \in DOMAIN chatRows
                 THEN [chatRows EXCEPT ![g].last = LatestChat(timeline', g)] ELSE chatRows
  /\ unsettled' = unsettled \cup {g}
  /\ UNCHANGED <<accountGroups, readState, mentionsVersion, clMem>>

\* save_state: the worker's groups are written, and then the list is flagged.
\* The upsert leaves self_membership alone; a new row defaults to member.
WorkerSave(g, i) ==
  /\ worker = Idle
  /\ accountGroups' = Set(accountGroups, g,
       IF g \in DOMAIN accountGroups THEN [accountGroups[g] EXCEPT !.info = i]
       ELSE [NewGroup EXCEPT !.info = i])
  /\ worker' = <<"flag">>
  /\ UNCHANGED <<tlVars, readState, chatRows, mentionsVersion, stale, warmed, reader, unsettled>>

WorkerFlag ==
  /\ worker = <<"flag">>
  /\ stale' = TRUE
  /\ worker' = Idle
  /\ UNCHANGED <<tlVars, clDb, warmed, reader, unsettled>>

SetMembership(g, m) ==
  /\ worker = Idle
  /\ g \in DOMAIN accountGroups
  /\ accountGroups' = [accountGroups EXCEPT ![g].membership = m]
  /\ UNCHANGED <<tlVars, readState, chatRows, mentionsVersion, clMem, unsettled>>

\* Rebuilding rows settles their groups.
InitReadState(g) ==
  /\ g \in DOMAIN accountGroups
  /\ readState' = IF g \in DOMAIN readState THEN readState
                  ELSE Set(readState, g, [id |-> LatestChat(timeline, g).id,
                                          at |-> LatestChat(timeline, g).at])
  /\ chatRows' = Set(chatRows, g, RebuildRow(timeline, accountGroups, readState', g))
  /\ unsettled' = unsettled \ {g}
  /\ UNCHANGED <<tlVars, accountGroups, mentionsVersion, clMem>>

\* The marker only moves forward; any chat row can be marked, an invalidated
\* one included.  A marker needs its account group (foreign key), so without
\* one the transaction fails.
MarkRead(g, id) ==
  LET target == {r \in RowsById(timeline, g, {id}) : r.kind = "chat"}
      ahead == {r \in target : Marker(readState, g).id = Null \/ Before(Marker(readState, g), r)}
  IN  /\ ahead # {} => g \in DOMAIN accountGroups
      /\ readState' = IF ahead = {} THEN readState
                      ELSE LET r == CHOOSE r \in ahead : TRUE
                           IN  Set(readState, g, [id |-> r.id, at |-> r.at])
      /\ chatRows' = RefreshedRows(timeline, accountGroups, readState', chatRows, g)
      /\ unsettled' = unsettled \ {g}
      /\ UNCHANGED <<tlVars, accountGroups, mentionsVersion, clMem>>

\* ensure_chat_list_projection: look at the flags, bring the rows up to date
\* in one transaction, set the flags; the locks are released in between.
ReaderCheck ==
  /\ reader = "idle" /\ ~(warmed /\ ~stale)
  /\ reader' = IF stale THEN "stale" ELSE "cold"
  /\ UNCHANGED <<tlVars, clDb, stale, warmed, worker, unsettled>>

ReaderRefresh ==
  /\ reader = "stale"
  /\ chatRows' = RebuildAll(timeline, accountGroups, readState)
  /\ mentionsVersion' = 1
  /\ unsettled' = {}
  /\ reader' = "refreshed"
  /\ UNCHANGED <<tlVars, accountGroups, readState, stale, warmed, worker>>

ReaderEnsure(clock) ==
  /\ reader = "cold"
  /\ mentionsVersion' = 1
  /\ IF ProjectionComplete(clock)
     THEN UNCHANGED <<chatRows, unsettled>>
     ELSE /\ chatRows' = RebuildAll(timeline, accountGroups, readState)
          /\ unsettled' = {}
  /\ reader' = "refreshed"
  /\ UNCHANGED <<tlVars, accountGroups, readState, stale, warmed, worker>>

ReaderDone ==
  /\ reader = "refreshed"
  /\ warmed' = TRUE /\ stale' = FALSE
  /\ reader' = "idle"
  /\ UNCHANGED <<tlVars, clDb, worker, unsettled>>

\* Seeded bug: the read marker of a deleted chat stays.
DeleteChatKeepsMarker(g) ==
  /\ DeleteLocalGroup(g)
  /\ accountGroups' = Drop(accountGroups, g)
  /\ chatRows' = Drop(chatRows, g)
  /\ stale' = TRUE /\ warmed' = FALSE
  /\ unsettled' = unsettled \ {g}
  /\ UNCHANGED <<readState, mentionsVersion, worker, reader>>

\* delete_group_local_data: every table of the group, then the flags.
DeleteChat(g) ==
  /\ DeleteLocalGroup(g)
  /\ accountGroups' = Drop(accountGroups, g)
  /\ readState' = Drop(readState, g)
  /\ chatRows' = Drop(chatRows, g)
  /\ stale' = TRUE /\ warmed' = FALSE
  /\ unsettled' = unsettled \ {g}
  /\ UNCHANGED <<mentionsVersion, worker, reader>>

Restart ==
  /\ stale' = FALSE /\ warmed' = FALSE /\ worker' = Idle /\ reader' = "idle"
  /\ UNCHANGED <<tlVars, clDb, unsettled>>

ClNext ==
  \/ \E e \in ClInputs : WorkerRecord(e)
  \/ \E e \in ClInputs : WorkerInvalidate(e)
  \/ \E g \in ClGroups : WorkerRefresh(g)
  \/ \E g \in ClGroups : WorkerPrune(g)
  \/ \E g \in ClGroups, i \in ClInfos : WorkerSave(g, i)
  \/ WorkerFlag
  \/ \E g \in ClGroups, m \in {"member", "left"} : SetMembership(g, m)
  \/ \E g \in ClGroups : InitReadState(g)
  \/ \E e \in ClInputs : MarkRead(e.group, e.id)
  \/ ReaderCheck
  \/ ReaderRefresh
  \/ \E clock \in BOOLEAN : ReaderEnsure(clock)
  \/ ReaderDone
  \/ \E g \in ClGroups : DeleteChat(g)
  \/ Restart

ClSpec == ClInit /\ [][ClNext]_clVars

-----------------------------------------------------------------------------
(* Properties *)

\* The tables and the in-memory flags keep their shape, markers and rows belong
\* to account groups, and a mention is an unread message.
ClTypeOK ==
  /\ DOMAIN chatRows \cup DOMAIN readState \subseteq DOMAIN accountGroups
  /\ \A g \in DOMAIN chatRows : chatRows[g].unread.mentions <= chatRows[g].unread.count
  /\ stale \in BOOLEAN /\ warmed \in BOOLEAN /\ mentionsVersion \in {0, 1}
  /\ reader \in {"idle", "stale", "cold", "refreshed"}
  /\ worker \in {Idle, <<"flag">>} \cup {<<"refresh", g>> : g \in ClGroups}

\* Once the list is warm in this process, the preview of a chat is its newest
\* surviving chat message except while the worker is about to refresh that
\* row: recording, invalidation, retention and a crash between recording and
\* refreshing all end with the right preview. The unread count, unread
\* mentions, first unread message and read marker of a row are what a recount
\* gives, unless the timeline of the group changed since the row was last
\* rebuilt; a marker set by the user is counted in the same transaction.
ChatRowsCurrent ==
  /\ warmed => \A g \in DOMAIN chatRows :
                 worker # <<"refresh", g>> => chatRows[g].last = LatestChat(timeline, g)
  /\ mentionsVersion = 1 =>
       \A g \in DOMAIN chatRows \ unsettled :
         /\ chatRows[g].unread = UnreadSummary(timeline, readState, g)
         /\ chatRows[g].read = Marker(readState, g)

=============================================================================
