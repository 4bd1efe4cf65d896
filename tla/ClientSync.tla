----------------------------- MODULE ClientSync -----------------------------
(***************************************************************************)
(* How an account's client turns relay deliveries into timeline rows:      *)
(* crates/marmot-app/src/client/sync.rs, with the subscription window of   *)
(* relay_plane/mod.rs and the seen-event list of lib.rs.                   *)
(*                                                                         *)
(* A relay message is a record [id, at, effect]: its id, the sender's      *)
(* created_at, and what the engine does with it on ingest:                 *)
(*   "message"  hands out one MessageReceived;                             *)
(*   "hold"     keeps it as a convergence input; a scheduled pass hands    *)
(*              out all held messages in one batch of effects;             *)
(*   "publish"  hands out one MessageReceived in a batch that also has     *)
(*              something to publish (an automatic commit).                *)
(* The engine and app_events are durable at once; the account state (seen  *)
(* ids and cursor) is durable when save_state runs at the end of a         *)
(* delivery.                                                               *)
(***************************************************************************)
EXTENDS Integers, Sequences, FiniteSets, SequencesExt

CONSTANTS CsMessages,   \* what relays may hold
          CsSeenCap,    \* MAX_SEEN_EVENT_IDS
          CsSkew,       \* TRANSPORT_CURSOR_MAX_FUTURE_SKEW
          CsLookback,   \* APP_RUNTIME_RELAY_REBUILD_LOOKBACK
          CsCrashes,    \* whether the process may die inside a delivery
          CsHorizon     \* last clock value of the model

ASSUME CsAssumption == /\ CsCrashes \in BOOLEAN /\ CsSkew \in Nat /\ CsLookback \in Nat
                       /\ CsHorizon \in Nat /\ CsSeenCap \in Nat \ {0}

VARIABLES
  csNow,        \* wall clock
  csRelay,      \* messages published so far
  csOpen,       \* a client is open
  csState,      \* the client's account state: [seen, cursor]; cursor -1 is None
  csDisk,       \* the account state as saved
  csSince,      \* filter of the live subscription; 0 asks for everything
  csHeld,       \* convergence inputs the engine holds
  csApplied,    \* messages the engine has handed out
  csRows,       \* app_events: set of [id, source]
  csSkipped     \* history: ids whose ingest failed in a client that was then kept

csVars == <<csNow, csRelay, csOpen, csState, csDisk, csSince, csHeld, csApplied, csRows, csSkipped>>

NoCursor == -1
NoSource == "none given"     \* the empty id of a scheduled pass

-----------------------------------------------------------------------------
SmallerOf(a, b) == IF a <= b THEN a ELSE b
LargerOf(a, b) == IF a >= b THEN a ELSE b

\* clamped_transport_cursor
ClampedCursor(current, candidate, now) ==
  LargerOf(SmallerOf(candidate, now + CsSkew), SmallerOf(current, now + CsSkew))

\* Seeded bug: a cursor ahead of the clock is trusted.
SinceFromCursor(cursor, now) ==
  IF cursor = NoCursor THEN 0 ELSE LargerOf(cursor - CsLookback, 0)

\* subscription_rebuild_since: a cursor ahead of the clock is not trusted.
RebuildSince(cursor, now) ==
  IF cursor = NoCursor \/ cursor > now THEN 0 ELSE LargerOf(cursor - CsLookback, 0)

\* remember_seen_event with prune_seen_events: the oldest ids leave first.
RememberSeen(seen, id) ==
  LET longer == Append(seen, id)
  IN  IF Len(longer) > CsSeenCap THEN Tail(longer) ELSE longer

\* record_account_app_event: the unique index on the source id refuses a row
\* whose source another message already has.
CanRecord(rows, m, source) == \A r \in rows : r.source = source => r.id = m.id

RecordRow(rows, m, source) == {r \in rows : r.id # m.id} \cup {[id |-> m.id, source |-> source]}

\* observe_account_device_effects over one batch, in order: the first message
\* that cannot be recorded ends it, and what follows is dropped.
Observe(rows, batch, source) ==
  LET Step(acc, m) == IF acc.failed \/ ~CanRecord(acc.rows, m, source)
                      THEN [acc EXCEPT !.failed = TRUE]
                      ELSE [acc EXCEPT !.rows = RecordRow(@, m, source)]
  IN  FoldLeft(Step, [rows |-> rows, failed |-> FALSE], batch)

-----------------------------------------------------------------------------
\* An account opened for the first time, or one whose cursor was saved before
\* the clamp existed.
CsInit ==
  /\ csNow = 1
  /\ csRelay = {} /\ csSkipped = {} /\ csHeld = {} /\ csApplied = {} /\ csRows = {}
  /\ csOpen = FALSE /\ csSince = 0
  /\ \E c \in {NoCursor, CsHorizon + CsSkew} : csDisk = [seen |-> <<>>, cursor |-> c]
  /\ csState = csDisk

Tick ==
  /\ csNow < CsHorizon
  /\ csNow' = csNow + 1
  /\ UNCHANGED <<csRelay, csOpen, csState, csDisk, csSince, csHeld, csApplied, csRows, csSkipped>>

\* External: a peer's event reaches the relays; created_at is the peer's claim.
Post(m) ==
  /\ m \notin csRelay
  /\ m.at >= csNow          \* senders' clocks are right or ahead
  /\ csRelay' = csRelay \cup {m}
  /\ UNCHANGED <<csNow, csOpen, csState, csDisk, csSince, csHeld, csApplied, csRows, csSkipped>>

\* client_with_relay_plane: load the saved state, subscribe from its cursor.
OpenAccount ==
  /\ ~csOpen
  /\ csOpen' = TRUE
  /\ csState' = csDisk
  /\ csSince' = RebuildSince(csDisk.cursor, csNow)
  /\ UNCHANGED <<csNow, csRelay, csDisk, csHeld, csApplied, csRows, csSkipped>>

CloseAccount ==
  /\ csOpen
  /\ csOpen' = FALSE
  /\ UNCHANGED <<csNow, csRelay, csState, csDisk, csSince, csHeld, csApplied, csRows, csSkipped>>

\* The subscription of external relays passes what the filter admits.
Arrives(m) == csOpen /\ m \in csRelay /\ m.at >= csSince /\ ~Contains(csState.seen, m.id)

\* A message the engine already holds or has handed out yields nothing more.
Effect(m) == IF m \in csHeld \cup csApplied THEN "nothing" ELSE m.effect

Released(m) == IF Effect(m) \in {"message", "publish"} THEN <<m>> ELSE <<>>

\* The part of a delivery the engine makes durable before anything else.
EngineIngests(m) ==
  /\ csHeld' = IF Effect(m) = "hold" THEN csHeld \cup {m} ELSE csHeld
  /\ csApplied' = csApplied \cup Range(Released(m))

\* next_event with ingest_delivery: remember the id, ingest, move the cursor,
\* observe, save. A failed observation returns before the save.
Receive(m) ==
  /\ Arrives(m)
  /\ EngineIngests(m)
  /\ LET seen == RememberSeen(csState.seen, m.id)
         after == [seen |-> seen, cursor |-> ClampedCursor(csState.cursor, m.at, csNow)]
         observed == Observe(csRows, Released(m), m.id)
     IN  /\ csState' = after
         /\ csRows' = observed.rows
         /\ csDisk' = IF observed.failed THEN csDisk ELSE after
  /\ UNCHANGED <<csNow, csRelay, csOpen, csSince, csSkipped>>

\* ingest_delivery returns at fail_if_publish_failed, or the task is stopped
\* at the await of the publish: the effects are gone, the id stays in memory.
ReceiveCut(m) ==
  /\ Arrives(m) /\ Effect(m) = "publish"
  /\ EngineIngests(m)
  /\ csState' = [csState EXCEPT !.seen = RememberSeen(@, m.id)]
  /\ UNCHANGED <<csNow, csRelay, csOpen, csDisk, csSince, csRows, csSkipped>>

\* Seeded bug: the remembered id is saved before the engine has the message.
SaveBeforeIngest(m) ==
  /\ Arrives(m)
  /\ csOpen' = FALSE
  /\ csDisk' = [csState EXCEPT !.seen = RememberSeen(@, m.id)]
  /\ UNCHANGED <<csState, csSkipped, csNow, csRelay, csSince, csHeld, csApplied, csRows>>

\* The engine call itself fails and stores nothing. The worker reopens the
\* client from the saved state or, when that fails too, goes on with this one
\* and the id it remembered.
ReceiveFails(m) ==
  /\ Arrives(m)
  /\ \/ csOpen' = FALSE /\ UNCHANGED <<csState, csSkipped>>
     \/ /\ csState' = [csState EXCEPT !.seen = RememberSeen(@, m.id)]
        /\ csSkipped' = csSkipped \cup {m.id}
        /\ UNCHANGED csOpen
  /\ UNCHANGED <<csNow, csRelay, csDisk, csSince, csHeld, csApplied, csRows>>

\* A scheduled pass: subscriptions are synced, the engine settles the held
\* messages in some order, every row gets the empty source.
AdvanceConvergence ==
  /\ csOpen /\ csHeld # {}
  /\ csSince' = RebuildSince(csState.cursor, csNow)
  /\ csApplied' = csApplied \cup csHeld
  /\ csHeld' = {}
  /\ \E batch \in SetToSeqs(csHeld) :
       LET observed == Observe(csRows, batch, NoSource)
       IN  /\ csRows' = observed.rows
           /\ csDisk' = IF observed.failed THEN csDisk ELSE csState
  /\ UNCHANGED <<csNow, csRelay, csOpen, csState, csSkipped>>

\* The process dies inside a delivery, after the engine's transaction.
CrashInReceive(m) ==
  /\ CsCrashes /\ Arrives(m)
  /\ EngineIngests(m)
  /\ csOpen' = FALSE
  /\ \E n \in 0..Len(Released(m)) :
       csRows' = Observe(csRows, SubSeq(Released(m), 1, n), m.id).rows
  /\ UNCHANGED <<csNow, csRelay, csState, csDisk, csSince, csSkipped>>

CsNext ==
  \/ Tick
  \/ \E m \in CsMessages : Post(m) \/ Receive(m) \/ ReceiveCut(m) \/ ReceiveFails(m) \/ CrashInReceive(m)
  \/ OpenAccount \/ CloseAccount
  \/ AdvanceConvergence

CsSpec == CsInit /\ [][CsNext]_csVars

-----------------------------------------------------------------------------
(* Properties. *)

Ids == {m.id : m \in CsMessages}
AccountStates == [seen : Seq(Ids), cursor : Int]

\* The state of the client has its type.
CsTypeOK ==
  /\ csNow \in 1..CsHorizon /\ csOpen \in BOOLEAN /\ csSince \in Nat
  /\ csRelay \subseteq CsMessages /\ csHeld \subseteq CsMessages /\ csApplied \subseteq CsMessages
  /\ csState \in AccountStates /\ csDisk \in AccountStates
  /\ Len(csState.seen) <= CsSeenCap
  /\ csSkipped \subseteq Ids
  /\ \A r \in csRows : r.id \in Ids /\ r.source \in Ids \cup {NoSource}

\* No message is skipped: whatever created_at values senders claimed, across
\* restarts and an old poisoned cursor, a live subscription admits messages
\* dated now or later; and an id that is saved as seen has been given to the
\* engine, so no restart passes over a message the engine has never had. The
\* one exception is a failed ingest in a client that could not be reopened,
\* whose remembered id a later save makes durable.
NothingSkipped ==
  /\ csOpen => csSince <= csNow
  /\ \A m \in csRelay :
       Contains(csDisk.seen, m.id) => m \in csHeld \cup csApplied \/ m.id \in csSkipped
=============================================================================
