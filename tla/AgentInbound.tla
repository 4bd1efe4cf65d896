---------------------------- MODULE AgentInbound ----------------------------
(***************************************************************************)
(* Inbound events of the agent connector, in two parts that share no       *)
(* state: the replay window its subscribers read, and the driver that      *)
(* catches the account up.                                                 *)
(***************************************************************************)
EXTENDS Integers, Sequences, FiniteSets, Functions

(***************************************************************************)
(* One inbound subscription of the agent connector                         *)
(* (crates/agent-connector/src/inbound.rs, event_projection.rs): a drain   *)
(* loop that turns runtime events into control events.  The runtime stores *)
(* every app event as a row and broadcasts it on a bounded channel; when   *)
(* the subscription falls behind, the channel evicts its oldest events and *)
(* the loop recovers the missed ones from the newest rows of the store, or *)
(* tells the agent to resynchronise.                                       *)
(*                                                                         *)
(* A row is identified by its index in aiRows (the order it was stored);   *)
(* its "at" is the sender's timestamp, which orders the store's window.    *)
(***************************************************************************)

CONSTANTS AiTimes,      \* recorded_at values of the rows
          AiRing,       \* capacity of the runtime's broadcast channel
          AiWindow,     \* DELIVERED_INBOUND_CURSOR_CAPACITY
          AiMaxRows,    \* bound: rows stored in one behaviour
          AiMaxJoins    \* bound: subscriptions opened in one behaviour

ASSUME AiAssumption ==
    /\ AiTimes \subseteq Int
    /\ AiRing \in Nat \ {0} /\ AiWindow \in Nat \ {0}
    /\ AiMaxRows \in Nat /\ AiMaxJoins \in Nat

VARIABLES aiRows,     \* app_events: sequence of [at, chat]
          aiOpen,     \* the subscription is connected
          aiSince,    \* number of rows stored when it was opened
          aiRing,     \* broadcast events not yet received (row indices)
          aiLag,      \* events evicted from the channel, not yet noticed
          aiSeen,     \* DeliveredInboundCursor: recent delivered rows
          aiOut,      \* rows written to the agent on this subscription
          aiReplay,   \* rows a replay found and has not gone through yet
          aiResync,   \* rows stored when resync_required was last written
          aiBeyond,   \* rows a replay found outside its window
          aiCatchUp,  \* the initial catch-up request is still pending
          aiJoins

aiVars == <<aiRows, aiOpen, aiSince, aiRing, aiLag, aiSeen, aiOut, aiReplay,
            aiResync, aiBeyond, aiCatchUp, aiJoins>>

AiInit == /\ aiRows = <<>> /\ aiOpen = FALSE /\ aiSince = 0 /\ aiRing = <<>>
          /\ aiLag = 0 /\ aiSeen = <<>> /\ aiOut = <<>> /\ aiReplay = {}
          /\ aiResync = 0 /\ aiBeyond = {} /\ aiCatchUp = FALSE /\ aiJoins = 0

(* The event of a stored row: chats, deletes and group-state changes of    *)
(* others become control events, every other row projects to nothing       *)
(* (control_event_from_runtime_event, inbound_message_event_from_record).  *)
Relevant(r) == aiRows[r].chat

(* The store's replay order: recorded_at, then the row's own id.           *)
NewerThan(rows, r, s) ==
    rows[r].at > rows[s].at \/ (rows[r].at = rows[s].at /\ r > s)

(* app_messages with a limit: the newest AiWindow rows.                    *)
Window(rows) ==
    {r \in DOMAIN rows :
        Cardinality({s \in DOMAIN rows : NewerThan(rows, s, r)}) < AiWindow}

(* DeliveredInboundCursor::record: remember an id, evict the oldest one.   *)
Remember(seen, r) ==
    IF r \in Range(seen) THEN seen
    ELSE Append(IF Len(seen) >= AiWindow THEN Tail(seen) ELSE seen, r)

(* The runtime stores an app event and broadcasts it.  A full channel      *)
(* overwrites its oldest event: the receiver learns the count later.       *)
RuntimeEvent(at, chat) ==
    /\ Len(aiRows) < AiMaxRows
    /\ aiRows' = Append(aiRows, [at |-> at, chat |-> chat])
    /\ IF ~aiOpen THEN UNCHANGED <<aiRing, aiLag>>
       ELSE IF Len(aiRing) < AiRing
            THEN aiRing' = Append(aiRing, Len(aiRows) + 1) /\ UNCHANGED aiLag
            ELSE /\ aiRing' = Append(Tail(aiRing), Len(aiRows) + 1)
                 /\ aiLag' = aiLag + 1
    /\ UNCHANGED <<aiOpen, aiSince, aiSeen, aiOut, aiReplay, aiResync,
                   aiBeyond, aiCatchUp, aiJoins>>

(* stream_inbound_events: subscribe to the channel, acknowledge, request   *)
(* the initial catch-up.  The delivered cursor starts empty.               *)
SubscribeInbound ==
    /\ ~aiOpen /\ aiJoins < AiMaxJoins
    /\ aiOpen' = TRUE /\ aiSince' = Len(aiRows)
    /\ aiRing' = <<>> /\ aiLag' = 0 /\ aiSeen' = <<>> /\ aiOut' = <<>>
    /\ aiReplay' = {} /\ aiResync' = 0 /\ aiBeyond' = {} /\ aiCatchUp' = TRUE
    /\ aiJoins' = aiJoins + 1
    /\ UNCHANGED aiRows

(* The loop returns: the client closed the stream, a write failed, or the  *)
(* runtime stopped.                                                        *)
CloseInbound ==
    /\ aiOpen
    /\ aiOpen' = FALSE
    /\ UNCHANGED <<aiRows, aiSince, aiRing, aiLag, aiSeen, aiOut, aiReplay,
                   aiResync, aiBeyond, aiCatchUp, aiJoins>>

(* The loop of the subscription is at its select!.                         *)
Selects == aiOpen /\ aiReplay = {}

(* The initial catch-up ends; a failed one is answered with an error and   *)
(* ends the subscription.                                                  *)
InitialCatchUpEnds(ok) ==
    /\ Selects /\ aiCatchUp
    /\ aiCatchUp' = FALSE /\ aiOpen' = ok
    /\ UNCHANGED <<aiRows, aiSince, aiRing, aiLag, aiSeen, aiOut, aiReplay,
                   aiResync, aiBeyond, aiJoins>>

(* Mutant: an event is written without a look at the cursor.               *)
WriteUnseen(r) == aiSeen' = Remember(aiSeen, r) /\ aiOut' = Append(aiOut, r)

(* One event on its way to the agent: what the cursor has seen is skipped, *)
(* anything else is remembered and written.                                *)
WriteOnce(r) ==
    IF r \in Range(aiSeen) THEN UNCHANGED <<aiSeen, aiOut>>
    ELSE aiSeen' = Remember(aiSeen, r) /\ aiOut' = Append(aiOut, r)

(* recv returns an event; an irrelevant one projects to nothing.           *)
ReceiveEvent ==
    /\ Selects /\ aiLag = 0 /\ aiRing # <<>>
    /\ aiRing' = Tail(aiRing)
    /\ IF Relevant(Head(aiRing)) THEN WriteOnce(Head(aiRing))
       ELSE UNCHANGED <<aiSeen, aiOut>>
    /\ UNCHANGED <<aiRows, aiOpen, aiSince, aiLag, aiReplay, aiResync,
                   aiBeyond, aiCatchUp, aiJoins>>

(* resync_required_event: the agent is told to reconcile everything.       *)
ResyncRequired ==
    /\ aiLag' = 0 /\ aiResync' = Len(aiRows)
    /\ UNCHANGED <<aiRows, aiOpen, aiSince, aiRing, aiSeen, aiOut, aiReplay,
                   aiBeyond, aiCatchUp, aiJoins>>

(* recv returns Lagged(n), n beyond the replay window.                     *)
LaggedPastWindow == Selects /\ aiLag > AiWindow /\ ResyncRequired

(* recv returns Lagged(n) within the window, but storage cannot be read.   *)
LaggedReplayFails == Selects /\ aiLag \in 1 .. AiWindow /\ ResyncRequired

(* Mutant: the query of the replay is one row short.                       *)
ReplayAllButOldest(window) ==
    {r \in window : Relevant(r) /\ \E s \in window : NewerThan(aiRows, r, s)}

(* replay_missed_inbound: the rows of the window that project to an event. *)
ReplayMissedInbound(window) == {r \in window : Relevant(r)}

(* recv returns Lagged(n) within the window: the missed rows are replayed. *)
LaggedReplayed ==
    /\ Selects /\ aiLag \in 1 .. AiWindow
    /\ aiReplay' = ReplayMissedInbound(Window(aiRows))
    /\ aiBeyond' = aiBeyond \cup (DOMAIN aiRows \ Window(aiRows))
    /\ aiLag' = 0
    /\ UNCHANGED <<aiRows, aiOpen, aiSince, aiRing, aiSeen, aiOut, aiResync,
                   aiCatchUp, aiJoins>>

(* The replay goes through its rows oldest first and awaits every write.   *)
(* The code fills the cursor before the first write; the loop reads it     *)
(* again only after the last, so that filling it on the way is the same.   *)
WriteReplayed(r) ==
    /\ aiOpen /\ r \in aiReplay
    /\ \A s \in aiReplay \ {r} : NewerThan(aiRows, s, r)
    /\ aiReplay' = aiReplay \ {r}
    /\ WriteOnce(r)
    /\ UNCHANGED <<aiRows, aiOpen, aiSince, aiRing, aiLag, aiResync, aiBeyond,
                   aiCatchUp, aiJoins>>

AiNext == \/ \E at \in AiTimes, chat \in BOOLEAN : RuntimeEvent(at, chat)
          \/ SubscribeInbound
          \/ CloseInbound
          \/ \E ok \in BOOLEAN : InitialCatchUpEnds(ok)
          \/ ReceiveEvent
          \/ LaggedPastWindow
          \/ LaggedReplayFails
          \/ LaggedReplayed
          \/ \E r \in aiReplay : WriteReplayed(r)

AiSpec == AiInit /\ [][AiNext]_aiVars

AiTypeOK ==
    /\ aiRows \in Seq([at : AiTimes, chat : BOOLEAN]) /\ aiOpen \in BOOLEAN
    /\ aiSince \in 0 .. Len(aiRows) /\ aiLag \in Nat
    /\ {aiRing, aiSeen, aiOut} \subseteq Seq(DOMAIN aiRows)
    /\ Len(aiRing) <= AiRing /\ Len(aiSeen) <= AiWindow
    /\ aiReplay \subseteq DOMAIN aiRows /\ aiBeyond \subseteq DOMAIN aiRows
    /\ aiResync \in 0 .. Len(aiRows) /\ aiCatchUp \in BOOLEAN /\ aiJoins \in Nat

(* The rows the agent should have heard of by now and has not: stored      *)
(* since it subscribed, relevant, not on their way, not written, and not   *)
(* covered by a resync_required.                                           *)
MissedSilently ==
    {r \in DOMAIN aiRows :
        /\ aiOpen /\ aiLag = 0 /\ Relevant(r)
        /\ r > aiSince /\ r > aiResync
        /\ r \notin Range(aiRing) \cup aiReplay \cup Range(aiOut)}

(* A subscription that fell behind loses no message its storage replay     *)
(* could see: whatever the agent never hears of was outside the newest     *)
(* rows the replay asked for (inbound.rs, Lagged arms; #609/#747).         *)
LostOnlyBeyondWindow == MissedSilently \subseteq aiBeyond

(* No event is written again until AiWindow others have been: the cursor   *)
(* keeps a live event and its replay apart, whichever comes first          *)
(* (DeliveredInboundCursor, inbound.rs).                                   *)
NotWrittenTwice ==
    \A i, j \in 1 .. Len(aiOut) : i < j /\ j - i <= AiWindow => aiOut[i] # aiOut[j]

-----------------------------------------------------------------------------
(***************************************************************************)
(* InboundCatchUpDriver (crates/agent-connector/src/event_projection.rs):  *)
(* the periodic catch-up loop shared by the inbound subscriptions.  It is  *)
(* started by the first subscription and stops itself when the last one is *)
(* gone; "started" and "active" are atomics, and every atomic operation is *)
(* a step of its own.                                                      *)
(***************************************************************************)

CONSTANTS CdSubs,     \* subscriptions
          CdLoops     \* spawned tasks (a bound on how many exist at once)

VARIABLES cdSub,      \* "off", "counted" (active raised, not yet spawned), "on"
          cdLoop,     \* "none", "wait", "load", "store", "reload", "cas",
                      \* "lock" (waits for the mutex), "busy" (holds it)
          cdStarted   \* the started flag

cdVars == <<cdSub, cdLoop, cdStarted>>

CdInit == /\ cdSub = [s \in CdSubs |-> "off"]
          /\ cdLoop = [l \in CdLoops |-> "none"]
          /\ cdStarted = FALSE

(* active: the number of live subscriptions.                               *)
CdActive == {s \in CdSubs : cdSub[s] # "off"}

CdMove(l, from, to) ==
    /\ cdLoop[l] = from
    /\ cdLoop' = [cdLoop EXCEPT ![l] = to]

(* subscribe: fetch_add, then spawn.                                       *)
CdSubscribe(s) ==
    /\ cdSub[s] = "off"
    /\ cdSub' = [cdSub EXCEPT ![s] = "counted"]
    /\ UNCHANGED <<cdLoop, cdStarted>>

(* spawn: swap the flag; only the caller that found it clear starts a task.*)
CdSpawn(s) ==
    /\ cdSub[s] = "counted"
    /\ cdSub' = [cdSub EXCEPT ![s] = "on"]
    /\ cdStarted' = TRUE
    /\ IF cdStarted THEN UNCHANGED cdLoop
       ELSE \E l \in CdLoops : CdMove(l, "none", "wait")

(* InboundCatchUpSubscription::drop: fetch_sub.                            *)
CdDrop(s) ==
    /\ cdSub[s] = "on"
    /\ cdSub' = [cdSub EXCEPT ![s] = "off"]
    /\ UNCHANGED <<cdLoop, cdStarted>>

(* The interval ticks.                                                     *)
CdTick(l) == CdMove(l, "wait", "load") /\ UNCHANGED <<cdSub, cdStarted>>

(* The first load of active.                                               *)
CdLoad(l) == /\ CdMove(l, "load", IF CdActive = {} THEN "store" ELSE "lock")
             /\ UNCHANGED <<cdSub, cdStarted>>

CdStore(l) == /\ CdMove(l, "store", "reload") /\ cdStarted' = FALSE
              /\ UNCHANGED cdSub

(* Mutant: the loop trusts its first load and ends without a second one.   *)
CdNoReload(l) == CdMove(l, "reload", "none") /\ UNCHANGED <<cdSub, cdStarted>>

(* The second load: a subscription that came in between is noticed here.   *)
CdReload(l) == /\ CdMove(l, "reload", IF CdActive = {} THEN "none" ELSE "cas")
               /\ UNCHANGED <<cdSub, cdStarted>>

(* Mutant: a plain store instead of the compare-exchange.                  *)
CdRestartAlways(l) == /\ CdMove(l, "cas", "lock") /\ cdStarted' = TRUE
                      /\ UNCHANGED cdSub

(* compare_exchange(false, true): the loop that wins goes on, the other    *)
(* leaves the work to the task spawned meanwhile.                          *)
CdCas(l) == /\ CdMove(l, "cas", IF cdStarted THEN "none" ELSE "lock")
            /\ cdStarted' = TRUE /\ UNCHANGED cdSub

(* request: the mutex serialises catch-ups; its result is only logged.     *)
CdLock(l) == /\ \A k \in CdLoops : cdLoop[k] # "busy"
             /\ CdMove(l, "lock", "busy") /\ UNCHANGED <<cdSub, cdStarted>>

CdDone(l) == CdMove(l, "busy", "wait") /\ UNCHANGED <<cdSub, cdStarted>>

CdNext == \/ \E s \in CdSubs : CdSubscribe(s) \/ CdSpawn(s) \/ CdDrop(s)
          \/ \E l \in CdLoops : \/ CdTick(l) \/ CdLoad(l) \/ CdStore(l)
                                \/ CdReload(l) \/ CdCas(l) \/ CdLock(l)
                                \/ CdDone(l)

CdSpec == CdInit /\ [][CdNext]_cdVars

CdTypeOK ==
    /\ cdSub \in [CdSubs -> {"off", "counted", "on"}]
    /\ cdLoop \in [CdLoops -> {"none", "wait", "load", "store", "reload",
                               "cas", "lock", "busy"}]
    /\ cdStarted \in BOOLEAN

(* The loops that will go on to serve subscriptions: neither ended nor     *)
(* deciding whether to.                                                    *)
CdServing == {l \in CdLoops :
                cdLoop[l] \in {"wait", "load", "store", "lock", "busy"}}

(* Subscriptions are served by exactly one catch-up loop: there are never  *)
(* two loops serving, and once a subscription has been set up, a serving   *)
(* loop exists or one that is stopping is about to see the subscription    *)
(* (event_projection.rs, spawn: the store / reload / compare_exchange      *)
(* sequence).                                                              *)
OneCatchUpLoop ==
    /\ \A k, l \in CdServing : k = l
    /\ (\E s \in CdSubs : cdSub[s] = "on") =>
          \/ CdServing # {}
          \/ \E l \in CdLoops : cdLoop[l] \in {"reload", "cas"}

=============================================================================
