--------------------------- MODULE RelayTransport ---------------------------
(***************************************************************************)
(* The relay side of the Nostr adapter, in two parts that share no state:  *)
(* the pool of relay connections, and the plane that routes relay events   *)
(* to accounts.                                                            *)
(***************************************************************************)
EXTENDS Integers, FiniteSets, Sequences, Functions

(***************************************************************************)
(* The Nostr transport adapter and its SDK relay client: the subscriptions *)
(* of an account (activate_account, sync_account_groups,                   *)
(* deactivate_account), the pool of relays, and the fan-out of a publish   *)
(* over relays that join the pool only while they are written to.          *)
(*                                                                         *)
(* A subscription is the pair of what it is for, the account's inbox or a  *)
(* group, and the relay it is issued to: the subscription id is a digest   *)
(* of both.  The subscriptions of one call are issued by concurrent tasks  *)
(* and the first failure aborts the others where they stand.  The pool and *)
(* the reference counts of write relays are guarded by one lock, so each   *)
(* critical section is a step.  The SDK's pool is external: add_relay      *)
(* makes a relay readable, add_write_relay only adds an absent one.        *)
(***************************************************************************)

CONSTANTS RoAccounts, RoGroups, RoRelays, RoHome, RoPublishers,
          RoBudget  \* bound: calls, publishes and faults in one behaviour

ASSUME RoAssumption == RoHome \in RoRelays /\ IsFiniteSet(RoPublishers)

VARIABLES
  roPool,    \* relay -> "absent", "write" (publish only) or "read"
  roRefs,    \* relay -> publishes that hold it as a one-shot write relay
  roRoutes,  \* account -> subscriptions its delivery routes stand for
  roLive,    \* account -> subscriptions registered with the pool
  roKept,    \* account -> subscription ids account_subscriptions remembers
  roCall,    \* account -> the adapter call in flight
  roSound,   \* account -> its last activation ran to its end
  roPub,     \* publisher -> the publish in flight
  roCount    \* calls, publishes and faults so far

roVars == <<roPool, roRefs, roRoutes, roLive, roKept, roCall, roSound, roPub,
            roCount>>

\* What an account may subscribe to: its inbox on the home relay, a group on
\* the relay its signed routing names.
RoSubs == {<<"inbox", RoHome>>} \cup (RoGroups \X RoRelays)
RoInbox == <<"inbox", RoHome>>

\* Group routings: each group at most once, on some relay.
RoWishes ==
  {S \in SUBSET (RoGroups \X RoRelays) : \A s, t \in S : s[1] = t[1] => s = t}

NoCall == [kind |-> "none", want |-> {}, todo |-> {}, added |-> {},
           drop |-> {}]
NoPublish == [st |-> "none", left |-> {}, held |-> {}, sent |-> {}]

RoInit ==
  /\ roPool = [r \in RoRelays |-> "absent"]
  /\ roRefs = [r \in RoRelays |-> 0]
  /\ roRoutes = [a \in RoAccounts |-> {}]
  /\ roLive = [a \in RoAccounts |-> {}]
  /\ roKept = [a \in RoAccounts |-> {}]
  /\ roCall = [a \in RoAccounts |-> NoCall]
  /\ roSound = [a \in RoAccounts |-> FALSE]
  /\ roPub = [p \in RoPublishers |-> NoPublish]
  /\ roCount = 0

RoSpends == roCount < RoBudget /\ roCount' = roCount + 1

Active(a) == roRoutes[a] # {}

(***************************************************************************)
(* activate_account.  The subscriptions of an account that is already      *)
(* active are dropped first; the routes are replaced only at the end.      *)
(***************************************************************************)
ActivateStarts(a) ==
  \E want \in RoWishes :
    /\ roCall[a].kind = "none"
    /\ RoSpends
    /\ roCall' = [roCall EXCEPT ![a] =
         [kind |-> "activate", want |-> want \cup {RoInbox},
          todo |-> want \cup {RoInbox}, added |-> {}, drop |-> {}]]
    /\ roSound' = [roSound EXCEPT ![a] = FALSE]
    /\ IF Active(a)
       THEN /\ roKept' = [roKept EXCEPT ![a] = {}]
            /\ roLive' = [roLive EXCEPT ![a] = @ \ roKept[a]]
       ELSE UNCHANGED <<roKept, roLive>>
    /\ UNCHANGED <<roPool, roRefs, roRoutes, roPub>>

\* diff_group_subscriptions: what the routes have and the wish does not, and
\* the other way round, compared with the endpoints they go to.
ToAdd(current, want) == want \ current

ToRemove(current, want) == current \ (want \cup {RoInbox})

SyncStarts(a) ==
  \E want \in RoWishes :
    /\ roCall[a].kind = "none" /\ Active(a)
    /\ RoSpends
    /\ roCall' = [roCall EXCEPT ![a] =
         [kind |-> "sync", want |-> want, todo |-> ToAdd(roRoutes[a], want),
          added |-> {}, drop |-> ToRemove(roRoutes[a], want)]]
    /\ UNCHANGED <<roPool, roRefs, roRoutes, roLive, roKept, roSound, roPub>>

(***************************************************************************)
(* One subscribe task of subscribe_all, in three parts an abort can come   *)
(* between: the relay is added to the pool, the subscription is registered *)
(* with it, the id is remembered for the account.                          *)
(***************************************************************************)
AddsRelay(a, s) ==
  /\ s \in roCall[a].todo
  /\ roPool' = [roPool EXCEPT ![s[2]] = "read"]
  /\ roCall' = [roCall EXCEPT ![a].todo = @ \ {s}, ![a].added = @ \cup {s}]
  /\ UNCHANGED <<roRefs, roRoutes, roLive, roKept, roSound, roPub, roCount>>

Registers(a, s) ==
  /\ s \in roCall[a].added \ roLive[a]
  /\ roPool[s[2]] # "absent"
  /\ roLive' = [roLive EXCEPT ![a] = @ \cup {s}]
  /\ UNCHANGED <<roPool, roRefs, roRoutes, roKept, roCall, roSound, roPub,
                 roCount>>

Remembers(a, s) ==
  /\ s \in roCall[a].added \cap roLive[a]
  /\ roKept' = [roKept EXCEPT ![a] = @ \cup {s}]
  /\ roCall' = [roCall EXCEPT ![a].added = @ \ {s}]
  /\ UNCHANGED <<roPool, roRefs, roRoutes, roLive, roSound, roPub, roCount>>

\* A subscription no relay takes fails the call; its other tasks are aborted.
SubscribeFails(a) ==
  /\ roCall[a].added \ roLive[a] # {}
  /\ \/ RoSpends
     \/ /\ \E s \in roCall[a].added \ roLive[a] : roPool[s[2]] = "absent"
        /\ UNCHANGED roCount
  /\ roCall' = [roCall EXCEPT ![a] = NoCall]
  /\ UNCHANGED <<roPool, roRefs, roRoutes, roLive, roKept, roSound, roPub>>

UnsubscribedByGroup(subs, gone) ==
  {s \in subs : \A g \in gone : s[1] # g[1]}
\* What unsubscribe drops from the pool and from the account's ids.
Unsubscribed(subs, gone) == subs \ gone

\* Every task is through: the stale subscriptions are dropped and the state
\* takes the new routes.
CallEnds(a) ==
  /\ roCall[a].kind \in {"activate", "sync"}
  /\ roCall[a].todo = {} /\ roCall[a].added = {}
  /\ roLive' = [roLive EXCEPT ![a] = Unsubscribed(@, roCall[a].drop)]
  /\ roKept' = [roKept EXCEPT ![a] = Unsubscribed(@, roCall[a].drop)]
  /\ roRoutes' = [roRoutes EXCEPT ![a] = roCall[a].want \cup {RoInbox}]
  /\ roSound' = [roSound EXCEPT ![a] = @ \/ roCall[a].kind = "activate"]
  /\ roCall' = [roCall EXCEPT ![a] = NoCall]
  /\ UNCHANGED <<roPool, roRefs, roPub, roCount>>

DeactivateAccount(a) ==
  /\ roCall[a].kind = "none" /\ Active(a)
  /\ RoSpends
  /\ roLive' = [roLive EXCEPT ![a] = @ \ roKept[a]]
  /\ roKept' = [roKept EXCEPT ![a] = {}]
  /\ roRoutes' = [roRoutes EXCEPT ![a] = {}]
  /\ roSound' = [roSound EXCEPT ![a] = FALSE]
  /\ UNCHANGED <<roPool, roRefs, roCall, roPub>>

(***************************************************************************)
(* publish_event.  Each endpoint is retained in turn, then written to      *)
(* concurrently until enough relays acknowledged, none is left or the      *)
(* deadline passes; then the retained ones are released in turn.           *)
(***************************************************************************)
PublishStarts(p) ==
  \E targets \in SUBSET RoRelays \ {{}} :
    /\ roPub[p].st = "none" /\ RoSpends
    /\ roPub' = [roPub EXCEPT ![p] =
         [st |-> "retain", left |-> targets, held |-> {}, sent |-> {}]]
    /\ UNCHANGED <<roPool, roRefs, roRoutes, roLive, roKept, roCall, roSound>>

\* retain_publish_relay: a relay other publishes hold is counted again, one
\* that is in the pool for reading is used as it is, an absent one is added
\* for writing.
RetainPublishRelay(p, r) ==
  /\ roPub[p].st = "retain" /\ r \in roPub[p].left
  /\ \/ /\ roRefs[r] > 0 \/ roPool[r] = "absent"
        /\ roRefs' = [roRefs EXCEPT ![r] = @ + 1]
        /\ roPool' = [roPool EXCEPT ![r] = IF @ = "absent" THEN "write" ELSE @]
        /\ roPub' = [roPub EXCEPT ![p].left = @ \ {r}, ![p].held = @ \cup {r},
                                  ![p].sent = @ \cup {r}]
     \/ /\ roRefs[r] = 0 /\ roPool[r] # "absent"
        /\ roPub' = [roPub EXCEPT ![p].left = @ \ {r},
                                  ![p].sent = @ \cup {r}]
        /\ UNCHANGED <<roRefs, roPool>>
  /\ UNCHANGED <<roRoutes, roLive, roKept, roCall, roSound, roCount>>

\* add_write_relay refused: the endpoint counts as failed.
RetainFails(p, r) ==
  /\ roPub[p].st = "retain" /\ r \in roPub[p].left
  /\ roRefs[r] = 0 /\ roPool[r] = "absent"
  /\ RoSpends
  /\ roPub' = [roPub EXCEPT ![p].left = @ \ {r}]
  /\ UNCHANGED <<roPool, roRefs, roRoutes, roLive, roKept, roCall, roSound>>

\* The sends are over: every relay answered, the goal is met, or the deadline
\* aborted the rest.  What was accepted is the caller's business; the relays
\* are let go either way.
SendsEnd(p) ==
  /\ roPub[p].st = "retain" /\ roPub[p].left = {}
  /\ roPub' = [roPub EXCEPT ![p].st = "release", ![p].left = roPub[p].held,
                            ![p].sent = {}]
  /\ UNCHANGED <<roPool, roRefs, roRoutes, roLive, roKept, roCall, roSound,
                 roCount>>

AlwaysRemoved(r) == "absent"
\* Whether the last reference takes the relay out of the pool: not when a
\* subscription made it readable meanwhile.
AfterLastRelease(r) == IF roPool[r] = "read" THEN "read" ELSE "absent"

AnyHolder(r) == TRUE
LastHolder(r) == roRefs[r] = 1

\* release_publish_relay.
ReleasePublishRelay(p, r) ==
  /\ roPub[p].st = "release" /\ r \in roPub[p].left
  /\ roRefs' = [roRefs EXCEPT ![r] = @ - 1]
  /\ roPool' = [roPool EXCEPT ![r] =
       IF LastHolder(r) THEN AfterLastRelease(r) ELSE @]
  /\ roPub' = [roPub EXCEPT ![p].left = @ \ {r}]
  /\ UNCHANGED <<roRoutes, roLive, roKept, roCall, roSound, roCount>>

PublishEnds(p) ==
  /\ roPub[p].st = "release" /\ roPub[p].left = {}
  /\ roPub' = [roPub EXCEPT ![p] = NoPublish]
  /\ UNCHANGED <<roPool, roRefs, roRoutes, roLive, roKept, roCall, roSound,
                 roCount>>

RoNext ==
  \/ \E a \in RoAccounts :
       \/ ActivateStarts(a) \/ SyncStarts(a) \/ SubscribeFails(a)
       \/ CallEnds(a) \/ DeactivateAccount(a)
       \/ \E s \in RoSubs : AddsRelay(a, s) \/ Registers(a, s) \/ Remembers(a, s)
  \/ \E p \in RoPublishers :
       \/ PublishStarts(p) \/ SendsEnd(p) \/ PublishEnds(p)
       \/ \E r \in RoRelays :
            \/ RetainPublishRelay(p, r) \/ RetainFails(p, r)
            \/ ReleasePublishRelay(p, r)

RoSpec == RoInit /\ [][RoNext]_roVars

RoTypeOK ==
  /\ roPool \in [RoRelays -> {"absent", "write", "read"}]
  /\ roRefs \in [RoRelays -> 0..Cardinality(RoPublishers)]
  /\ roRoutes \in [RoAccounts -> SUBSET RoSubs]
  /\ roLive \in [RoAccounts -> SUBSET RoSubs]
  /\ roKept \in [RoAccounts -> SUBSET RoSubs]
  /\ roSound \in [RoAccounts -> BOOLEAN]
  /\ \A p \in RoPublishers : roPub[p].st \in {"none", "retain", "release"}
  /\ \A a \in RoAccounts : roCall[a].kind \in {"none", "activate", "sync"}

(***************************************************************************)
(* Properties                                                              *)
(***************************************************************************)

\* An account whose last activation succeeded, with no call in flight, has a
\* registered and remembered subscription behind every route, on a relay that
\* is in the pool for reading: neither a group moving to another relay nor a
\* publish finishing on the same relay takes it away.
RoutesAreFed ==
  \A a \in RoAccounts :
    (roSound[a] /\ roCall[a].kind = "none") =>
      /\ roRoutes[a] \subseteq roLive[a] \cap roKept[a]
      /\ \A s \in roRoutes[a] : roPool[s[2]] = "read"

\* A relay that was only written to is in the pool exactly as long as some
\* publish holds it, and a publish never loses the relay it is sending to.
WriteRelaysAreHeld ==
  /\ \A r \in RoRelays :
       /\ roPool[r] = "write" => roRefs[r] > 0
       /\ roRefs[r] = Cardinality({p \in RoPublishers :
            r \in roPub[p].held /\ (roPub[p].st = "release" => r \in roPub[p].left)})
  /\ \A p \in RoPublishers : \A r \in roPub[p].sent : roPool[r] # "absent"

-----------------------------------------------------------------------------
(***************************************************************************)
(* The shared relay plane: the way of a group message from a relay to the  *)
(* account workers of one process.  The notification forwarder takes the   *)
(* pool's events one by one, asks the adapter's routes which accounts they *)
(* are for and awaits room in the adapter's delivery queue; the router     *)
(* fans that queue out to the accounts' queues without waiting; a worker   *)
(* receives, ingests and moves its persisted cursor.  An activation        *)
(* subscribes from the cursor less a lookback, and installs the account's  *)
(* routes only once the subscription is out.                               *)
(*                                                                         *)
(* An event is its created_at.  Events reach the relay at most RpLookback  *)
(* late.  The pool is external: it hands over every matching event of a    *)
(* new subscription and then the live ones, in the relay's order.          *)
(***************************************************************************)

CONSTANTS RpAccounts, RpEvents, RpLookback, RpDeliveryBuffer, RpAccountBuffer,
          RpStalled, RpMaxOpens, RpMaxFails

\* Events are timestamps, counted from 1.
ASSUME RpAssumption == RpEvents \subseteq Nat \ {0} /\ RpLookback \in Nat

VARIABLES
  rpStore,   \* events the relay has
  rpSince,   \* account -> the since its subscription was issued with, if any
  rpRouted,  \* accounts the adapter's state has routes for
  rpOpen,    \* account -> "down", "subscribing", "routing" or "up"
  rpCursor,  \* account -> its persisted transport cursor
  rpNotes,   \* events the pool has notified and nobody has taken
  rpSend,    \* the forwarder's event and the accounts it still goes to
  rpQueue,   \* the adapter's delivery queue
  rpInbox,   \* account -> its delivery queue
  rpGot,     \* account -> events ingested
  rpLost,    \* account -> events dropped on the way to it
  rpJumped,  \* accounts whose cursor passed an event still on its way by
             \* more than the lookback
  rpCount

rpVars == <<rpStore, rpSince, rpRouted, rpOpen, rpCursor, rpNotes, rpSend,
            rpQueue, rpInbox, rpGot, rpLost, rpJumped, rpCount>>
rpPipe == <<rpNotes, rpSend, rpQueue, rpInbox>>

NotSubscribed == -1
NoEvent == [event |-> 0, to |-> {}]

RpInit ==
  /\ rpStore = {}
  /\ rpSince = [a \in RpAccounts |-> NotSubscribed]
  /\ rpRouted = {}
  /\ rpOpen = [a \in RpAccounts |-> "down"]
  /\ rpCursor = [a \in RpAccounts |-> 0]
  /\ rpNotes = <<>> /\ rpSend = NoEvent /\ rpQueue = <<>>
  /\ rpInbox = [a \in RpAccounts |-> <<>>]
  /\ rpGot = [a \in RpAccounts |-> {}]
  /\ rpLost = [a \in RpAccounts |-> {}]
  /\ rpJumped = {}
  /\ rpCount = [opens |-> 0, fails |-> 0]

\* Accounts whose subscription matches an event.
Matching(e) == {a \in RpAccounts : rpSince[a] \in 0 .. e}

\* A sender's event reaches the relay, and the pool if some account asked.
RelayStores(e) ==
  /\ e \notin rpStore
  /\ \A f \in rpStore : f <= e + RpLookback
  /\ rpStore' = rpStore \cup {e}
  /\ rpNotes' = IF Matching(e) # {} THEN Append(rpNotes, e) ELSE rpNotes
  /\ UNCHANGED <<rpJumped, rpSince, rpRouted, rpOpen, rpCursor, rpSend, rpQueue,
                 rpInbox, rpGot, rpLost, rpCount>>

RebuildFromCursor(cursor) == cursor
\* subscription_rebuild_since: the cursor less the lookback, saturating; with
\* no cursor, everything.
SubscriptionRebuildSince(cursor) ==
  IF cursor > RpLookback THEN cursor - RpLookback ELSE 0

\* A worker opens the account (a new delivery queue takes the old one's place)
\* or, up and running, calls sync: either way activate_account first drops the
\* subscriptions of an account it knows.
ActivationStarts(a) ==
  /\ rpOpen[a] \in {"down", "up"} /\ rpCount.opens < RpMaxOpens
  /\ rpCount' = [rpCount EXCEPT !.opens = @ + 1]
  /\ rpInbox' = [rpInbox EXCEPT ![a] = IF rpOpen[a] = "down" THEN <<>> ELSE @]
  /\ rpSince' = [rpSince EXCEPT ![a] = NotSubscribed]
  /\ rpOpen' = [rpOpen EXCEPT ![a] = "subscribing"]
  /\ UNCHANGED <<rpJumped, rpStore, rpRouted, rpCursor, rpNotes, rpSend, rpQueue,
                 rpGot, rpLost>>

\* The members of a finite set of events, oldest first.
OldestFirst(S) ==
  {q \in [1..Cardinality(S) -> S] :
     Range(q) = S /\ \A i, j \in DOMAIN q : i < j => q[i] < q[j]}

\* subscribe_all: the relay answers with what it has.
ActivationSubscribes(a) ==
  LET since == SubscriptionRebuildSince(rpCursor[a]) IN
  /\ rpOpen[a] = "subscribing"
  /\ rpSince' = [rpSince EXCEPT ![a] = since]
  /\ \E answer \in OldestFirst({e \in rpStore : e >= since}) :
       rpNotes' = rpNotes \o answer
  /\ rpOpen' = [rpOpen EXCEPT ![a] = "routing"]
  /\ UNCHANGED <<rpJumped, rpStore, rpRouted, rpCursor, rpSend, rpQueue, rpInbox,
                 rpGot, rpLost, rpCount>>

\* No relay takes the subscription: the worker is told, and tries again later.
ActivationFails(a) ==
  /\ rpOpen[a] = "subscribing" /\ rpCount.fails < RpMaxFails
  /\ rpCount' = [rpCount EXCEPT !.fails = @ + 1]
  /\ rpOpen' = [rpOpen EXCEPT ![a] = "down"]
  /\ UNCHANGED <<rpJumped, rpStore, rpSince, rpRouted, rpCursor, rpGot, rpLost, rpPipe>>

\* AdapterState::activate.
ActivationRoutes(a) ==
  /\ rpOpen[a] = "routing"
  /\ rpRouted' = rpRouted \cup {a}
  /\ rpOpen' = [rpOpen EXCEPT ![a] = "up"]
  /\ UNCHANGED <<rpJumped, rpStore, rpSince, rpCursor, rpGot, rpLost, rpCount, rpPipe>>

\* The worker goes down with what its queue holds; subscriptions and routes
\* stay until the next activation.
WorkerGoesDown(a) ==
  /\ rpOpen[a] = "up" /\ rpCount.fails < RpMaxFails
  /\ rpCount' = [rpCount EXCEPT !.fails = @ + 1]
  /\ rpOpen' = [rpOpen EXCEPT ![a] = "down"]
  /\ rpInbox' = [rpInbox EXCEPT ![a] = <<>>]
  /\ UNCHANGED <<rpJumped, rpStore, rpSince, rpRouted, rpCursor, rpNotes, rpSend,
                 rpQueue, rpGot, rpLost>>

\* handle_relay_event, first half: the routes are read.  An account that asked
\* for the event and is not routed yet misses it.
ForwarderTakes ==
  /\ rpSend.to = {} /\ rpNotes # <<>>
  /\ LET e == Head(rpNotes) IN
     /\ rpSend' = [event |-> e, to |-> rpRouted]
     /\ rpLost' = [a \in RpAccounts |->
          IF a \in Matching(e) \ rpRouted THEN rpLost[a] \cup {e}
          ELSE rpLost[a]]
  /\ rpNotes' = Tail(rpNotes)
  /\ UNCHANGED <<rpJumped, rpStore, rpSince, rpRouted, rpOpen, rpCursor, rpQueue,
                 rpInbox, rpGot, rpCount>>

\* Mutant: the send does not wait for room.
ForwarderSendsUnbounded(a) ==
  /\ a \in rpSend.to
  /\ rpQueue' = Append(rpQueue, [event |-> rpSend.event, for |-> a])
  /\ rpSend' = IF rpSend.to = {a} THEN NoEvent
               ELSE [rpSend EXCEPT !.to = @ \ {a}]
  /\ UNCHANGED <<rpJumped, rpStore, rpSince, rpRouted, rpOpen, rpCursor, rpNotes,
                 rpInbox, rpGot, rpLost, rpCount>>

\* Second half: one awaited send per route.
ForwarderSends(a) ==
  /\ a \in rpSend.to /\ Len(rpQueue) < RpDeliveryBuffer
  /\ rpQueue' = Append(rpQueue, [event |-> rpSend.event, for |-> a])
  /\ rpSend' = IF rpSend.to = {a} THEN NoEvent
               ELSE [rpSend EXCEPT !.to = @ \ {a}]
  /\ UNCHANGED <<rpJumped, rpStore, rpSince, rpRouted, rpOpen, rpCursor, rpNotes,
                 rpInbox, rpGot, rpLost, rpCount>>

WaitsForRoom(a) == Len(rpInbox[a]) < RpAccountBuffer
\* The router uses try_send: it never waits for an account.
RouterReady(a) == TRUE

\* The router task.  A full queue, or one whose receiver is gone, costs the
\* delivery.
RouterMoves ==
  /\ rpQueue # <<>>
  /\ LET d == Head(rpQueue) IN
     /\ RouterReady(d.for)
     /\ IF rpOpen[d.for] = "down"
        THEN UNCHANGED <<rpInbox, rpLost>>
        ELSE IF Len(rpInbox[d.for]) < RpAccountBuffer
        THEN /\ rpInbox' = [rpInbox EXCEPT ![d.for] = Append(@, d.event)]
             /\ UNCHANGED rpLost
        ELSE /\ rpLost' = [rpLost EXCEPT ![d.for] = @ \cup {d.event}]
             /\ UNCHANGED rpInbox
  /\ rpQueue' = Tail(rpQueue)
  /\ UNCHANGED <<rpJumped, rpStore, rpSince, rpRouted, rpOpen, rpCursor, rpNotes,
                 rpSend, rpGot, rpCount>>

\* The worker ingests a delivery and saves the moved cursor.
WorkerReceives(a) ==
  /\ rpOpen[a] = "up" /\ rpInbox[a] # <<>>
  /\ rpGot' = [rpGot EXCEPT ![a] = @ \cup {Head(rpInbox[a])}]
  /\ rpCursor' = [rpCursor EXCEPT ![a] =
       IF Head(rpInbox[a]) > @ THEN Head(rpInbox[a]) ELSE @]
  /\ rpInbox' = [rpInbox EXCEPT ![a] = Tail(@)]
  /\ rpJumped' = IF \E f \in rpStore \ rpGot[a] :
                        f + RpLookback < Head(rpInbox[a])
                 THEN rpJumped \cup {a} ELSE rpJumped
  /\ UNCHANGED <<rpStore, rpSince, rpRouted, rpOpen, rpNotes, rpSend,
                 rpQueue, rpLost, rpCount>>

RpNext ==
  \/ \E e \in RpEvents : RelayStores(e)
  \/ \E a \in RpAccounts :
       \/ ActivationStarts(a) \/ ActivationSubscribes(a) \/ ActivationFails(a)
       \/ ActivationRoutes(a) \/ WorkerGoesDown(a) \/ ForwarderSends(a)
       \/ WorkerReceives(a)
  \/ ForwarderTakes
  \/ RouterMoves

\* The tasks of the plane are scheduled; the worker of a stalled account may
\* never be.
RpFairness ==
  /\ WF_rpVars(ForwarderTakes)
  /\ WF_rpVars(RouterMoves)
  /\ \A a \in RpAccounts : WF_rpVars(ForwarderSends(a))
  /\ \A a \in RpAccounts \ {RpStalled} : WF_rpVars(WorkerReceives(a))

RpSpec == RpInit /\ [][RpNext]_rpVars

RpTypeOK ==
  /\ rpStore \subseteq RpEvents
  /\ rpRouted \subseteq RpAccounts
  /\ rpOpen \in [RpAccounts -> {"down", "subscribing", "routing", "up"}]
  /\ rpCursor \in [RpAccounts -> RpEvents \cup {0}]
  /\ rpNotes \in Seq(RpEvents)
  /\ Len(rpQueue) <= RpDeliveryBuffer
  /\ \A a \in RpAccounts : Len(rpInbox[a]) <= RpAccountBuffer
  /\ rpGot \in [RpAccounts -> SUBSET RpEvents]
  /\ rpJumped \subseteq RpAccounts
  /\ rpLost \in [RpAccounts -> SUBSET RpEvents]

(***************************************************************************)
(* Properties                                                              *)
(***************************************************************************)

\* The account is up, subscribed and routed, and nothing is on its way.
CaughtUp(a) ==
  /\ rpOpen[a] = "up" /\ rpNotes = <<>> /\ rpSend = NoEvent /\ rpQueue = <<>>
  /\ rpInbox[a] = <<>>

\* An account that is caught up has every event of the relay, through any
\* restarts of its worker and events that came late, unless a delivery to it
\* was dropped, by a full queue or for want of a route, or its cursor moved on
\* while an event older than the lookback was still on its way.
CaughtUpHasAll ==
  \A a \in RpAccounts :
    (CaughtUp(a) /\ rpLost[a] = {} /\ a \notin rpJumped) => rpStore \subseteq rpGot[a]

\* Routes are fed, write relays are held, and who is caught up has everything.
DeliverySound == RoutesAreFed /\ WriteRelaysAreHeld /\ CaughtUpHasAll

\* An account that never takes its deliveries does not keep the others from
\* theirs: what is queued for another account leaves the plane.
OthersStillFed ==
  \A a \in RpAccounts \ {RpStalled}, e \in RpEvents :
    (rpSend.event = e /\ a \in rpSend.to)
      ~> (e \in rpGot[a] \cup rpLost[a] \/ rpOpen[a] # "up")

=============================================================================
