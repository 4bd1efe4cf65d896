----------------------------- MODULE Directory -----------------------------
(***************************************************************************)
(* The user directory: records about other users kept in a shared store    *)
(* and in the account's cache, the worker that keeps relay subscriptions   *)
(* on every known user, and the coalesced relay fetches.                   *)
(*                                                                         *)
(* A record is the age of the newest thing it carries (its profile or key  *)
(* package): records are compared by it as a whole.  Callers run on        *)
(* several threads; each reads a record, changes it and saves it in two    *)
(* stores, and a changed record asks the sync worker for a rebuild.  The   *)
(* users of one subscription batch stand for its id, a digest of them.     *)
(***************************************************************************)
EXTENDS Integers

CONSTANTS DyUsers, DyAges, DyWriters, DyCallers, DyChannel,
          DyMaxSaves, DyMaxFetches, DyMaxFaults

\* Ages are timestamps, and the worker's channel has room for a command.
ASSUME DyAssumption == DyAges \subseteq Nat /\ DyChannel \in Nat \ {0}

VARIABLES
  dyShared,  \* user -> record in the shared store
  dyCache,   \* user -> record in the account's directory cache
  dyEdges,   \* users seen only as a follow in the search graph
  dyWriter,  \* writer -> its read-modify-write in flight
  dyQueued,  \* the rebuild_queued flag
  dyChan,    \* rebuild commands in the worker's channel
  dyWorker,  \* "idle", "plan" or "subscribe"
  dyPlan,    \* the users of the plan the worker carries out
  dyActive,  \* users of the accepted subscriptions
  dyLive,    \* batches subscribed at the relays
  dyFailed,  \* the last rebuild failed
  dyFetch,   \* the shared fetch: state, first caller, registered waiters
  dyCaller,  \* caller -> "idle" or "waiting"
  dyCount

dyStores == <<dyShared, dyCache, dyEdges>>
dySync == <<dyQueued, dyChan, dyWorker, dyPlan, dyActive, dyLive, dyFailed>>
dyFetches == <<dyFetch, dyCaller>>
dyVars == <<dyStores, dyWriter, dySync, dyFetches, dyCount>>

Missing == -1
NoSave == [st |-> "idle", user |-> Missing, age |-> Missing]
NoFetch == [st |-> "none", owner |-> Missing, waiters |-> {}]

DyInit ==
  /\ dyShared = [u \in DyUsers |-> Missing]
  /\ dyCache = [u \in DyUsers |-> Missing]
  /\ dyEdges = {}
  /\ dyWriter = [w \in DyWriters |-> NoSave]
  /\ dyQueued = FALSE /\ dyChan = 1 /\ dyWorker = "idle"
  /\ dyPlan = {} /\ dyActive = {} /\ dyLive = {} /\ dyFailed = TRUE
  /\ dyFetch = NoFetch
  /\ dyCaller = [c \in DyCallers |-> "idle"]
  /\ dyCount = [saves |-> 0, fetches |-> 0, faults |-> 0]

DyFault == /\ dyCount.faults < DyMaxFaults
           /\ dyCount' = [dyCount EXCEPT !.faults = @ + 1]

\* select_newer_directory_entry: the shared record only when strictly newer.
SelectNewer(cached, shared) ==
  IF cached = Missing \/ shared > cached THEN shared ELSE cached

Entry(u) == SelectNewer(dyCache[u], dyShared[u])
KnownUsers == {u \in DyUsers : Entry(u) # Missing}

(***************************************************************************)
(* Remembering something about a user.                                     *)
(***************************************************************************)

\* The remember_directory_* family: read the record, or start an empty one,
\* and change it.  A live profile no newer than the cached one is dropped; a
\* fetched one, relay lists and follow lists are taken as they are.
RememberUser(w, u, age) ==
  /\ dyWriter[w].st = "idle" /\ dyCount.saves < DyMaxSaves
  /\ dyCount' = [dyCount EXCEPT !.saves = @ + 1]
  /\ \/ dyWriter' = [dyWriter EXCEPT ![w] =
           [st |-> "compare", user |-> u, age |-> age]]
     \/ /\ Entry(u) < age
        /\ dyWriter' = [dyWriter EXCEPT ![w] =
             [st |-> "compare", user |-> u, age |-> age]]
     \/ /\ Entry(u) >= age
        /\ UNCHANGED dyWriter
  /\ UNCHANGED <<dyStores, dySync, dyFetches>>

\* A remote contact list goes to the search graph; its follows do not become
\* known users.
IngestsContactList(u) ==
  /\ u \notin dyEdges /\ dyCount.saves < DyMaxSaves
  /\ dyCount' = [dyCount EXCEPT !.saves = @ + 1]
  /\ dyEdges' = dyEdges \cup {u}
  /\ UNCHANGED <<dyShared, dyCache, dyWriter, dySync, dyFetches>>

\* save_directory_entry: the shared record wins if newer; when both stores
\* already agree nothing is written.
SaveCompares(w) ==
  LET u == dyWriter[w].user
      chosen == SelectNewer(dyWriter[w].age, dyShared[u]) IN
  /\ dyWriter[w].st = "compare"
  /\ dyWriter' = [dyWriter EXCEPT ![w] =
       IF dyShared[u] = chosen /\ dyCache[u] = chosen THEN NoSave
       ELSE [@ EXCEPT !.st = "shared", !.age = chosen]]
  /\ UNCHANGED <<dyStores, dySync, dyFetches, dyCount>>

SavePutsShared(w) ==
  /\ dyWriter[w].st = "shared"
  /\ dyShared' = [dyShared EXCEPT ![dyWriter[w].user] = dyWriter[w].age]
  /\ dyWriter' = [dyWriter EXCEPT ![w].st = "cache"]
  /\ UNCHANGED <<dyCache, dyEdges, dySync, dyFetches, dyCount>>

SavePutsCache(w) ==
  /\ dyWriter[w].st = "cache"
  /\ dyCache' = [dyCache EXCEPT ![dyWriter[w].user] = dyWriter[w].age]
  /\ dyWriter' = [dyWriter EXCEPT ![w].st = "request"]
  /\ UNCHANGED <<dyShared, dyEdges, dySync, dyFetches, dyCount>>

\* request_rebuild: at most one background rebuild is queued, and a full
\* channel already holds one that will run later.
RequestRebuild(w) ==
  /\ dyWriter[w].st = "request"
  /\ dyWriter' = [dyWriter EXCEPT ![w] = NoSave]
  /\ dyQueued' = TRUE
  /\ dyChan' = IF ~dyQueued /\ dyChan < DyChannel THEN dyChan + 1 ELSE dyChan
  /\ UNCHANGED <<dyStores, dyWorker, dyPlan, dyActive, dyLive, dyFailed,
                 dyFetches, dyCount>>

(***************************************************************************)
(* The sync worker.                                                        *)
(***************************************************************************)

\* request_rebuild_and_wait.
ForegroundRebuild ==
  /\ dyChan < DyChannel /\ DyFault
  /\ dyChan' = dyChan + 1
  /\ UNCHANGED <<dyStores, dyWriter, dyQueued, dyWorker, dyPlan, dyActive,
                 dyLive, dyFailed, dyFetches>>

FlagKept(queued) == queued
\* The flag is cleared when the command is taken, before the plan is read.
FlagWhenTaken(queued) == FALSE

WorkerTakes ==
  /\ dyWorker = "idle" /\ dyChan > 0
  /\ dyChan' = dyChan - 1
  /\ dyQueued' = FlagWhenTaken(dyQueued)
  /\ dyWorker' = "plan"
  /\ UNCHANGED <<dyStores, dyWriter, dyPlan, dyActive, dyLive, dyFailed,
                 dyFetches, dyCount>>

\* directory_sync_plan: every user with a record in either store.
WorkerPlans ==
  /\ dyWorker = "plan"
  /\ dyPlan' = KnownUsers
  /\ dyWorker' = "subscribe"
  /\ UNCHANGED <<dyStores, dyWriter, dyQueued, dyChan, dyActive, dyLive,
                 dyFailed, dyFetches, dyCount>>

\* sync_directory_user_subscriptions: the batches no longer wanted are
\* dropped, the new ones subscribed, then the accepted filters replaced.
WorkerSubscribes ==
  /\ dyWorker = "subscribe"
  /\ dyLive' = (dyLive \ ({dyActive} \ {dyPlan}))
                 \cup (IF dyPlan = {} THEN {} ELSE {dyPlan} \ {dyActive})
  /\ dyActive' = dyPlan
  /\ dyFailed' = FALSE /\ dyWorker' = "idle"
  /\ UNCHANGED <<dyStores, dyWriter, dyQueued, dyChan, dyPlan, dyFetches,
                 dyCount>>

\* A relay cannot be reached, or refuses a subscription once the stale ones
\* are gone: the old filters stay and nobody asks again.
WorkerFails ==
  /\ dyWorker = "subscribe" /\ DyFault
  /\ \/ UNCHANGED dyLive
     \/ dyLive' = dyLive \ ({dyActive} \ {dyPlan})
  /\ dyFailed' = TRUE /\ dyWorker' = "idle"
  /\ UNCHANGED <<dyStores, dyWriter, dyQueued, dyChan, dyPlan, dyActive,
                 dyFetches>>

(***************************************************************************)
(* DirectoryRelayPlane::fetch_events.  Callers with the same request share *)
(* one fetch, which a task of its own carries out.                         *)
(***************************************************************************)
FetchRequested(c) ==
  /\ dyCaller[c] = "idle" /\ dyCount.fetches < DyMaxFetches
  /\ dyCount' = [dyCount EXCEPT !.fetches = @ + 1]
  /\ dyCaller' = [dyCaller EXCEPT ![c] = "waiting"]
  /\ dyFetch' = IF dyFetch.st = "none"
                THEN [st |-> "running", owner |-> c, waiters |-> {c}]
                ELSE [dyFetch EXCEPT !.waiters = @ \cup {c}]
  /\ UNCHANGED <<dyStores, dyWriter, dySync>>

\* The answer, or the error, goes to everyone registered.
FetchAnswered ==
  /\ dyFetch.st = "running"
  /\ dyCaller' = [c \in DyCallers |->
       IF c \in dyFetch.waiters THEN "idle" ELSE dyCaller[c]]
  /\ dyFetch' = NoFetch
  /\ UNCHANGED <<dyStores, dyWriter, dySync, dyCount>>

DiesWithOwner(c) == IF dyFetch.owner = c THEN "dead" ELSE dyFetch.st
\* A caller that goes away leaves the fetch running.
SurvivesCaller(c) == dyFetch.st

CallerGoesAway(c) ==
  /\ dyCaller[c] = "waiting"
  /\ dyCaller' = [dyCaller EXCEPT ![c] = "idle"]
  /\ dyFetch' = [dyFetch EXCEPT !.st = SurvivesCaller(c),
                                !.waiters = @ \ {c}]
  /\ UNCHANGED <<dyStores, dyWriter, dySync, dyCount>>

\* The process stops; started again it asks for a rebuild.
DyRestart ==
  /\ DyFault
  /\ dyWriter' = [w \in DyWriters |-> NoSave]
  /\ dyQueued' = FALSE /\ dyChan' = 1 /\ dyWorker' = "idle" /\ dyPlan' = {}
  /\ dyActive' = {} /\ dyLive' = {} /\ dyFailed' = TRUE
  /\ dyFetch' = NoFetch
  /\ dyCaller' = [c \in DyCallers |-> "idle"]
  /\ UNCHANGED dyStores

DySyncNext ==
  \/ \E w \in DyWriters :
       \/ \E u \in DyUsers, age \in DyAges : RememberUser(w, u, age)
       \/ SaveCompares(w) \/ SavePutsShared(w) \/ SavePutsCache(w)
       \/ RequestRebuild(w)
  \/ \E u \in DyUsers : IngestsContactList(u)
  \/ ForegroundRebuild \/ WorkerTakes \/ WorkerPlans \/ WorkerSubscribes
  \/ WorkerFails \/ DyRestart

DyFetchNext ==
  \/ \E c \in DyCallers : FetchRequested(c) \/ CallerGoesAway(c)
  \/ FetchAnswered

DySpec == DyInit /\ [][DySyncNext \/ DyFetchNext]_dyVars

DyTypeOK ==
  /\ dyShared \in [DyUsers -> DyAges \cup {Missing}]
  /\ dyCache \in [DyUsers -> DyAges \cup {Missing}]
  /\ dyEdges \subseteq DyUsers
  /\ dyQueued \in BOOLEAN /\ dyChan \in 0..DyChannel
  /\ dyWorker \in {"idle", "plan", "subscribe"}
  /\ dyActive \subseteq DyUsers /\ dyLive \subseteq SUBSET DyUsers
  /\ dyFailed \in BOOLEAN
  /\ dyCaller \in [DyCallers -> {"idle", "waiting"}]

(***************************************************************************)
(* Properties                                                              *)
(***************************************************************************)

\* Once every writer is done and no rebuild is queued or running, the last
\* one having succeeded, exactly the known users are watched, however writes
\* and rebuilds overlapped: the coalescing flag loses no change, and a user
\* seen only in a contact list is not watched.
KnownAreWatched ==
  (dyChan = 0 /\ dyWorker = "idle" /\ ~dyFailed
    /\ \A w \in DyWriters : dyWriter[w].st = "idle") =>
      /\ dyActive = KnownUsers
      /\ dyActive # {} => dyActive \in dyLive

\* A caller waiting for directory events is registered with a fetch that is
\* still running, whoever of its callers went away.
WaitersAreServed ==
  \A c \in DyCallers : dyCaller[c] = "waiting" =>
    dyFetch.st = "running" /\ c \in dyFetch.waiters

\* Known users are watched and waiting callers served.
DirectorySound == KnownAreWatched /\ WaitersAreServed
=============================================================================
