--------------------------- MODULE RuntimeWorkers ---------------------------
(***************************************************************************)
(* The application runtime and its account workers, in two parts that      *)
(* share no state: the management of accounts, and the calls a worker      *)
(* answers.                                                                *)
(***************************************************************************)
EXTENDS Integers, Sequences, FiniteSets, SequencesExt

(***************************************************************************)
(* The account manager of the application runtime                          *)
(* (crates/marmot-app/src/runtime/mod.rs, crates/marmot-account/src/       *)
(* home.rs): which accounts have a worker.  Calls of the embedding         *)
(* application run side by side; the worker map has a lock, which sign-out *)
(* and removal hold across their awaits and reconcile takes twice, after   *)
(* it has read the account records.                                        *)
(***************************************************************************)

CONSTANTS RaAccounts,
          RaMaxOps, RaMaxWorkers      \* bounds

VARIABLES raDisk,      \* account record: "absent", "active", "out"
          raMap,       \* workers: account -> index of its worker, or 0
          raWorkers,   \* sequence of [acct, at, stop]
          raOps,       \* calls in progress: sequence of [kind, acct, at, snap]
          raLock,      \* the call that holds the map's lock over an await, or 0
          raStopping   \* RuntimeLifecycle.stopping

raVars == <<raDisk, raMap, raWorkers, raOps, raLock, raStopping>>

RaInit == /\ raDisk = [a \in RaAccounts |-> "active"]
          /\ raMap = [a \in RaAccounts |-> 0]
          /\ raWorkers = <<>> /\ raOps = <<>> /\ raLock = 0
          /\ raStopping = FALSE

RaTo(o, at) == raOps' = [raOps EXCEPT ![o].at = at]

(* The worker gets its shutdown signal (or loses its sender).              *)
Signalled(workers, w) ==
    IF w = 0 THEN workers ELSE [workers EXCEPT ![w].stop = TRUE]

(* A public call passes ensure_running and starts; account_home().account  *)
(* finds the record, or for setup finds none (a signed-out record is taken *)
(* up again).                                                              *)
RaCall(kind, a) ==
    /\ Len(raOps) < RaMaxOps /\ ~raStopping
    /\ CASE kind = "setup"              -> raDisk[a] # "active"
         [] kind \in {"signout", "remove"} -> raDisk[a] # "absent"
         [] kind = "signin"             -> raDisk[a] = "out"
         [] OTHER                       -> TRUE
    /\ raOps' = Append(raOps, [kind |-> kind, acct |-> a, snap |-> {},
                               at |-> CASE kind = "reconcile" -> "list"
                                        [] kind = "shutdown"  -> "drain"
                                        [] OTHER              -> "start"])
    /\ raStopping' = (kind = "shutdown")
    /\ UNCHANGED <<raDisk, raMap, raWorkers, raLock>>

(* The public calls.  start and collect_notifications_after_wake           *)
(* reconcile; sign_out and sign_out_and_wipe do their best to delete the   *)
(* published key packages and push registration first, and a failure there *)
(* does not stop them.                                                     *)
Start(a) == RaCall("reconcile", a)
RestartWorker(a) == RaCall("restart", a)
SignIn(a) == RaCall("signin", a)
SignOut(a) == RaCall("signout", a)
SignOutAndWipe(a) == RaCall("remove", a)
CreateOrImportAccount(a) == RaCall("setup", a)
Shutdown(a) == RaCall("shutdown", a)

(* reconcile reads the active local-signing accounts.                      *)
ReconcileLists(o) ==
    /\ raOps[o].at = "list"
    /\ raOps' = IF raStopping THEN [raOps EXCEPT ![o].at = "done"]
                ELSE [raOps EXCEPT ![o].at = "prune",
                        ![o].snap = {a \in RaAccounts : raDisk[a] = "active"}]
    /\ UNCHANGED <<raDisk, raMap, raWorkers, raLock, raStopping>>

(* First lock: workers of other accounts and finished ones are dropped and *)
(* aborted; the accounts that have one are no longer pending.              *)
ReconcilePrunes(o) ==
    /\ raOps[o].at = "prune" /\ raLock = 0
    /\ LET stale == {a \in RaAccounts :
                       /\ raMap[a] # 0
                       /\ \/ a \notin raOps[o].snap
                          \/ raWorkers[raMap[a]].at = "ended"}
       IN  /\ raMap' = [a \in RaAccounts |-> IF a \in stale THEN 0 ELSE raMap[a]]
           /\ raWorkers' = [w \in DOMAIN raWorkers |->
                              IF \E a \in stale : raMap[a] = w
                              THEN [raWorkers[w] EXCEPT !.stop = TRUE]
                              ELSE raWorkers[w]]
           /\ raOps' = [raOps EXCEPT ![o].at = "spawn",
                          ![o].snap = {a \in @ : raMap[a] = 0 \/ a \in stale}]
    /\ UNCHANGED <<raDisk, raLock, raStopping>>

(* Second lock: a worker for every pending account that still has none.    *)
(* (The call then waits, with a timeout, until its workers are ready.)     *)
ReconcileSpawns(o) ==
    /\ raOps[o].at = "spawn" /\ raLock = 0
    /\ \E order \in SetToSeqs({a \in raOps[o].snap : raMap[a] = 0}) :
         /\ Len(raWorkers) + Len(order) <= RaMaxWorkers
         /\ raWorkers' = raWorkers \o [i \in DOMAIN order |->
                           [acct |-> order[i], at |-> "spawned", stop |-> FALSE]]
         /\ raMap' = [a \in RaAccounts |->
                        IF a \in ToSet(order)
                        THEN Len(raWorkers) + CHOOSE i \in DOMAIN order : order[i] = a
                        ELSE raMap[a]]
    /\ RaTo(o, "done")
    /\ UNCHANGED <<raDisk, raLock, raStopping>>

(* restart_account: the worker is dropped without waiting for its end.     *)
RestartAccount(o) ==
    /\ raOps[o].kind = "restart" /\ raOps[o].at = "start" /\ raLock = 0
    /\ raWorkers' = Signalled(raWorkers, raMap[raOps[o].acct])
    /\ raMap' = [raMap EXCEPT ![raOps[o].acct] = 0]
    /\ RaTo(o, "list")
    /\ UNCHANGED <<raDisk, raLock, raStopping>>

(* sign_in_account: the marker is cleared, then reconcile.                 *)
SignInAccount(o) ==
    /\ raOps[o].kind = "signin" /\ raOps[o].at = "start"
    /\ IF raDisk[raOps[o].acct] = "absent" THEN RaTo(o, "done") /\ UNCHANGED raDisk
       ELSE /\ raDisk' = [raDisk EXCEPT ![raOps[o].acct] = "active"]
            /\ RaTo(o, "list")
    /\ UNCHANGED <<raMap, raWorkers, raLock, raStopping>>

(* deactivate_account and remove_account take the lock, drop the worker    *)
(* and wait for its end; sign-out writes its marker first.                 *)
TeardownLocks(o) ==
    /\ raOps[o].kind \in {"signout", "remove"} /\ raOps[o].at = "start"
    /\ raLock = 0
    /\ LET a == raOps[o].acct
       IN  IF raDisk[a] = "absent"
           THEN RaTo(o, "done") /\ UNCHANGED <<raDisk, raMap, raWorkers, raLock>>
           ELSE /\ raLock' = o
                /\ raDisk' = [raDisk EXCEPT ![a] =
                                IF raOps[o].kind = "signout" THEN "out" ELSE @]
                /\ raWorkers' = Signalled(raWorkers, raMap[a])
                /\ raMap' = [raMap EXCEPT ![a] = 0]
                /\ raOps' = [raOps EXCEPT ![o].at = "wait",
                               ![o].snap = {raMap[a]} \ {0}]
    /\ UNCHANGED raStopping

(* Caches are dropped; a removal renames the directory away.               *)
TeardownEnds(o) ==
    /\ raOps[o].at = "wait" /\ raOps[o].kind \in {"signout", "remove"}
    /\ \A w \in raOps[o].snap : raWorkers[w].at = "ended"
    /\ raDisk' = [raDisk EXCEPT ![raOps[o].acct] =
                    IF raOps[o].kind = "remove" THEN "absent" ELSE @]
    /\ raLock' = 0 /\ RaTo(o, "done")
    /\ UNCHANGED <<raMap, raWorkers, raStopping>>

(* create_or_import_account: the record is written before the relay lists, *)
(* the profile and the key package are published.                          *)
SetupCreates(o) ==
    /\ raOps[o].kind = "setup" /\ raOps[o].at = "start"
    /\ CASE raDisk[raOps[o].acct] = "absent" ->
              /\ raDisk' = [raDisk EXCEPT ![raOps[o].acct] = "active"]
              /\ RaTo(o, "publish")
         [] raDisk[raOps[o].acct] = "out" ->
              RaTo(o, "reactivate") /\ UNCHANGED raDisk
         [] OTHER -> RaTo(o, "done") /\ UNCHANGED raDisk
    /\ UNCHANGED <<raMap, raWorkers, raLock, raStopping>>

(* Setup succeeds and clears a signed-out marker, or fails: a new record   *)
(* is rolled back without the map's lock; shutdown also ends it, and then  *)
(* the record stays.                                                       *)
SetupEnds(o) ==
    /\ raOps[o].at \in {"publish", "reactivate"}
    /\ \/ /\ ~raStopping /\ RaTo(o, "list")
          /\ raDisk' = [raDisk EXCEPT ![raOps[o].acct] =
                          IF raOps[o].at = "reactivate" /\ @ = "out" THEN "active"
                          ELSE @]
       \/ /\ RaTo(o, "done")
          /\ raDisk' = [raDisk EXCEPT ![raOps[o].acct] =
                          IF raOps[o].at = "publish" THEN "absent" ELSE @]
       \/ raStopping /\ RaTo(o, "done") /\ UNCHANGED raDisk
    /\ UNCHANGED <<raMap, raWorkers, raLock, raStopping>>

(* shutdown drains the map and waits for those workers, then for account   *)
(* opens still running on blocking threads.                                *)
ShutdownDrains(o) ==
    /\ raOps[o].at = "drain" /\ raLock = 0
    /\ raWorkers' = [w \in DOMAIN raWorkers |->
                       IF \E a \in RaAccounts : raMap[a] = w
                       THEN [raWorkers[w] EXCEPT !.stop = TRUE] ELSE raWorkers[w]]
    /\ raOps' = [raOps EXCEPT ![o].at = "join",
                   ![o].snap = {raMap[a] : a \in RaAccounts} \ {0}]
    /\ raMap' = [a \in RaAccounts |-> 0]
    /\ UNCHANGED <<raDisk, raLock, raStopping>>

RaOpens == {w \in DOMAIN raWorkers :
              raWorkers[w].at \in {"counted", "opening"}}

ShutdownJoins(o) ==
    /\ raOps[o].at = "join"
    /\ \A w \in raOps[o].snap : raWorkers[w].at = "ended"
    /\ RaOpens = {} /\ RaTo(o, "stopped")
    /\ UNCHANGED <<raDisk, raMap, raWorkers, raLock, raStopping>>
-----------------------------------------------------------------------------
(* Workers.                                                                *)

RaWorkerTo(w, at) == /\ raWorkers' = [raWorkers EXCEPT ![w].at = at]
                     /\ UNCHANGED <<raDisk, raMap, raOps, raLock, raStopping>>

(* begin_account_open: check, count, and check again.                      *)
OpenChecks(w) ==
    /\ raWorkers[w].at = "spawned"
    /\ RaWorkerTo(w, IF raStopping \/ raWorkers[w].stop THEN "ended" ELSE "checked")

OpenCounts(w) == raWorkers[w].at = "checked" /\ RaWorkerTo(w, "counted")

(* Mutant: the count alone announces the open.                             *)
OpenNoRecheck(w) == raWorkers[w].at = "counted" /\ RaWorkerTo(w, "opening")

OpenRechecks(w) ==
    /\ raWorkers[w].at = "counted"
    /\ RaWorkerTo(w, IF raStopping THEN "ended" ELSE "opening")

(* The blocking open cannot be aborted; the permit ends with it.           *)
OpenEnds(w) ==
    /\ raWorkers[w].at = "opening"
    /\ \E ok \in BOOLEAN :
         RaWorkerTo(w, IF /\ ok /\ ~raStopping /\ ~raWorkers[w].stop
                          /\ raDisk[raWorkers[w].acct] # "absent"
                       THEN "open" ELSE "ended")

(* The worker sees its own shutdown signal or that of the runtime, or its  *)
(* task fails.                                                             *)
WorkerEnds(w) == raWorkers[w].at = "open" /\ RaWorkerTo(w, "ended")

RaNext ==
    \/ \E a \in RaAccounts :
         \/ Start(a) \/ RestartWorker(a) \/ SignIn(a) \/ SignOut(a)
         \/ SignOutAndWipe(a) \/ CreateOrImportAccount(a) \/ Shutdown(a)
    \/ \E o \in DOMAIN raOps :
         \/ ReconcileLists(o) \/ ReconcilePrunes(o) \/ ReconcileSpawns(o)
         \/ RestartAccount(o) \/ SignInAccount(o) \/ TeardownLocks(o)
         \/ TeardownEnds(o) \/ SetupCreates(o) \/ SetupEnds(o)
         \/ ShutdownDrains(o) \/ ShutdownJoins(o)
    \/ \E w \in DOMAIN raWorkers :
         \/ OpenChecks(w) \/ OpenCounts(w) \/ OpenRechecks(w) \/ OpenEnds(w)
         \/ WorkerEnds(w)

RaTypeOK ==
    /\ raDisk \in [RaAccounts -> {"absent", "active", "out"}]
    /\ raMap \in [RaAccounts -> 0 .. Len(raWorkers)]
    /\ raLock \in 0 .. Len(raOps)
    /\ \A a \in RaAccounts : raMap[a] # 0 => raWorkers[raMap[a]].acct = a

(* When shutdown has returned, no account database is being opened, also   *)
(* not by a worker that a racing reconcile spawned after the map was       *)
(* drained, and the only ones still open belong to workers that were       *)
(* aborted earlier without being waited for (begin_account_open,           *)
(* wait_for_account_opens_to_drain, ManagedAccountWorker::stop).           *)
ShutdownQuiet ==
    (\E o \in DOMAIN raOps : raOps[o].at = "stopped") =>
        \A w \in DOMAIN raWorkers :
           /\ raWorkers[w].at # "opening"
           /\ raWorkers[w].at = "open" => raWorkers[w].stop

-----------------------------------------------------------------------------
(***************************************************************************)
(* The calls of the runtime that an account worker answers                 *)
(* (crates/marmot-app/src/runtime/commands.rs and the public wrappers of   *)
(* runtime/mod.rs).  A call looks up its worker, sends a command over the  *)
(* worker's bounded channel and awaits a one-shot reply; a call that       *)
(* changes a group then lets every account catch up.  The worker can be    *)
(* restarted or signed out at any point in between.  The archive flag of   *)
(* one group stands for the account state: a worker saves the state it     *)
(* loaded when it opened, a signed-out account is written directly.        *)
(***************************************************************************)

CONSTANTS WcCalls,                       \* calls of the application
          WcBuffer,                      \* commands a worker's channel holds
          WcMaxWorkers                   \* bound

VARIABLES wcCall,      \* each call: kind, value, progress, its worker
          wcApplied,   \* how often each call took effect
          wcWorkers,   \* workers ever spawned: progress and loaded state
          wcQueue,     \* commands sent to each worker, not yet taken
          wcMap,       \* the worker in the map, or 0
          wcOut,       \* the account is signed out
          wcDisk,      \* stored archive flag
          wcLast,      \* the value the last effective archive call gave
          wcRaced      \* a write met a worker that was on its way out or in

wcVars == <<wcCall, wcApplied, wcWorkers, wcQueue, wcMap, wcOut, wcDisk, wcLast,
            wcRaced>>

NotCalled == [kind |-> "none", val |-> FALSE, at |-> "idle", worker |-> 0,
              answer |-> "none"]

WcInit == /\ wcCall = [c \in WcCalls |-> NotCalled] /\ wcApplied = [c \in WcCalls |-> 0]
          /\ wcWorkers = <<>> /\ wcQueue = <<>> /\ wcMap = 0 /\ wcOut = FALSE
          /\ wcDisk = FALSE /\ wcLast = FALSE /\ wcRaced = FALSE

(* A call that is over keeps its outcome and, for a recovery that          *)
(* succeeded, that it was one.                                             *)
Over(call, at) ==
    IF call.kind = "hydrate" /\ call.answer = "ok"
    THEN [NotCalled EXCEPT !.at = at, !.kind = "hydrate", !.answer = "ok"]
    ELSE [NotCalled EXCEPT !.at = at]

(* A call forgets its worker once the command is sent.                     *)
CallTo(c, at) ==
    wcCall' = [wcCall EXCEPT ![c] = IF at \in {"ok", "err", "closed"} THEN Over(@, at)
                                    ELSE [@ EXCEPT !.at = at, !.worker = 0]]

Alive(w) == wcWorkers[w].at # "ended"

(* worker_commands refuses a signed-out account.  Calls are numbered in    *)
(* the order they are made.                                                *)
Asks(c, kind, val) ==
    /\ wcCall[c].at = "idle" /\ \A d \in WcCalls : d < c => wcCall[d].at # "idle"
    /\ wcCall' = [wcCall EXCEPT ![c] =
                    IF wcOut /\ kind # "archive" THEN Over(@, "err")
                    ELSE [kind |-> kind, val |-> val, worker |-> 0,
                          answer |-> "none",
                          at |-> IF wcOut THEN "direct" ELSE "reconcile"]]
    /\ UNCHANGED <<wcApplied, wcWorkers, wcQueue, wcMap, wcOut, wcDisk, wcLast,
                   wcRaced>>

(* group_members, group_mls_state, exporters, downloads, debug information. *)
ReadsGroup(c) == Asks(c, "plain", FALSE)
(* Messages, reactions, media, agent events, streams, push registrations   *)
(* and key packages: one command each, no catch-up afterwards.             *)
SendsMessage(c) == Asks(c, "plain", FALSE)
SendsMedia(c) == Asks(c, "plain", FALSE)
SendsAgentEvent(c) == Asks(c, "plain", FALSE)
SharesPush(c) == Asks(c, "plain", FALSE)
PublishesKeyPackage(c) == Asks(c, "plain", FALSE)
(* Creation, invites, removals, profile and admin changes: the accounts    *)
(* catch up afterwards and a failure of that fails the call.               *)
CreatesGroup(c) == Asks(c, "mutate", FALSE)
ChangesMembers(c) == Asks(c, "mutate", FALSE)
ChangesAdmins(c) == Asks(c, "mutate", FALSE)
ChangesProfile(c) == Asks(c, "mutate", FALSE)
RetriesHydration(c) == Asks(c, "hydrate", FALSE)
ArchivesGroup(c, v) == Asks(c, "archive", v)

(* reconcile spawns a worker when there is none or it has ended.           *)
Reconciles(c) ==
    /\ wcCall[c].at = "reconcile"
    /\ LET spawn == wcMap = 0 \/ ~Alive(wcMap)
           next == Append(wcWorkers, [at |-> "loading", stop |-> FALSE,
                                      mem |-> FALSE])
       IN  /\ spawn => Len(next) <= WcMaxWorkers
           /\ wcWorkers' = IF spawn THEN next ELSE wcWorkers
           /\ wcQueue' = IF spawn THEN Append(wcQueue, <<>>) ELSE wcQueue
           /\ wcMap' = IF spawn THEN Len(next) ELSE wcMap
    /\ CallTo(c, "lookup")
    /\ UNCHANGED <<wcApplied, wcOut, wcDisk, wcLast, wcRaced>>

(* Mutant: when the worker is not ready in time, the flag is written       *)
(* directly.                                                               *)
FallBackToDirectWrite(c) ==
    /\ wcCall[c].at = "lookup" /\ CallTo(c, "ok")
    /\ IF wcCall[c].kind = "archive"
       THEN wcDisk' = wcCall[c].val /\ wcLast' = wcCall[c].val
       ELSE UNCHANGED <<wcDisk, wcLast>>
    /\ wcApplied' = [wcApplied EXCEPT ![c] = @ + 1]
    /\ UNCHANGED <<wcWorkers, wcQueue, wcMap, wcOut, wcRaced>>

(* The worker is not ready in time, or its open failed: the error is       *)
(* propagated, also for set_group_archived.                                *)
WorkerNotReady(c) ==
    /\ wcCall[c].at = "lookup" /\ CallTo(c, "err")
    /\ UNCHANGED <<wcApplied, wcWorkers, wcQueue, wcMap, wcOut, wcDisk, wcLast,
                   wcRaced>>

(* The sender is cloned under the map's lock.                              *)
LooksUp(c) ==
    /\ wcCall[c].at = "lookup"
    /\ wcCall' = [wcCall EXCEPT ![c] =
                    IF wcMap = 0 THEN Over(@, "err")
                    ELSE [@ EXCEPT !.at = "send", !.worker = wcMap]]
    /\ UNCHANGED <<wcApplied, wcWorkers, wcQueue, wcMap, wcOut, wcDisk, wcLast,
                   wcRaced>>

(* send().await: room in the channel, or its receiver is gone.             *)
SendsCommand(c) ==
    /\ wcCall[c].at = "send"
    /\ LET w == wcCall[c].worker
       IN  IF Alive(w)
           THEN /\ Len(wcQueue[w]) < WcBuffer /\ CallTo(c, "sent")
                /\ wcQueue' = [wcQueue EXCEPT ![w] = Append(@, c)]
           ELSE CallTo(c, "closed") /\ UNCHANGED wcQueue
    /\ UNCHANGED <<wcApplied, wcWorkers, wcMap, wcOut, wcDisk, wcLast, wcRaced>>

(* open_account loads the stored state.                                    *)
WorkerLoads(w) ==
    /\ wcWorkers[w].at = "loading"
    /\ wcWorkers' = [wcWorkers EXCEPT ![w].at = "open", ![w].mem = wcDisk]
    /\ UNCHANGED <<wcCall, wcApplied, wcQueue, wcMap, wcOut, wcDisk, wcLast,
                   wcRaced>>

(* The worker applies the oldest command and replies.  An archive call     *)
(* changes the loaded state and saves it; a failed save undoes the change. *)
WorkerAnswers(w) ==
    /\ wcWorkers[w].at = "open" /\ wcQueue[w] # <<>>
    /\ LET c == Head(wcQueue[w])
       IN  \E ok \in BOOLEAN :
             /\ wcCall' = [wcCall EXCEPT ![c].at = "answered",
                             ![c].val = FALSE, ![c].answer = IF ok THEN "ok" ELSE "err"]
             /\ wcApplied' = [wcApplied EXCEPT ![c] = @ + IF ok THEN 1 ELSE 0]
             /\ IF ok /\ wcCall[c].kind = "archive"
                THEN /\ wcWorkers' = [wcWorkers EXCEPT ![w].mem = wcCall[c].val]
                     /\ wcDisk' = wcCall[c].val /\ wcLast' = wcCall[c].val
                     /\ wcRaced' = (wcRaced \/ wcWorkers[w].stop)
                ELSE UNCHANGED <<wcWorkers, wcDisk, wcLast, wcRaced>>
    /\ wcQueue' = [wcQueue EXCEPT ![w] = Tail(@)]
    /\ UNCHANGED <<wcMap, wcOut>>

(* An inbound delivery saves the whole loaded state.                       *)
DeliverySaves(w) ==
    /\ wcWorkers[w].at = "open"
    /\ wcDisk' = wcWorkers[w].mem
    /\ wcRaced' = (wcRaced \/ wcWorkers[w].stop)
    /\ UNCHANGED <<wcCall, wcApplied, wcWorkers, wcQueue, wcMap, wcOut, wcLast>>

(* restart_account drops the worker without waiting for its end.           *)
RestartsWorker ==
    /\ wcMap # 0 /\ wcMap' = 0
    /\ wcWorkers' = [wcWorkers EXCEPT ![wcMap].stop = TRUE]
    /\ UNCHANGED <<wcCall, wcApplied, wcQueue, wcOut, wcDisk, wcLast, wcRaced>>

(* sign_out writes the marker before it stops the worker; a sign-in clears *)
(* it and lets reconcile spawn the next worker.                            *)
SignsOutOrIn ==
    /\ wcOut' = ~wcOut /\ wcMap' = 0
    /\ wcWorkers' = IF wcMap = 0 THEN wcWorkers
                    ELSE [wcWorkers EXCEPT ![wcMap].stop = TRUE]
    /\ UNCHANGED <<wcCall, wcApplied, wcQueue, wcDisk, wcLast, wcRaced>>

(* A stopped or failed worker ends; its channel goes with it, and the      *)
(* callers whose commands were waiting get TransportClosed.                *)
WorkerGone(w) ==
    /\ Alive(w)
    /\ wcWorkers' = [wcWorkers EXCEPT ![w] = [at |-> "ended", stop |-> TRUE,
                                              mem |-> FALSE]]
    /\ wcQueue' = [wcQueue EXCEPT ![w] = <<>>]
    /\ wcCall' = [c \in WcCalls |->
                    IF c \in ToSet(wcQueue[w])
                    THEN Over(wcCall[c], "err") ELSE wcCall[c]]
    /\ UNCHANGED <<wcApplied, wcMap, wcOut, wcDisk, wcLast, wcRaced>>

(* set_group_archived of an account without a worker.                      *)
DirectWrites(c) ==
    /\ wcCall[c].at = "direct" /\ CallTo(c, "ok")
    /\ wcDisk' = wcCall[c].val /\ wcLast' = wcCall[c].val
    /\ wcRaced' = (wcRaced \/ ~wcOut \/ \E w \in DOMAIN wcWorkers : Alive(w))
    /\ wcApplied' = [wcApplied EXCEPT ![c] = @ + 1]
    /\ UNCHANGED <<wcWorkers, wcQueue, wcMap, wcOut>>

(* Mutant: a failed catch-up fails a recovery as it fails other calls.     *)
CatchUpMasksRecovery(kind, caughtUp) == kind \in {"mutate", "hydrate"} /\ ~caughtUp

(* A failed catch-up fails a call that changed a group; a recovered group  *)
(* is reported all the same.                                               *)
CatchUpFails(kind, caughtUp) == kind = "mutate" /\ ~caughtUp

(* The reply arrives; catch_up_accounts asks every account's worker, so    *)
(* any of them can fail it.                                                *)
CallReturns(c) ==
    /\ wcCall[c].at = "answered"
    /\ \E caughtUp \in BOOLEAN :
         CallTo(c, IF \/ wcCall[c].answer = "err"
                      \/ CatchUpFails(wcCall[c].kind, caughtUp)
                   THEN "err" ELSE "ok")
    /\ UNCHANGED <<wcApplied, wcWorkers, wcQueue, wcMap, wcOut, wcDisk, wcLast,
                   wcRaced>>

WcNext ==
    \/ \E c \in WcCalls :
         \/ ReadsGroup(c) \/ SendsMessage(c) \/ SendsMedia(c)
         \/ SendsAgentEvent(c) \/ SharesPush(c) \/ PublishesKeyPackage(c)
         \/ CreatesGroup(c) \/ ChangesMembers(c) \/ ChangesAdmins(c)
         \/ ChangesProfile(c) \/ RetriesHydration(c)
         \/ \E v \in BOOLEAN : ArchivesGroup(c, v)
         \/ Reconciles(c) \/ WorkerNotReady(c) \/ LooksUp(c) \/ SendsCommand(c)
         \/ DirectWrites(c) \/ CallReturns(c)
    \/ \E w \in DOMAIN wcWorkers :
         WorkerLoads(w) \/ WorkerAnswers(w) \/ DeliverySaves(w) \/ WorkerGone(w)
    \/ RestartsWorker \/ SignsOutOrIn

WcTypeOK ==
    /\ wcMap \in 0 .. Len(wcWorkers)
    /\ \A w \in DOMAIN wcQueue : Len(wcQueue[w]) <= WcBuffer
    /\ \A c \in WcCalls : wcCall[c].at \in {"idle", "reconcile", "lookup", "send",
         "sent", "answered", "direct", "ok", "err", "closed"}

(* What a call reports is what happened.  A call that returns success took *)
(* effect exactly once, one whose command could not be sent never does,    *)
(* and a recovered group is reported recovered whatever the accounts'      *)
(* catch-up does (retry_hydrate_quarantined_group).  The stored archive    *)
(* flag is the one the last effective set_group_archived gave, through     *)
(* restarts of the worker and saves of the state it loaded (darkmatter     *)
(* #178), as long as no write overlapped a worker that was being stopped   *)
(* or an account being signed in.                                          *)
CallsReportTruly ==
    /\ \A c \in WcCalls :
         /\ wcApplied[c] <= 1
         /\ wcCall[c].at = "ok" => wcApplied[c] = 1
         /\ wcCall[c].at = "closed" => wcApplied[c] = 0
         /\ (/\ wcCall[c].kind = "hydrate" /\ wcCall[c].answer = "ok"
             /\ wcCall[c].at # "answered") => wcCall[c].at = "ok"
    /\ ~wcRaced => wcDisk = wcLast

=============================================================================
