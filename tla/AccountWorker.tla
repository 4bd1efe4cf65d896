--------------------------- MODULE AccountWorker ---------------------------
(***************************************************************************)
(* The task that owns one account's client in the application runtime:     *)
(* crates/marmot-app/src/runtime/account_worker.rs.                        *)
(*                                                                         *)
(* The worker opens the client, reports ready, runs the first catch-up     *)
(* while it answers reads from a snapshot and holds everything else back,  *)
(* replays what it held back in arrival order, and then serves commands,   *)
(* deliveries and the shared convergence timer until it is told to stop.   *)
(* A receive error makes it wait, reopen the client and go on.             *)
(*                                                                         *)
(* A command is a record [id, kind]: "read" (Members, GroupMlsState,       *)
(* QuarantinedGroups), "catchUp", "commit" (the handlers that broadcast    *)
(* the client's queued system rows) and "quiet" (the handlers that queue   *)
(* rows and leave them queued: CreateGroup, LeaveGroup, the message sends, *)
(* retention and media endpoints, RetryGroupConvergence).                  *)
(***************************************************************************)
EXTENDS Integers, Sequences, FiniteSets, SequencesExt

CONSTANTS AwGroups,       \* groups of the account
          AwCommands,     \* the commands callers may submit, each once
          AwMaxRearms,    \* CONVERGENCE_UNSETTLED_MAX_REARMS
          AwAttemptCap    \* where the model lets the attempt counters saturate

ASSUME AwAssumption == AwMaxRearms \in Nat /\ AwAttemptCap \in Nat \ {0}

VARIABLES
  awPhase,      \* where the task is: see AwPhases
  awQueue,      \* the command channel
  awSent,       \* submitted commands, in order
  awDeferred,   \* commands held back during the first catch-up
  awAnswer,     \* what each caller got: "none" so far, or how it was answered
  awSnapshot,   \* a read snapshot was captured when the client opened
  awRan,        \* commands that ran on the live session, in order
  awCaughtUp,   \* result of the first catch-up, given to coalesced waiters
  awStored,     \* groups with convergence inputs in the engine's storage
  awBuffered,   \* AppClient::pending_convergence_groups
  awRows,       \* AppClient::pending_projection_updates is non-empty
  awSched,      \* ScheduledConvergence: groups, retry, rearm, delay (0 = idle timer)
  awBatch       \* groups the timer tick being served has still to advance

awChannel == <<awQueue, awSent, awDeferred, awAnswer, awSnapshot, awRan, awCaughtUp>>
awVars == <<awPhase, awChannel, awStored, awBuffered, awRows, awSched, awBatch>>

AwPhases == {"open", "catchUp", "replay", "serve", "pass", "backoff", "reopen", "pause", "stopped"}

\* The phases whose select! also waits for shutdown.
Interruptible == {"open", "catchUp", "serve", "backoff", "reopen", "pause"}

-----------------------------------------------------------------------------
(* ScheduledConvergence: one timer shared by every scheduled group. *)

NormalDelay == 1
RetryBase == 1
RetryMax == 60

Lower(a, b) == IF a <= b THEN a ELSE b
Bump(n) == Lower(n + 1, AwAttemptCap)

RetryDelay(attempt) == Lower(RetryBase * 2 ^ Lower(IF attempt = 0 THEN 0 ELSE attempt - 1, 6), RetryMax)

LongestDelay(attempts, gs) ==
  CHOOSE d \in {RetryDelay(attempts[g]) : g \in gs} : \A g \in gs : RetryDelay(attempts[g]) <= d

NewSchedule == [groups |-> {}, retry |-> [g \in AwGroups |-> 0],
                rearm |-> [g \in AwGroups |-> 0], delay |-> 0]

Reset(counts, gs) == [g \in AwGroups |-> IF g \in gs THEN 0 ELSE counts[g]]
Raise(counts, gs) == [g \in AwGroups |-> IF g \in gs THEN Bump(counts[g]) ELSE counts[g]]

\* schedule_groups: fresh work clears the back-off of its groups and re-arms the timer.
ScheduleGroups(s, gs) ==
  IF gs = {} THEN s
  ELSE [groups |-> s.groups \cup gs, retry |-> Reset(s.retry, gs),
        rearm |-> Reset(s.rearm, gs), delay |-> NormalDelay]

\* schedule_retry_groups: the longest of the groups' delays is the timer's.
ScheduleRetryGroups(s, gs) ==
  IF gs = {} THEN s
  ELSE LET retry == Raise(s.retry, gs)
       IN  [s EXCEPT !.groups = @ \cup gs, !.retry = retry, !.delay = LongestDelay(retry, gs)]

\* schedule_unsettled_groups for one group: a settlement delay, until the
\* re-arms run out and the group falls back to the error back-off.
ScheduleUnsettled(s, g) ==
  LET rearm == Raise(s.rearm, {g})
      retry == Raise(s.retry, {g})
      tired == rearm[g] > AwMaxRearms
  IN  [groups |-> s.groups \cup {g}, rearm |-> rearm,
       retry |-> IF tired THEN retry ELSE s.retry,
       delay |-> IF tired THEN RetryDelay(retry[g]) ELSE NormalDelay]

NoteSuccess(s, g) == [s EXCEPT !.retry = Reset(@, {g}), !.rearm = Reset(@, {g})]

ScheduleAfterPass(s, g, pending) == IF pending THEN ScheduleUnsettled(s, g) ELSE NoteSuccess(s, g)

TakeReady(s) == [s EXCEPT !.groups = {}, !.delay = 0]

-----------------------------------------------------------------------------
(* Callers. *)

AwInit ==
  /\ awPhase = "open"
  /\ awQueue = <<>> /\ awSent = <<>> /\ awDeferred = <<>> /\ awRan = <<>>
  /\ awAnswer = [c \in AwCommands |-> "none"]
  /\ awSnapshot = FALSE /\ awCaughtUp = "none" /\ awRows = FALSE
  /\ awStored = {} /\ awBuffered = {} /\ awBatch = {}
  /\ awSched = NewSchedule

\* A send to a worker that has returned finds the channel closed.
Submit(c) ==
  /\ c \notin Range(awSent)
  /\ awSent' = Append(awSent, c)
  /\ IF awPhase = "stopped"
     THEN awAnswer' = [awAnswer EXCEPT ![c] = "dropped"] /\ UNCHANGED awQueue
     ELSE awQueue' = Append(awQueue, c) /\ UNCHANGED awAnswer
  /\ UNCHANGED <<awPhase, awDeferred, awSnapshot, awRan, awCaughtUp, awStored, awBuffered,
                 awRows, awSched, awBatch>>

\* Seeded bug: the held-back commands outlive the worker with their responders.
StopHolding ==
  /\ awPhase' = "stopped"
  /\ awAnswer' = [c \in AwCommands |->
                    IF c \in Range(awQueue) THEN "dropped" ELSE awAnswer[c]]
  /\ awQueue' = <<>>
  /\ UNCHANGED <<awDeferred, awSent, awSnapshot, awRan, awCaughtUp, awStored, awBuffered, awRows, awSched, awBatch>>

\* Returning drops the channel and the held-back commands with their responders.
Stop ==
  /\ awPhase' = "stopped"
  /\ awAnswer' = [c \in AwCommands |->
                    IF c \in Range(awSent) /\ awAnswer[c] = "none" THEN "dropped" ELSE awAnswer[c]]
  /\ awQueue' = <<>> /\ awDeferred' = <<>>
  /\ UNCHANGED <<awSent, awSnapshot, awRan, awCaughtUp, awStored, awBuffered, awRows, awSched, awBatch>>

Shutdown == awPhase \in Interruptible /\ Stop

-----------------------------------------------------------------------------
(* Opening, the first catch-up, and the replay. *)

OpenClient ==
  /\ awPhase = "open"
  /\ awPhase' = "catchUp"
  /\ awSnapshot' \in BOOLEAN
  /\ UNCHANGED <<awQueue, awSent, awDeferred, awAnswer, awRan, awCaughtUp, awStored, awBuffered,
                 awRows, awSched, awBatch>>

OpenFails == awPhase = "open" /\ Stop

\* Seeded bug: a read that is held back goes in front.
DeferInFront ==
  /\ awPhase = "catchUp" /\ awQueue # <<>>
  /\ awQueue' = Tail(awQueue)
  /\ awDeferred' = IF Head(awQueue).kind = "read" THEN <<Head(awQueue)>> \o awDeferred
                   ELSE Append(awDeferred, Head(awQueue))
  /\ UNCHANGED <<awAnswer, awPhase, awSent, awSnapshot, awRan, awCaughtUp, awStored, awBuffered,
                 awRows, awSched, awBatch>>

\* While client.sync() holds the client, reads come from the snapshot and
\* everything else waits its turn.
ReceiveDuringCatchUp ==
  /\ awPhase = "catchUp" /\ awQueue # <<>>
  /\ awQueue' = Tail(awQueue)
  /\ IF Head(awQueue).kind = "read" /\ awSnapshot
     THEN awAnswer' = [awAnswer EXCEPT ![Head(awQueue)] = "snapshot"] /\ UNCHANGED awDeferred
     ELSE awDeferred' = Append(awDeferred, Head(awQueue)) /\ UNCHANGED awAnswer
  /\ UNCHANGED <<awPhase, awSent, awSnapshot, awRan, awCaughtUp, awStored, awBuffered, awRows,
                 awSched, awBatch>>

\* The deliveries of one client call leave inputs behind for `stored`, and the
\* client remembers `noted` of them: a delivery whose publish failed is
\* stored by the engine and not noted.
Deliveries(stored, noted) ==
  /\ noted \subseteq stored
  /\ awStored' = awStored \cup stored

CatchUpSucceeds ==
  /\ awPhase = "catchUp"
  /\ \E gs \in SUBSET AwGroups :
       /\ Deliveries(gs, gs)
       /\ awSched' = ScheduleGroups(awSched, awBuffered \cup gs)
  /\ awBuffered' = {}
  /\ awPhase' = "replay" /\ awCaughtUp' = "live"
  /\ UNCHANGED <<awQueue, awSent, awDeferred, awAnswer, awSnapshot, awRan, awRows, awBatch>>

CatchUpFails ==
  /\ awPhase = "catchUp"
  /\ \E gs, noted \in SUBSET AwGroups : Deliveries(gs, noted) /\ awBuffered' = awBuffered \cup noted
  /\ awPhase' = "replay" /\ awCaughtUp' = "failed"
  /\ UNCHANGED <<awQueue, awSent, awDeferred, awAnswer, awSnapshot, awRan, awRows, awSched, awBatch>>

\* handle_account_worker_command on the live session. A catch-up may bring
\* deliveries; a commit or a quiet command may leave inputs pending.
Handle(c, gs) ==
  /\ c.kind = "read" => gs = {}
  /\ Deliveries(gs, gs)
  /\ awRan' = Append(awRan, c)
  /\ awAnswer' = [awAnswer EXCEPT ![c] = "live"]
  /\ awRows' = CASE c.kind = "quiet" -> TRUE [] c.kind = "commit" -> FALSE [] OTHER -> awRows

ReplayDeferred ==
  /\ awPhase = "replay" /\ awDeferred # <<>>
  /\ awDeferred' = Tail(awDeferred)
  /\ LET c == Head(awDeferred)
     IN  IF c.kind = "catchUp"
         THEN /\ awAnswer' = [awAnswer EXCEPT ![c] = awCaughtUp]
              /\ UNCHANGED <<awRan, awStored, awBuffered, awRows>>
         ELSE \E gs \in SUBSET AwGroups : Handle(c, gs) /\ awBuffered' = awBuffered \cup gs
  /\ UNCHANGED <<awPhase, awQueue, awSent, awSnapshot, awCaughtUp, awSched, awBatch>>

EnterLoop ==
  /\ awPhase = "replay" /\ awDeferred = <<>>
  /\ awPhase' = "serve"
  /\ awSched' = ScheduleGroups(awSched, awBuffered)
  /\ awBuffered' = {}
  /\ UNCHANGED <<awChannel, awStored, awRows, awBatch>>

-----------------------------------------------------------------------------
(* The steady-state loop. *)

ServeCommand ==
  /\ awPhase = "serve" /\ awQueue # <<>>
  /\ awQueue' = Tail(awQueue)
  /\ \E gs \in SUBSET AwGroups :
       /\ Handle(Head(awQueue), gs)
       /\ awSched' = ScheduleGroups(awSched, awBuffered \cup gs)
  /\ awBuffered' = {}
  /\ UNCHANGED <<awPhase, awSent, awDeferred, awSnapshot, awCaughtUp, awBatch>>

NextEvent ==
  /\ awPhase = "serve"
  /\ \E g \in AwGroups :
       /\ Deliveries({g}, {g})
       /\ awSched' = ScheduleGroups(awSched, awBuffered \cup {g})
  /\ awBuffered' = {}
  /\ UNCHANGED <<awPhase, awChannel, awRows, awBatch>>

\* The receive error path schedules nothing, even for what the client noted.
NextEventFails ==
  /\ awPhase = "serve"
  /\ \E gs, noted \in SUBSET AwGroups :
       Cardinality(gs) <= 1 /\ Deliveries(gs, noted) /\ awBuffered' = awBuffered \cup noted
  /\ awPhase' = "backoff"
  /\ UNCHANGED <<awChannel, awRows, awSched, awBatch>>

BackoffElapses ==
  /\ awPhase \in {"backoff", "pause"}
  /\ awPhase' = IF awPhase = "backoff" THEN "reopen" ELSE "serve"
  /\ UNCHANGED <<awChannel, awStored, awBuffered, awRows, awSched, awBatch>>

\* `client = reopened`: the old client goes with what it had buffered.
ReopenSucceeds ==
  /\ awPhase = "reopen"
  /\ awPhase' = "serve"
  /\ awBuffered' = {} /\ awRows' = FALSE
  /\ UNCHANGED <<awChannel, awStored, awSched, awBatch>>

ReopenFails ==
  /\ awPhase = "reopen"
  /\ awPhase' = "pause"
  /\ UNCHANGED <<awChannel, awStored, awBuffered, awRows, awSched, awBatch>>

\* The timer arm takes every scheduled group and first syncs the subscriptions.
TimerFires ==
  /\ awPhase = "serve" /\ awSched.delay # 0
  /\ awPhase' = IF awSched.groups = {} THEN "serve" ELSE "pass"
  /\ awBatch' = awSched.groups
  /\ awSched' = TakeReady(awSched)
  /\ UNCHANGED <<awChannel, awStored, awBuffered, awRows>>

\* A failed subscription sync puts them all back with the error back-off.
TimerSyncFails ==
  /\ awPhase = "serve" /\ awSched.delay # 0
  /\ awSched' = ScheduleRetryGroups(TakeReady(awSched), awSched.groups)
  /\ UNCHANGED <<awPhase, awChannel, awStored, awBuffered, awRows, awBatch>>

\* advance_convergence_after_runtime_sync: the pass settles the group's
\* inputs or leaves some, and may note other groups.
PassSucceeds(g) ==
  /\ awPhase = "pass" /\ g \in awBatch
  /\ \E settled \in BOOLEAN, noted \in SUBSET (AwGroups \ {g}) :
       /\ awStored' = (IF settled THEN awStored \ {g} ELSE awStored) \cup noted
       /\ awSched' = ScheduleAfterPass(ScheduleGroups(awSched, awBuffered \cup noted), g, g \in awStored')
  /\ awBuffered' = {}
  /\ awBatch' = awBatch \ {g}
  /\ awPhase' = IF awBatch' = {} THEN "serve" ELSE "pass"
  /\ UNCHANGED <<awChannel, awRows>>

PassFails(g) ==
  /\ awPhase = "pass" /\ g \in awBatch
  /\ awSched' = ScheduleRetryGroups(awSched, awBuffered \cup {g})
  /\ awBuffered' = {}
  /\ awBatch' = awBatch \ {g}
  /\ awPhase' = IF awBatch' = {} THEN "serve" ELSE "pass"
  /\ UNCHANGED <<awChannel, awStored, awRows>>

-----------------------------------------------------------------------------
AwNext ==
  \/ \E c \in AwCommands : Submit(c)
  \/ Shutdown
  \/ OpenClient \/ OpenFails
  \/ ReceiveDuringCatchUp \/ CatchUpSucceeds \/ CatchUpFails
  \/ ReplayDeferred \/ EnterLoop
  \/ ServeCommand \/ NextEvent \/ NextEventFails
  \/ BackoffElapses \/ ReopenSucceeds \/ ReopenFails
  \/ TimerFires \/ TimerSyncFails
  \/ \E g \in AwGroups : PassSucceeds(g) \/ PassFails(g)

\* The awaits of the task, no two of them in one phase: weak fairness of
\* their disjunction is that of each.
AwAwaited ==
  \/ OpenClient \/ OpenFails \/ CatchUpSucceeds \/ CatchUpFails
  \/ ReplayDeferred \/ EnterLoop
  \/ BackoffElapses \/ ReopenSucceeds \/ ReopenFails
  \/ \E g \in AwGroups : PassSucceeds(g) \/ PassFails(g)

\* Every await of the task resolves: opening and the catch-up end by result or
\* timeout, sleeps elapse, and select! polls its ready arms in random order, so
\* the command arm is not passed over for ever. Strong fairness of the timer
\* says that traffic pauses for a timer period, with the relays reachable, again
\* and again: every delivery re-arms the shared timer, so traffic that never
\* pauses does postpone convergence for ever.
AwFairness ==
  /\ WF_awVars(AwAwaited)
  /\ SF_awVars(ServeCommand) /\ SF_awVars(TimerFires)

AwSpec == AwInit /\ [][AwNext]_awVars

-----------------------------------------------------------------------------
(* Properties. *)

Answers == {"none", "snapshot", "live", "failed", "dropped"}

\* The state of the worker has its type.
AwTypeOK ==
  /\ awPhase \in AwPhases
  /\ {awQueue, awDeferred, awSent, awRan} \subseteq Seq(AwCommands)
  /\ awAnswer \in [AwCommands -> Answers]
  /\ awSnapshot \in BOOLEAN /\ awRows \in BOOLEAN /\ awCaughtUp \in Answers
  /\ awStored \subseteq AwGroups /\ awBuffered \subseteq AwGroups /\ awBatch \subseteq AwGroups
  /\ awSched \in [groups : SUBSET AwGroups, retry : [AwGroups -> 0..AwAttemptCap],
                  rearm : [AwGroups -> 0..AwAttemptCap], delay : 0..RetryMax]

\* Commands run in the order callers submitted them, whether they were held
\* back during the first catch-up or not (the FIFO promise of
\* DeferredStartupCommand), none runs twice, and a waiter coalesced onto the
\* first catch-up gets its result only after every command submitted before it.
CommandsInOrder ==
  /\ \A i, j \in 1..Len(awRan) :
       i < j => \E m, n \in 1..Len(awSent) : m < n /\ awSent[m] = awRan[i] /\ awSent[n] = awRan[j]
  /\ \A m, n \in 1..Len(awSent) :
       (m < n /\ awSent[n].kind = "catchUp" /\ awAnswer[awSent[n]] \in {"live", "failed", "snapshot"})
         => awAnswer[awSent[m]] # "none"

\* Every submitted command is eventually answered or its responder dropped, and
\* a scheduled group is eventually handed to a convergence pass unless the
\* worker stops: errors and re-arms only postpone it.
WorkCompletes ==
  /\ \A c \in AwCommands : c \in Range(awSent) ~> awAnswer[c] # "none"
  /\ \A g \in AwGroups : g \in awSched.groups ~> (g \in awBatch \/ awPhase = "stopped")
=============================================================================
