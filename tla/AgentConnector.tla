--------------------------- MODULE AgentConnector ---------------------------
(***************************************************************************)
(* Requests that the agent connector serves, in three parts that share no  *)
(* state: sends and their retries, the streams it hosts, and the group     *)
(* invites it answers.                                                     *)
(***************************************************************************)
EXTENDS Integers, Sequences, SequencesExt, FiniteSets

(***************************************************************************)
(* Idempotent durable sends of the agent connector                         *)
(* (crates/agent-connector/src/messaging.rs, stream_session.rs).  A client *)
(* that hears nothing from send_final may call it again with the same key; *)
(* the connector answers from a bounded first-in first-out map of keys     *)
(* that is written to disk by background tasks.  The runtime's send is     *)
(* awaited between the look-up and the recording.                          *)
(***************************************************************************)

CONSTANTS AsKeys,       \* idempotency keys
          AsBodies,     \* request bodies (the fingerprint tells them apart)
          AsCapacity,   \* SEND_IDEMPOTENCY_CAPACITY
          AsMaxCalls,   \* bound: send_final calls in one behaviour
          AsMaxCrashes  \* bound: connector restarts

VARIABLES asCalls,    \* sequence of [key, body, at, id]
          asPosts,    \* the messages in the group; a message id is its index
          asSeen,     \* SendIdempotencyInner: sequence of [key, body, id]
          asDisk,     \* the entries of the persisted file
          asPersist,  \* a spawned persist_to_disk has not run yet
          asCrashes

asVars == <<asCalls, asPosts, asSeen, asDisk, asPersist, asCrashes>>

AsInit == /\ asCalls = <<>> /\ asPosts = <<>> /\ asSeen = <<>>
          /\ asDisk = <<>> /\ asPersist = FALSE /\ asCrashes = 0

(* Mutant: the look-up compares the key alone.                             *)
AsGetByKey(key, body) == {e \in ToSet(asSeen) : e.key = key}

(* SendIdempotencyStore::get: a key hit with another fingerprint is a miss.*)
AsGet(key, body) == {e \in ToSet(asSeen) : e.key = key /\ e.body = body}

(* Mutant: nothing is ever evicted.                                        *)
AsRecordUnbounded(seen, entry) ==
    IF \E e \in ToSet(seen) : e.key = entry.key THEN seen
    ELSE Append(seen, entry)

(* SendIdempotencyStore::record: the first successful send of a key wins,  *)
(* the oldest key is evicted at capacity.                                  *)
AsRecord(seen, entry) ==
    IF \E e \in ToSet(seen) : e.key = entry.key THEN seen
    ELSE Append(IF Len(seen) >= AsCapacity THEN Tail(seen) ELSE seen, entry)

(* send_final_response up to the runtime call: a call answered from the    *)
(* map is done at once, any other one sends.                               *)
SendFinal(key, body) ==
    /\ Len(asCalls) < AsMaxCalls
    /\ IF AsGet(key, body) # {}
       THEN \E e \in AsGet(key, body) :
              asCalls' = Append(asCalls, [key |-> key, body |-> body,
                                          at |-> "answered", id |-> e.id])
       ELSE asCalls' = Append(asCalls, [key |-> key, body |-> body,
                                        at |-> "sending", id |-> 0])
    /\ UNCHANGED <<asPosts, asSeen, asDisk, asPersist, asCrashes>>

(* The runtime publishes the message of a call (external).                 *)
RuntimePosts(c) ==
    /\ asCalls[c].at = "sending"
    /\ asPosts' = Append(asPosts, asCalls[c].body)
    /\ asCalls' = [asCalls EXCEPT ![c].at = "posted", ![c].id = Len(asPosts) + 1]
    /\ UNCHANGED <<asSeen, asDisk, asPersist, asCrashes>>

(* The runtime's send fails: nothing is recorded and the call may be made  *)
(* again.                                                                  *)
RuntimeSendFails(c) ==
    /\ asCalls[c].at = "sending"
    /\ asCalls' = [asCalls EXCEPT ![c].at = "failed"]
    /\ UNCHANGED <<asPosts, asSeen, asDisk, asPersist, asCrashes>>

(* The call resumes after the send: record, spawn the write, answer.       *)
SendFinalReturns(c) ==
    /\ asCalls[c].at = "posted"
    /\ LET seen == AsRecord(asSeen, [key |-> asCalls[c].key,
                                     body |-> asCalls[c].body,
                                     id |-> asCalls[c].id])
       IN  asSeen' = seen /\ asPersist' = (asPersist \/ seen # asSeen)
    /\ asCalls' = [asCalls EXCEPT ![c].at = "answered"]
    /\ UNCHANGED <<asPosts, asDisk, asCrashes>>

(* persist_to_disk: the file is replaced by the map as it is when the task *)
(* runs (temporary file, rename); a failed write leaves the old file.      *)
PersistToDisk(ok) ==
    /\ asPersist
    /\ asPersist' = FALSE
    /\ asDisk' = IF ok THEN asSeen ELSE asDisk
    /\ UNCHANGED <<asCalls, asPosts, asSeen, asCrashes>>

(* The connector stops and starts again: load_from_disk rebuilds the map,  *)
(* or starts empty when the file cannot be read.                           *)
RestartConnector(readable) ==
    /\ asCrashes < AsMaxCrashes
    /\ asCrashes' = asCrashes + 1
    /\ asSeen' = IF readable THEN FoldLeft(AsRecord, <<>>, asDisk) ELSE <<>>
    /\ asPersist' = FALSE
    /\ asCalls' = [c \in DOMAIN asCalls |->
                     IF asCalls[c].at \in {"sending", "posted"}
                     THEN [asCalls[c] EXCEPT !.at = "failed"] ELSE asCalls[c]]
    /\ UNCHANGED <<asPosts, asDisk>>

AsNext == \/ \E key \in AsKeys, body \in AsBodies : SendFinal(key, body)
          \/ \E c \in DOMAIN asCalls : \/ RuntimePosts(c) \/ RuntimeSendFails(c)
                                       \/ SendFinalReturns(c)
          \/ \E ok \in BOOLEAN : PersistToDisk(ok) \/ RestartConnector(ok)

AsEntry == [key : AsKeys, body : AsBodies, id : Nat]

AsTypeOK ==
    /\ asCalls \in Seq([key : AsKeys, body : AsBodies, id : Nat,
                        at : {"sending", "posted", "answered", "failed"}])
    /\ asPosts \in Seq(AsBodies) /\ asSeen \in Seq(AsEntry)
    /\ asDisk \in Seq(AsEntry) /\ Len(asSeen) <= AsCapacity
    /\ asPersist \in BOOLEAN /\ asCrashes \in Nat

(* Whatever order calls, retries, evictions, disk writes and restarts come *)
(* in, a caller is only ever given the id of a message with the body it    *)
(* asked to send ("it can never return ids belonging to an unrelated       *)
(* send", stream_session.rs).                                              *)
AnsweredWithOwnMessage ==
    \A c \in DOMAIN asCalls : asCalls[c].at = "answered" =>
        /\ asCalls[c].id \in DOMAIN asPosts
        /\ asPosts[asCalls[c].id] = asCalls[c].body

-----------------------------------------------------------------------------
(***************************************************************************)
(* The stream sessions of the agent connector                              *)
(* (crates/agent-connector/src/stream.rs, stream_session.rs).  A session   *)
(* is a compose task with a bounded command queue and a separate cancel    *)
(* signal, found through a map from stream ids.  Requests of several       *)
(* connections run side by side; a begin awaits the durable start message  *)
(* before it inserts its session, and a finalize takes the session out of  *)
(* the map before it waits for the task.                                   *)
(***************************************************************************)

CONSTANTS StIds,        \* stream ids
          StDepth,      \* STREAM_COMPOSE_CHANNEL_DEPTH
          StMaxBegins,  \* bound: stream_begin requests
          StMaxCalls    \* bound: append, status, progress, finalize requests

VARIABLES stMap,      \* StreamSessionStore: stream id -> task, 0 when absent
          stTasks,    \* sequence of [id, live, cancel, idle, queue, last]
          stCalls,    \* sequence of [task, kind, at]
          stBegins,   \* stream ids whose begin awaits its start message
          stBegun     \* begins so far

stVars == <<stMap, stTasks, stCalls, stBegins, stBegun>>

StInit == /\ stMap = [i \in StIds |-> 0] /\ stTasks = <<>> /\ stCalls = <<>>
          /\ stBegins = <<>> /\ stBegun = 0

(* The dedicated cancel signal; a second one finds the channel full.       *)
Cancelled(tasks, t) ==
    IF t = 0 THEN tasks ELSE [tasks EXCEPT ![t].cancel = TRUE]

(* stream_begin_response up to the start message.                          *)
StreamBegin(i) ==
    /\ stBegun < StMaxBegins
    /\ stBegun' = stBegun + 1 /\ stBegins' = Append(stBegins, i)
    /\ UNCHANGED <<stMap, stTasks, stCalls>>

(* The start message is sent: the task is spawned and its session inserted;*)
(* a session it replaces is cancelled.                                     *)
StreamInsert(b) ==
    /\ stBegins' = RemoveAt(stBegins, b)
    /\ LET i == stBegins[b]
       IN  /\ stTasks' = Append(Cancelled(stTasks, stMap[i]),
                                [id |-> i, live |-> TRUE, cancel |-> FALSE,
                                 idle |-> FALSE, queue |-> <<>>, last |-> "none"])
           /\ stMap' = [stMap EXCEPT ![i] = Len(stTasks) + 1]
    /\ UNCHANGED <<stCalls, stBegun>>

StreamBeginFails(b) ==
    /\ stBegins' = RemoveAt(stBegins, b)
    /\ UNCHANGED <<stMap, stTasks, stCalls, stBegun>>

(* append, status and progress: get touches the session; the command waits *)
(* for room in the queue.                                                  *)
StreamCommand(i) ==
    /\ stMap[i] # 0 /\ Len(stCalls) < StMaxCalls
    /\ stTasks' = [stTasks EXCEPT ![stMap[i]].idle = FALSE]
    /\ stCalls' = Append(stCalls, [task |-> stMap[i], kind |-> "append",
                                   at |-> "sending"])
    /\ UNCHANGED <<stMap, stBegins, stBegun>>

(* stream_finalize_response: the session leaves the map first.             *)
StreamFinalize(i) ==
    /\ stMap[i] # 0 /\ Len(stCalls) < StMaxCalls
    /\ stCalls' = Append(stCalls, [task |-> stMap[i], kind |-> "finish",
                                   at |-> "sending"])
    /\ stMap' = [stMap EXCEPT ![i] = 0]
    /\ UNCHANGED <<stTasks, stBegins, stBegun>>

(* stream_cancel_response.                                                 *)
StreamCancel(i) ==
    /\ stMap[i] # 0
    /\ stTasks' = Cancelled(stTasks, stMap[i])
    /\ stMap' = [stMap EXCEPT ![i] = 0]
    /\ UNCHANGED <<stCalls, stBegins, stBegun>>

(* A waiting command enters the queue, or finds the task gone.             *)
CommandQueued(c) ==
    LET t == stCalls[c].task
    IN  /\ stCalls[c].at = "sending"
        /\ IF stTasks[t].live
           THEN /\ Len(stTasks[t].queue) < StDepth
                /\ stTasks' = [stTasks EXCEPT ![t].queue = Append(@, c)]
                /\ stCalls' = [stCalls EXCEPT ![c].at = "queued"]
           ELSE /\ stCalls' = [stCalls EXCEPT ![c].at = "error"]
                /\ UNCHANGED stTasks
        /\ UNCHANGED <<stMap, stBegins, stBegun>>

(* The task ends; commands left in its queue lose their responder.         *)
TaskEnded(t, how) ==
    [stTasks EXCEPT ![t].live = FALSE, ![t].queue = <<>>, ![t].last = how]

DropResponders(t) ==
    [c \in DOMAIN stCalls |->
        IF c \in ToSet(stTasks[t].queue) THEN [stCalls[c] EXCEPT !.at = "error"]
        ELSE stCalls[c]]

(* Somebody still holds the session's senders.                             *)
Held(t) == \/ \E i \in StIds : stMap[i] = t
           \/ \E c \in DOMAIN stCalls : /\ stCalls[c].task = t
                                        /\ stCalls[c].at \in {"sending", "queued"}

(* The biased select: a cancel, or the loss of the last cancel sender, goes*)
(* before any queued command, and the task says Abort to its subscribers.  *)
TaskCancels(t) ==
    /\ stTasks[t].live /\ (stTasks[t].cancel \/ ~Held(t))
    /\ stTasks' = TaskEnded(t, "abort")
    /\ stCalls' = DropResponders(t)
    /\ UNCHANGED <<stMap, stBegins, stBegun>>

(* The task answers one command.  A finish ends it; the finalize call then *)
(* compares transcripts and sends the final message, or reports an error.  *)
TaskRuns(t) ==
    /\ stTasks[t].live /\ ~stTasks[t].cancel /\ stTasks[t].queue # <<>>
    /\ LET c == Head(stTasks[t].queue)
       IN  IF stCalls[c].kind = "finish"
           THEN /\ stTasks' = TaskEnded(t, "finish")
                /\ \E answer \in {"answered", "error"} :
                     stCalls' = [DropResponders(t) EXCEPT ![c].at = answer]
           ELSE /\ stTasks' = [stTasks EXCEPT ![t].queue = Tail(@)]
                /\ stCalls' = [stCalls EXCEPT ![c].at = "answered"]
    /\ UNCHANGED <<stMap, stBegins, stBegun>>

(* Time: a session nobody touched for STREAM_SESSION_IDLE_TIMEOUT.         *)
SessionIdles(i) ==
    /\ stMap[i] # 0 /\ ~stTasks[stMap[i]].idle
    /\ stTasks' = [stTasks EXCEPT ![stMap[i]].idle = TRUE]
    /\ UNCHANGED <<stMap, stCalls, stBegins, stBegun>>

(* Mutant: the time of the last activity is only set by a command.         *)
IdleOnceUsed ==
    {i \in StIds : /\ stMap[i] # 0 /\ stTasks[stMap[i]].idle
                   /\ \E c \in DOMAIN stCalls : stCalls[c].task = stMap[i]}

IdleSessions == {i \in StIds : stMap[i] # 0 /\ stTasks[stMap[i]].idle}

(* sweep_idle: idle sessions are removed and cancelled.                    *)
SweepIdle ==
    /\ IdleSessions # {}
    /\ stTasks' = [t \in DOMAIN stTasks |->
                     IF \E i \in IdleSessions : stMap[i] = t
                     THEN [stTasks[t] EXCEPT !.cancel = TRUE] ELSE stTasks[t]]
    /\ stMap' = [i \in StIds |-> IF i \in IdleSessions THEN 0 ELSE stMap[i]]
    /\ UNCHANGED <<stCalls, stBegins, stBegun>>

StNext == \/ \E i \in StIds : \/ StreamBegin(i) \/ StreamCommand(i)
                              \/ StreamFinalize(i) \/ StreamCancel(i)
                              \/ SessionIdles(i)
          \/ \E b \in DOMAIN stBegins : StreamInsert(b) \/ StreamBeginFails(b)
          \/ \E c \in DOMAIN stCalls : CommandQueued(c)
          \/ \E t \in DOMAIN stTasks : TaskCancels(t) \/ TaskRuns(t)
          \/ SweepIdle

(* Compose tasks and request handlers run, time passes, the sweeper ticks. *)
StFairness ==
    /\ WF_stVars(SweepIdle)
    /\ \A i \in StIds : WF_stVars(SessionIdles(i))
    /\ \A c \in 1 .. StMaxCalls : WF_stVars(c \in DOMAIN stCalls /\ CommandQueued(c))
    /\ \A t \in 1 .. StMaxBegins :
          WF_stVars(t \in DOMAIN stTasks /\ (TaskCancels(t) \/ TaskRuns(t)))

StTypeOK ==
    /\ stMap \in [StIds -> 0 .. Len(stTasks)]
    /\ stTasks \in Seq([id : StIds, live : BOOLEAN, cancel : BOOLEAN,
                        idle : BOOLEAN, queue : Seq(1 .. StMaxCalls),
                        last : {"none", "abort", "finish"}])
    /\ stCalls \in Seq([task : DOMAIN stTasks, kind : {"append", "finish"},
                        at : {"sending", "queued", "answered", "error"}])
    /\ stBegins \in Seq(StIds)

(* No session outlives its clients: through concurrent begins of one id,   *)
(* finalizes, cancels and clients that vanish, every compose task          *)
(* eventually ends (it holds a socket and a live connection) and every     *)
(* request on it is answered (sweep_idle, insert, finalize).               *)
StreamsSettle ==
    /\ \A t \in 1 .. StMaxBegins :
         (t \in DOMAIN stTasks) ~> (t \in DOMAIN stTasks /\ ~stTasks[t].live)
    /\ \A c \in 1 .. StMaxCalls :
         (c \in DOMAIN stCalls) ~>
            (c \in DOMAIN stCalls /\ stCalls[c].at \in {"answered", "error"})

-----------------------------------------------------------------------------
(***************************************************************************)
(* The invite-policy worker of the agent connector                         *)
(* (crates/agent-connector/src/invite_policy.rs, validation.rs,            *)
(* allowlist.rs): every group an agent account is welcomed into stays      *)
(* pending until the worker accepts it (the welcomer is on the account's   *)
(* allowlist) or declines it.  The worker hears of a welcome by an event   *)
(* that may be lost, and by a periodic scan; a failed application is       *)
(* retried after a growing delay kept in memory only.                      *)
(***************************************************************************)

CONSTANTS IvGroups,     \* groups an account can be invited to
          IvMaxDelay,   \* bound of the retry delay, in reconcile intervals
          IvMaxChanges  \* bound: allowlist changes, lost events, restarts

VARIABLES ivGroup,    \* "none", "pending", "accepted", "declined"
          ivAllowed,  \* groups whose welcomer is on the allowlist
          ivEvents,   \* GroupJoined events not yet received
          ivRetry,    \* attempts and remaining delay per group
          ivTodo,     \* candidates the current pass still has to look at
          ivChanges

ivVars == <<ivGroup, ivAllowed, ivEvents, ivRetry, ivTodo, ivChanges>>

NoRetry == [attempts |-> 0, wait |-> 0]

IvInit == /\ ivGroup = [g \in IvGroups |-> "none"]
          /\ ivAllowed \in SUBSET IvGroups
          /\ ivEvents = {} /\ ivRetry = [g \in IvGroups |-> NoRetry]
          /\ ivTodo = {} /\ ivChanges = 0

(* InvitePolicyRetryState::is_due.                                         *)
IsDue(g) == ivRetry[g].wait = 0

(* Mutant: a failure is recorded as never due again.                       *)
FailureNeverDue(retry) ==
    [attempts |-> IF retry.attempts < IvMaxDelay THEN retry.attempts + 1
                  ELSE retry.attempts,
     wait |-> IvMaxDelay + 1]

(* InvitePolicyRetryState::record_failure with invite_policy_retry_delay:  *)
(* the delay doubles with every attempt up to a maximum.                   *)
RecordFailure(retry) ==
    LET attempts == IF retry.attempts < IvMaxDelay THEN retry.attempts + 1
                    ELSE retry.attempts
    IN  [attempts |-> attempts,
         wait |-> IF 2 ^ (attempts - 1) < IvMaxDelay THEN 2 ^ (attempts - 1)
                  ELSE IvMaxDelay]

(* A welcome is ingested: the group is stored as pending, its event sent.  *)
GroupJoined(g) ==
    /\ ivGroup[g] = "none"
    /\ ivGroup' = [ivGroup EXCEPT ![g] = "pending"]
    /\ ivEvents' = ivEvents \cup {g}
    /\ UNCHANGED <<ivAllowed, ivRetry, ivTodo, ivChanges>>

(* AllowlistStore::add and remove, on request of the operator.             *)
ChangeAllowlist(g) ==
    /\ ivChanges < IvMaxChanges /\ ivChanges' = ivChanges + 1
    /\ ivAllowed' = IF g \in ivAllowed THEN ivAllowed \ {g}
                    ELSE ivAllowed \cup {g}
    /\ UNCHANGED <<ivGroup, ivEvents, ivRetry, ivTodo>>

(* The event channel overflows: the worker gets Lagged and scans instead.  *)
EventsLagged ==
    /\ ivEvents # {} /\ ivTodo = {} /\ ivChanges < IvMaxChanges
    /\ ivChanges' = ivChanges + 1
    /\ ivEvents' = {}
    /\ ivTodo' = {g \in IvGroups : ivGroup[g] = "pending"}
    /\ ivRetry' = [g \in IvGroups |-> IF ivGroup[g] = "pending" THEN ivRetry[g] ELSE NoRetry]
    /\ UNCHANGED <<ivGroup, ivAllowed>>

(* A GroupJoined event is received: its group is the only candidate.       *)
ReceiveJoined(g) ==
    /\ g \in ivEvents /\ ivTodo = {}
    /\ ivEvents' = ivEvents \ {g}
    /\ ivTodo' = {g}
    /\ UNCHANGED <<ivGroup, ivAllowed, ivRetry, ivChanges>>

(* reconcile_pending_invite_policies: one interval passed; the pending     *)
(* groups are the candidates, delays of other groups are forgotten.        *)
ReconcileTick ==
    /\ ivTodo = {}
    /\ ivTodo' = {g \in IvGroups : ivGroup[g] = "pending"}
    /\ ivRetry' = [g \in IvGroups |->
                     IF ivGroup[g] # "pending" THEN NoRetry
                     ELSE IF ivRetry[g].wait \in 1 .. IvMaxDelay
                          THEN [ivRetry[g] EXCEPT !.wait = @ - 1] ELSE ivRetry[g]]
    /\ UNCHANGED <<ivGroup, ivAllowed, ivEvents, ivChanges>>

(* A candidate that is not due yet is passed over.                         *)
SkipCandidate(g) ==
    /\ g \in ivTodo /\ ~IsDue(g)
    /\ ivTodo' = ivTodo \ {g}
    /\ UNCHANGED <<ivGroup, ivAllowed, ivEvents, ivRetry, ivChanges>>

(* apply_invite_policy succeeds: accept_group_invite or, for a welcomer    *)
(* not on the list, decline_group_invite, which leaves the group; neither  *)
(* looks at whether the invite is still pending.                           *)
ApplyPolicy(g) ==
    /\ g \in ivTodo /\ IsDue(g)
    /\ ivTodo' = ivTodo \ {g}
    /\ ivGroup' = [ivGroup EXCEPT ![g] = IF g \in ivAllowed THEN "accepted"
                                         ELSE "declined"]
    /\ ivRetry' = [ivRetry EXCEPT ![g] = NoRetry]
    /\ UNCHANGED <<ivAllowed, ivEvents, ivChanges>>

(* apply_invite_policy fails before it changes the group.                  *)
ApplyFails(g) ==
    /\ g \in ivTodo /\ IsDue(g)
    /\ ivTodo' = ivTodo \ {g}
    /\ ivRetry' = [ivRetry EXCEPT ![g] = RecordFailure(@)]
    /\ UNCHANGED <<ivGroup, ivAllowed, ivEvents, ivChanges>>

(* The connector restarts: events and delays are lost, groups are not.     *)
RestartWorker ==
    /\ ivChanges < IvMaxChanges /\ ivChanges' = ivChanges + 1
    /\ ivEvents' = {} /\ ivTodo' = {}
    /\ ivRetry' = [g \in IvGroups |-> NoRetry]
    /\ UNCHANGED <<ivGroup, ivAllowed>>

IvNext == \/ \E g \in IvGroups : \/ GroupJoined(g) \/ ChangeAllowlist(g)
                                 \/ ReceiveJoined(g) \/ SkipCandidate(g)
                                 \/ ApplyPolicy(g) \/ ApplyFails(g)
          \/ EventsLagged \/ ReconcileTick \/ RestartWorker

(* The worker's task runs, its interval ticks, and an application that is  *)
(* tried for ever does not fail for ever.                                  *)
IvFairness ==
    /\ WF_ivVars(ReconcileTick)
    /\ \A g \in IvGroups : /\ WF_ivVars((SkipCandidate(g) \/ ApplyPolicy(g)
                                        \/ ApplyFails(g)))
                           /\ SF_ivVars(ApplyPolicy(g))

IvTypeOK ==
    /\ ivGroup \in [IvGroups -> {"none", "pending", "accepted", "declined"}]
    /\ ivAllowed \subseteq IvGroups /\ ivEvents \subseteq IvGroups
    /\ ivRetry \in [IvGroups -> [attempts : 0 .. IvMaxDelay,
                                 wait : 0 .. IvMaxDelay + 1]]
    /\ ivTodo \subseteq IvGroups /\ ivChanges \in Nat

(* No invite stays pending for ever: through lost events, failures with    *)
(* growing delays, allowlist changes and restarts, the worker eventually   *)
(* accepts or declines it (invite_policy.rs).                              *)
InvitesDecided ==
    \A g \in IvGroups : ivGroup[g] = "pending" ~> ivGroup[g] # "pending"

=============================================================================
