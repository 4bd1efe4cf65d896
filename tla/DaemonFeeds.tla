---------------------------- MODULE DaemonFeeds -----------------------------
(***************************************************************************)
(* What the daemon of the command line feeds to its clients, in two parts  *)
(* that share no state: compose sessions and stream watches, and           *)
(* subscriptions.                                                          *)
(***************************************************************************)
EXTENDS Integers, FiniteSets, FiniteSetsExt, Sequences, SequencesExt

(***************************************************************************)
(* Agent text streams in the command line's daemon                         *)
(* (crates/cli/src/daemon/stream_workers.rs, runtime_host.rs and           *)
(* crates/marmot-app/src/agent_streams.rs): the compose sessions a user    *)
(* opens, appends to, finishes and cancels, and the watches of the streams *)
(* of others, with the reports that are kept of them.                      *)
(***************************************************************************)

CONSTANTS DsStreams,    \* streams of others that can be watched
          DsMaxTasks,   \* bound: compose sessions of the one stream id used
          DsMaxText,    \* bound: appends to a session
          DsMaxWatches, \* bound: watches started
          DsRetain,     \* AGENT_STREAM_WATCH_RETAIN_LIMIT
          DsMaxFaults   \* bound: markers that are not published

VARIABLES dsSession,  \* the session in the workers map under the key, or 0
          dsTask,     \* per session its task: "none", "live", "told", "ended"
          dsText,     \* per session the number of appended texts
          dsFinish,   \* the finished report whose marker is being published
          dsMarkers,  \* finish markers published: session and text
          dsReport,   \* per watch its report: "none", "running", "finished", "gone"
          dsStream,   \* per watch its stream
          dsWorker,   \* per watch its task: "none", "live", "ended", "aborted"
          dsHandles,  \* watches with a handle in the workers map
          dsTold,     \* watches whose end was published to subscribers
          dsFaults

dsCompose == <<dsSession, dsTask, dsText, dsFinish, dsMarkers>>
dsWatch == <<dsReport, dsStream, dsWorker, dsHandles, dsTold>>
dsVars == <<dsCompose, dsWatch, dsFaults>>

DsTasks == 1 .. DsMaxTasks
DsWatches == 1 .. DsMaxWatches

DsInit == /\ dsSession = 0 /\ dsTask = [t \in DsTasks |-> "none"]
          /\ dsText = [t \in DsTasks |-> 0] /\ dsFinish = 0 /\ dsMarkers = {}
          /\ dsReport = [w \in DsWatches |-> "none"]
          /\ dsStream = [w \in DsWatches |-> CHOOSE s \in DsStreams : TRUE]
          /\ dsWorker = [w \in DsWatches |-> "none"]
          /\ dsHandles = {} /\ dsTold = {} /\ dsFaults = 0

Unused(f, S) == {x \in S : f[x] = "none"}

(* A compose request holds the workers lock from start to end.             *)
ComposeIdle == dsFinish = 0

\* Seeded bug: a replaced or cancelled session is forgotten.
Forget(task, t) == task

(* The dedicated cancel signal; a session that ended has closed it.        *)
Cancel(task, t) == IF t # 0 /\ task[t] = "live" THEN [task EXCEPT ![t] = "told"]
                   ELSE task

(* open_stream_compose: the start marker is published (an error opens      *)
(* nothing), then the session replaces and cancels the one under its key.  *)
ComposeOpens ==
    /\ ComposeIdle /\ Unused(dsTask, DsTasks) # {}
    /\ LET t == Min(Unused(dsTask, DsTasks))
       IN /\ dsSession' = t
          /\ dsTask' = Cancel([dsTask EXCEPT ![t] = "live"], dsSession)
    /\ UNCHANGED <<dsText, dsFinish, dsMarkers, dsWatch, dsFaults>>

(* append_stream_compose; without a session, or with one whose task has    *)
(* ended, the request is an error.                                         *)
ComposeAppends ==
    /\ ComposeIdle /\ dsSession # 0 /\ dsTask[dsSession] = "live"
    /\ dsText[dsSession] < DsMaxText
    /\ dsText' = [dsText EXCEPT ![dsSession] = @ + 1]
    /\ UNCHANGED <<dsSession, dsTask, dsFinish, dsMarkers, dsWatch, dsFaults>>

(* finish_stream_compose: the task answers with its report and ends; an    *)
(* empty text is an error, with the session still in the map.              *)
ComposeFinishes ==
    /\ ComposeIdle /\ dsSession # 0 /\ dsTask[dsSession] = "live"
    /\ dsTask' = [dsTask EXCEPT ![dsSession] = "ended"]
    /\ dsFinish' = IF dsText[dsSession] = 0 THEN 0 ELSE dsSession
    /\ UNCHANGED <<dsSession, dsText, dsMarkers, dsWatch, dsFaults>>

(* The finish marker: only once it is published is the session dropped.    *)
MarkerPublished ==
    /\ dsFinish # 0
    /\ dsMarkers' = dsMarkers \cup {<<dsFinish, dsText[dsFinish]>>}
    /\ dsSession' = 0 /\ dsFinish' = 0
    /\ UNCHANGED <<dsTask, dsText, dsWatch, dsFaults>>

MarkerFails ==
    /\ dsFinish # 0 /\ dsFaults < DsMaxFaults /\ dsFaults' = dsFaults + 1
    /\ dsFinish' = 0
    /\ UNCHANGED <<dsSession, dsTask, dsText, dsMarkers, dsWatch>>

(* cancel_stream_compose.                                                  *)
ComposeCancels ==
    /\ ComposeIdle /\ dsSession # 0
    /\ dsTask' = Cancel(dsTask, dsSession) /\ dsSession' = 0
    /\ UNCHANGED <<dsText, dsFinish, dsMarkers, dsWatch, dsFaults>>

(* A session that was told to cancel sends its abort record and ends.      *)
SessionAborts(t) ==
    /\ dsTask[t] = "told" /\ dsTask' = [dsTask EXCEPT ![t] = "ended"]
    /\ UNCHANGED <<dsSession, dsText, dsFinish, dsMarkers, dsWatch, dsFaults>>

(* StreamWatchWorkers.replace drops the handles of tasks that have ended.  *)
Reaped(handles, worker) == {w \in handles : worker[w] = "live"}

(* spawn_stream_watch for dm stream watch, and for the bridge of the       *)
(* runtime's events, which leaves alone a stream with a running or         *)
(* completed watch (watch_exists).                                         *)
WatchExists(s) == \E w \in DsWatches : dsStream[w] = s
                                        /\ dsReport[w] \in {"running", "finished"}

SpawnsWatch(s) ==
    /\ Unused(dsReport, DsWatches) # {}
    /\ LET w == Min(Unused(dsReport, DsWatches))
       IN /\ dsReport' = [dsReport EXCEPT ![w] = "running"]
          /\ dsStream' = [dsStream EXCEPT ![w] = s]
          /\ dsWorker' = [dsWorker EXCEPT ![w] = "live"]
          /\ dsHandles' = Reaped(dsHandles, dsWorker) \cup {w}
    /\ UNCHANGED <<dsCompose, dsTold, dsFaults>>

WatchRequested(s) == SpawnsWatch(s)
AutoWatches(s) == ~WatchExists(s) /\ SpawnsWatch(s)

\* Seeded bug: the oldest reports are dropped, whatever their status.
PruneOldest(report) ==
    LET kept == {w \in DsWatches : report[w] \in {"running", "finished"}}
    IN [w \in DsWatches |->
          IF w \in kept /\ Cardinality({v \in kept : v > w}) >= DsRetain
          THEN "gone" ELSE report[w]]

(* prune_finished_reports: running reports are kept and leave what room    *)
(* there is to the finished reports that started last.                     *)
Prune(report) ==
    LET running == {w \in DsWatches : report[w] = "running"}
        finished == {w \in DsWatches : report[w] = "finished"}
        room == DsRetain - Cardinality(running)
    IN [w \in DsWatches |->
          IF w \in finished /\ Cardinality({v \in finished : v > w}) >= room
          THEN "gone" ELSE report[w]]

(* finish_stream_watch, completed or failed: a report that is not there    *)
(* is neither finished nor published.                                      *)
WatchEnds(w) ==
    /\ dsWorker[w] = "live" /\ dsWorker' = [dsWorker EXCEPT ![w] = "ended"]
    /\ IF dsReport[w] = "running"
       THEN /\ dsReport' = Prune([dsReport EXCEPT ![w] = "finished"])
            /\ dsTold' = dsTold \cup {w}
       ELSE UNCHANGED <<dsReport, dsTold>>
    /\ UNCHANGED <<dsCompose, dsStream, dsHandles, dsFaults>>

(* server_status lists the reports after it has reaped the handles.        *)
StatusReaps ==
    /\ dsHandles' = Reaped(dsHandles, dsWorker)
    /\ UNCHANGED <<dsCompose, dsReport, dsStream, dsWorker, dsTold, dsFaults>>

(* DaemonWorkers.abort_all: the watches are aborted, the session is told.  *)
WorkersAbort ==
    /\ dsWorker' = [w \in DsWatches |-> IF w \in dsHandles /\ dsWorker[w] = "live"
                                        THEN "aborted" ELSE dsWorker[w]]
    /\ dsHandles' = {}
    /\ dsTask' = Cancel(dsTask, dsSession) /\ dsSession' = 0 /\ dsFinish' = 0
    /\ UNCHANGED <<dsText, dsMarkers, dsReport, dsStream, dsTold, dsFaults>>

DsComposeNext == \/ ComposeOpens \/ ComposeAppends \/ ComposeFinishes
                 \/ MarkerPublished \/ MarkerFails \/ ComposeCancels
                 \/ \E t \in DsTasks : SessionAborts(t)
                 \/ WorkersAbort

DsWatchNext == \/ \E s \in DsStreams : WatchRequested(s) \/ AutoWatches(s)
               \/ \E w \in DsWatches : WatchEnds(w)
               \/ StatusReaps \/ WorkersAbort

DsNext == DsComposeNext \/ DsWatchNext

DsTypeOK ==
    /\ dsSession \in DsTasks \cup {0} /\ dsFinish \in DsTasks \cup {0}
    /\ dsTask \in [DsTasks -> {"none", "live", "told", "ended"}]
    /\ dsText \in [DsTasks -> 0 .. DsMaxText]
    /\ dsMarkers \subseteq DsTasks \X (0 .. DsMaxText)
    /\ dsReport \in [DsWatches -> {"none", "running", "finished", "gone"}]
    /\ dsStream \in [DsWatches -> DsStreams]
    /\ dsWorker \in [DsWatches -> {"none", "live", "ended", "aborted"}]
    /\ dsHandles \subseteq DsWatches /\ dsTold \subseteq DsWatches
    /\ dsFaults \in 0 .. DsMaxFaults

(* No session outlives its place in the workers map without having been    *)
(* told to end; a published finish marker closes its stream once, with all *)
(* the text appended to it (stream_workers.rs, insert, finish and cancel). *)
SessionsAccounted ==
    /\ \A t \in DsTasks : dsTask[t] = "live" => t = dsSession
    /\ \A m \in dsMarkers : /\ m[2] = dsText[m[1]] /\ m[2] > 0
                            /\ dsTask[m[1]] = "ended" /\ dsSession # m[1]

(* Every watch that ran to its end was reported to the subscribers: no     *)
(* pruning and no replacement of workers takes the report of a watch that  *)
(* is still running; and a worker that runs can still be aborted.          *)
WatchesReported ==
    \A w \in DsWatches : /\ dsWorker[w] = "ended" => w \in dsTold
                         /\ dsWorker[w] = "live" => w \in dsHandles
                         /\ dsReport[w] = "gone" => w \in dsTold

-----------------------------------------------------------------------------
(***************************************************************************)
(* A message subscription of the command line's daemon                     *)
(* (crates/cli/src/daemon/subscriptions.rs, protocol.rs, responses.rs).    *)
(* One handler merges five sources into the client's stream: a snapshot of *)
(* the store, the runtime's live updates, the daemon's event hub (its      *)
(* recent events and its live channel), and the previews of agent streams. *)
(* Events arrive while it works through them, and it drops duplicates by   *)
(* identifier.  The subscriptions of the timeline, of the chats and of a   *)
(* group's state forward a single source.                                  *)
(***************************************************************************)

CONSTANTS DuMessages,  \* messages, numbered in the order they are stored
          DuReplay,    \* DAEMON_EVENT_REPLAY_LIMIT and the limit of recent updates
          DuChannel,   \* capacity of a broadcast channel
          DuSnapshot,  \* limit of the snapshot the client asks for
          DuDedup      \* MESSAGE_SUBSCRIPTION_DEDUP_LIMIT

VARIABLES duStored,   \* number of messages stored so far
          duRuntime,  \* messages the runtime subscription has not handed over
          duBridge,   \* messages on the way from the runtime to the hub
          duRecent,   \* the hub's recent messages
          duLive,     \* the hub's channel for this handler
          duPreviews, \* previews: updates published so far
          duPLive,    \* the preview channel for this handler
          duAt,       \* the handler's phase
          duTodo,     \* the messages or previews its phase still has to write
          duSince,    \* messages stored when the client subscribed
          duSeen, duPSeen, \* the identifiers remembered, oldest first
          duOut, duPOut,   \* what the client was sent, in order
          duKind,     \* the subscription: messages, timeline, chats or group
          duFwd,      \* updates forwarded, each with the group's state read for it
          duLagged    \* a channel dropped updates, of which the client is told

duVars == <<duStored, duRuntime, duBridge, duRecent, duLive, duPreviews,
            duPLive, duAt, duTodo, duSince, duSeen, duPSeen, duOut, duPOut,
            duKind, duFwd, duLagged>>
duForward == <<duKind, duFwd>>
duEvents == <<duStored, duBridge, duRecent, duPreviews>>

DuInit == /\ duStored = 0 /\ duRuntime = <<>> /\ duBridge = <<>>
          /\ duRecent = <<>> /\ duLive = <<>> /\ duPreviews = 0 /\ duPLive = <<>>
          /\ duAt = "none" /\ duTodo = <<>> /\ duSince = 0
          /\ duSeen = <<>> /\ duPSeen = <<>> /\ duOut = <<>> /\ duPOut = <<>>
          /\ duKind \in {"messages", "timeline", "chats", "group"} /\ duFwd = <<>>
          /\ duLagged = FALSE

LastOf(s, k) == SubSeq(s, IF Len(s) > k THEN Len(s) - k + 1 ELSE 1, Len(s))

Subscribed == duAt # "none" /\ duAt # "runtime"

(* A message is stored and announced by the runtime: to its subscription,  *)
(* which recovers what it lags behind, and to the daemon's bridge.         *)
RuntimeStores ==
    /\ duStored < Cardinality(DuMessages) /\ duStored' = duStored + 1
    /\ duRuntime' = IF duAt = "none" THEN duRuntime ELSE Append(duRuntime, duStored + 1)
    /\ duBridge' = Append(duBridge, duStored + 1)
    /\ UNCHANGED <<duRecent, duLive, duPreviews, duPLive, duAt, duTodo, duSince,
                   duSeen, duPSeen, duOut, duPOut, duLagged, duForward>>

(* publish_message: to the recent messages, then to the channel, whose     *)
(* oldest entry a slow handler loses.                                      *)
HubPublishes ==
    /\ duBridge # <<>> /\ duBridge' = Tail(duBridge)
    /\ duRecent' = LastOf(Append(duRecent, Head(duBridge)), DuReplay)
    /\ duLive' = IF ~Subscribed THEN duLive
                 ELSE LastOf(Append(duLive, Head(duBridge)), DuChannel)
    /\ duLagged' = (duLagged \/ (Subscribed /\ Len(duLive) = DuChannel))
    /\ UNCHANGED <<duStored, duRuntime, duPreviews, duPLive, duAt, duTodo,
                   duSince, duSeen, duPSeen, duOut, duPOut, duForward>>

(* publish_update of the watch manager; a report is its own fingerprint.   *)
PreviewPublished ==
    /\ duPreviews < DuReplay /\ duPreviews' = duPreviews + 1
    /\ duPLive' = IF ~Subscribed THEN duPLive
                  ELSE LastOf(Append(duPLive, duPreviews + 1), DuChannel)
    /\ duLagged' = (duLagged \/ (Subscribed /\ Len(duPLive) = DuChannel))
    /\ UNCHANGED <<duStored, duRuntime, duBridge, duRecent, duLive, duAt, duTodo,
                   duSince, duSeen, duPSeen, duOut, duPOut, duForward>>

(* subscribe_messages of the runtime: its receiver is registered before    *)
(* the snapshot is read.                                                   *)
RuntimeSubscribes ==
    /\ duKind = "messages" /\ duAt = "none" /\ duAt' = "runtime"
    /\ duSince' = duStored
    /\ duTodo' = LastOf([i \in 1 .. duStored |-> i], DuSnapshot)
    /\ UNCHANGED <<duEvents, duRuntime, duLive, duPLive, duSeen, duPSeen, duOut,
                   duPOut, duLagged, duForward>>

(* The hub and the previews are subscribed to before anything is written.  *)
HubSubscribes ==
    /\ duAt = "runtime" /\ duAt' = "snapshot"
    /\ UNCHANGED <<duEvents, duRuntime, duLive, duPLive, duTodo, duSince, duSeen,
                   duPSeen, duOut, duPOut, duLagged, duForward>>

(* BoundedMessageSubscriptionIds: the oldest identifier is forgotten.      *)
Remember(seen, id) == LastOf(Append(seen, id), DuDedup)

(* write_message_subscription_event: an identifier that is remembered is   *)
(* not written again.                                                      *)
WritesMessage(m) ==
    IF Contains(duSeen, m) THEN UNCHANGED <<duSeen, duOut>>
    ELSE duSeen' = Remember(duSeen, m) /\ duOut' = Append(duOut, m)

WritesPreview(p) ==
    IF Contains(duPSeen, p) THEN UNCHANGED <<duPSeen, duPOut, duForward>>
    ELSE duPSeen' = Remember(duPSeen, p) /\ duPOut' = Append(duPOut, p)

\* Seeded bug: the snapshot is written without being remembered.
WritesUnseen(m) == duOut' = Append(duOut, m) /\ UNCHANGED duSeen

(* A row of the snapshot is remembered and written as it is.               *)
WritesRow(m) == duSeen' = Remember(duSeen, m) /\ duOut' = Append(duOut, m)

SnapshotWrites ==
    /\ duAt = "snapshot" /\ duTodo # <<>>
    /\ WritesRow(Head(duTodo)) /\ duTodo' = Tail(duTodo)
    /\ UNCHANGED <<duEvents, duRuntime, duLive, duPLive, duAt, duSince, duPSeen,
                   duPOut, duLagged, duForward>>

(* The replay of the hub's recent messages, copied under its lock.         *)
ReadsRecent ==
    /\ duAt = "snapshot" /\ duTodo = <<>>
    /\ duAt' = "recent" /\ duTodo' = duRecent
    /\ UNCHANGED <<duEvents, duRuntime, duLive, duPLive, duSince, duSeen, duPSeen,
                   duOut, duPOut, duLagged, duForward>>

RecentWrites ==
    /\ duAt = "recent" /\ duTodo # <<>>
    /\ WritesMessage(Head(duTodo)) /\ duTodo' = Tail(duTodo)
    /\ UNCHANGED <<duEvents, duRuntime, duLive, duPLive, duAt, duSince, duPSeen,
                   duPOut, duLagged, duForward>>

(* The replay of the preview updates, then of the reports of the group.    *)
ReadsPreviews ==
    /\ duAt = "recent" /\ duTodo = <<>>
    /\ duAt' = "previews" /\ duTodo' = [i \in 1 .. duPreviews |-> i]
    /\ UNCHANGED <<duEvents, duRuntime, duLive, duPLive, duSince, duSeen, duPSeen,
                   duOut, duPOut, duLagged, duForward>>

PreviewsWrite ==
    /\ duAt = "previews" /\ duTodo # <<>>
    /\ WritesPreview(Head(duTodo)) /\ duTodo' = Tail(duTodo)
    /\ UNCHANGED <<duEvents, duRuntime, duLive, duPLive, duAt, duSince, duSeen,
                   duOut, duLagged, duForward>>

GoesLive ==
    /\ duAt = "previews" /\ duTodo = <<>> /\ duAt' = "live"
    /\ UNCHANGED <<duEvents, duRuntime, duLive, duPLive, duTodo, duSince, duSeen,
                   duPSeen, duOut, duPOut, duLagged, duForward>>

(* The biased select: the runtime first, then the hub, then the previews.  *)
LiveRuntime ==
    /\ duAt = "live" /\ duRuntime # <<>> /\ duRuntime' = Tail(duRuntime)
    /\ WritesMessage(Head(duRuntime))
    /\ UNCHANGED <<duEvents, duLive, duPLive, duAt, duTodo, duSince, duPSeen,
                   duPOut, duLagged, duForward>>

LiveHub ==
    /\ duAt = "live" /\ duRuntime = <<>> /\ duLive # <<>> /\ duLive' = Tail(duLive)
    /\ WritesMessage(Head(duLive))
    /\ UNCHANGED <<duEvents, duRuntime, duPLive, duAt, duTodo, duSince, duPSeen,
                   duPOut, duLagged, duForward>>

LivePreviews ==
    /\ duAt = "live" /\ duRuntime = <<>> /\ duLive = <<>>
    /\ duPLive # <<>> /\ duPLive' = Tail(duPLive)
    /\ WritesPreview(Head(duPLive))
    /\ UNCHANGED <<duEvents, duRuntime, duLive, duAt, duTodo, duSince, duSeen,
                   duOut, duLagged, duForward>>

(* The other subscriptions: a snapshot is written first, then every update *)
(* as it comes.                                                            *)
ForwardSubscribes ==
    /\ duKind # "messages" /\ duAt = "none" /\ duAt' = "forward"
    /\ duSince' = duStored /\ duFwd' = <<<<duStored, duStored>>>>
    /\ UNCHANGED <<duEvents, duRuntime, duLive, duPLive, duTodo, duSeen, duPSeen,
                   duOut, duPOut, duKind, duLagged>>

(* The receivers of chats and of a group's state skip what they lag        *)
(* behind; the timeline's recovers it with a page.                         *)
ForwardLags ==
    /\ duAt = "forward" /\ duKind \in {"chats", "group"} /\ Len(duRuntime) > DuChannel
    /\ duRuntime' = Tail(duRuntime)
    /\ UNCHANGED <<duEvents, duLive, duPLive, duAt, duTodo, duSince, duSeen, duPSeen,
                   duOut, duPOut, duForward, duLagged>>

\* Seeded bug: the group's state is the one read for the first response.
StaleState(u) == duFwd[1][2]

(* A group's state is read from the engine for every update.               *)
StateFor(u) == IF duKind = "group" THEN duStored ELSE u

Forwards(kind) ==
    /\ duAt = "forward" /\ duKind = kind
    /\ duRuntime # <<>> /\ duRuntime' = Tail(duRuntime)
    /\ duFwd' = Append(duFwd, <<Head(duRuntime), StateFor(Head(duRuntime))>>)
    /\ UNCHANGED <<duEvents, duLive, duPLive, duAt, duTodo, duSince, duSeen, duPSeen,
                   duOut, duPOut, duKind, duLagged>>

TimelineForwards == Forwards("timeline")
ChatForwards == Forwards("chats")
GroupStateForwards == Forwards("group")

(* The client's end is gone: a write fails and the handler returns.        *)
ClientLeaves ==
    /\ duAt \notin {"none", "over"} /\ duAt' = "over" /\ duTodo' = <<>>
    /\ UNCHANGED <<duEvents, duRuntime, duLive, duPLive, duSince, duSeen, duPSeen,
                   duOut, duPOut, duLagged, duForward>>

DuNext == \/ RuntimeStores \/ HubPublishes \/ PreviewPublished
          \/ RuntimeSubscribes \/ HubSubscribes \/ SnapshotWrites \/ ReadsRecent
          \/ RecentWrites \/ ReadsPreviews \/ PreviewsWrite \/ GoesLive
          \/ ForwardSubscribes \/ ForwardLags \/ TimelineForwards
          \/ ChatForwards \/ GroupStateForwards
          \/ LiveRuntime \/ LiveHub \/ LivePreviews \/ ClientLeaves

DuTypeOK ==
    /\ duStored \in 0 .. Cardinality(DuMessages) /\ duSince \in 0 .. duStored
    /\ \A s \in {duRuntime, duBridge, duRecent, duLive, duOut} :
          s \in Seq(DuMessages)
    /\ duPreviews \in 0 .. DuReplay
    /\ duAt \in {"none", "runtime", "snapshot", "recent", "previews", "live", "over",
                "forward"}
    /\ Len(duSeen) <= DuDedup /\ Len(duPSeen) <= DuDedup
    /\ duLagged \in BOOLEAN

Written(s) == {s[i] : i \in 1 .. Len(s)}

(* The client is sent no message and no preview twice, and once the live   *)
(* channels are empty it has every message stored since it subscribed and  *)
(* every preview, unless a channel dropped updates, as the client is told. *)
SubscriptionExact ==
    /\ Cardinality(Written(duOut)) = Len(duOut)
    /\ Cardinality(Written(duPOut)) = Len(duPOut)
    /\ duAt = "live" /\ duRuntime = <<>> =>
          (duSince + 1) .. duStored \subseteq Written(duOut)
    /\ duAt = "live" /\ duPLive = <<>> /\ ~duLagged =>
          1 .. duPreviews \subseteq Written(duPOut)

(* A forwarded update is never followed by an older one, the timeline's    *)
(* stream leaves none out, and the group's state that goes with an update  *)
(* is at least as new as the update.                                       *)
ForwardsInOrder ==
    /\ \A i \in 1 .. Len(duFwd) : duFwd[i][2] >= duFwd[i][1]
    /\ \A i \in 2 .. Len(duFwd) : duFwd[i][1] > duFwd[i - 1][1]
    /\ duKind = "timeline" /\ duAt = "forward" =>
          duFwd[Len(duFwd)][1] + Len(duRuntime) = duStored

=============================================================================
