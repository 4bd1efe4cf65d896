----------------------------- MODULE LivePreview -----------------------------
(***************************************************************************)
(* The live preview of an agent's answer: the compose session of           *)
(* crates/agent-stream-compose, the broker of crates/transport-quic-broker *)
(* and the receivers of that crate and of transport-quic-stream.           *)
(*                                                                         *)
(* A session keeps the whole answer in a local transcript and publishes    *)
(* the same records to a broker room on a best effort.  Subscribers join   *)
(* when they like, read at their own speed, and are dropped by the broker  *)
(* when their queue is full.  A piece is [kind, body]; a record is a piece *)
(* with its seq.  QUIC delivers a stream in order, or loses its tail when  *)
(* the connection goes (external).                                         *)
(***************************************************************************)
EXTENDS Integers, Sequences, FiniteSets

CONSTANTS LpSubscribers,
          LpKinds,        \* what the agent appends: text, status, progress
          LpMaxAppends,   \* pieces of text the agent produces
          LpPendingCap,   \* MAX_PENDING_LIVE_RECORDS
          LpQueueDepth,   \* per_subscriber_queue
          LpBacklogDepth, \* max_backlog
          LpMaxRecords    \* max_records of the receive limits

PieceKinds == {"text", "status", "progress", "abort"}

ASSUME LpAssumption == /\ LpKinds \subseteq PieceKinds \ {"abort"}
                       /\ LpMaxAppends \in Nat /\ LpPendingCap \in Nat /\ LpQueueDepth \in Nat \ {0}
                       /\ LpBacklogDepth \in Nat /\ LpMaxRecords \in Nat

VARIABLES
  lpSession,  \* the compose session
  lpSent,     \* records the publisher has written
  lpStream,   \* the publish stream: "none", "open", "fin", "lost"
  lpTask,     \* the broker's publish task: [at, read]
  lpRoom,     \* the broker's room of this stream
  lpSubs,     \* subscriber -> its stream from the broker and what it has shown
  lpReplay    \* replay_ttl is not zero

lpVars == <<lpSession, lpSent, lpStream, lpTask, lpRoom, lpSubs, lpReplay>>

NoRoom == [present |-> FALSE, subs |-> {}, backlog |-> <<>>, finished |-> FALSE, idle |-> FALSE]
NewRoom == [NoRoom EXCEPT !.present = TRUE]
NoStream == [at |-> "idle", served |-> FALSE, live |-> FALSE, backlog |-> <<>>, queue |-> <<>>,
             shown |-> <<>>, frames |-> 0]

\* split_text_deltas: the pieces a text of the given size is cut into.
SplitText(kind, n, pieces) == [i \in 1..pieces |-> [kind |-> kind, body |-> <<n, i>>]]
\* Consecutive seqs from the next one of the publisher or of the local transcript.
NumberFrom(seq, pieces) ==
  [i \in 1..Len(pieces) |-> [seq |-> seq + i - 1, kind |-> pieces[i].kind, body |-> pieces[i].body]]

-----------------------------------------------------------------------------
(* The compose session.                                                    *)

LpInit ==
  /\ lpSession = [open |-> TRUE, connecting |-> TRUE, publisher |-> FALSE, failed |-> FALSE,
                  entries |-> 0, pending |-> <<>>, local |-> <<>>, appends |-> 0]
  /\ lpSent = <<>> /\ lpStream = "none"
  /\ lpTask = [at |-> "none", read |-> 0]
  /\ lpRoom = NoRoom
  /\ lpSubs = [s \in LpSubscribers |-> NoStream]
  /\ lpReplay \in BOOLEAN

\* append_record_text of the publisher: every piece is written, or the write
\* fails or runs into its deadline after some of them.
Writes(pieces, onSuccess, onFailure, stream) ==
  \/ /\ lpSent' = lpSent \o NumberFrom(Len(lpSent) + 1, pieces)
     /\ lpSession' = onSuccess
     /\ lpStream' = stream
  \/ \E k \in 0..Len(pieces) - 1 :
       /\ lpSent' = lpSent \o NumberFrom(Len(lpSent) + 1, SubSeq(pieces, 1, k))
       /\ lpSession' = onFailure
       /\ lpStream' = "lost"

\* Nothing is buffered any more.
Emptied(session) == [session EXCEPT !.entries = 0, !.pending = <<>>]

\* The publisher goes away and the preview is over; the transcript goes on.
LiveFailed(session) == [Emptied(session) EXCEPT !.failed = TRUE, !.publisher = FALSE]

\* push_bounded: the buffer is bounded in entries, each of some pieces.
PushBounded(session, pieces) ==
  IF session.entries >= LpPendingCap
  THEN [Emptied(session) EXCEPT !.failed = TRUE]
  ELSE [session EXCEPT !.entries = @ + 1, !.pending = @ \o pieces]

\* append_live_record
AppendLive(session, pieces) ==
  IF session.failed \/ ~session.publisher
  THEN /\ lpSession' = IF session.failed THEN session ELSE PushBounded(session, pieces)
       /\ UNCHANGED <<lpSent, lpStream>>
  ELSE Writes(pieces, session, LiveFailed(session), lpStream)

\* Append, Status and Progress: the local transcript first, then the preview.
ComposeAppend ==
  \E kind \in LpKinds, n \in 1..2 :
    LET pieces == SplitText(kind, lpSession.appends + 1, n)
    IN /\ lpSession.open /\ lpSession.appends < LpMaxAppends
       /\ AppendLive([lpSession EXCEPT !.appends = @ + 1,
                                       !.local = @ \o NumberFrom(Len(@) + 1, pieces)], pieces)
       /\ UNCHANGED <<lpTask, lpRoom, lpSubs, lpReplay>>

\* flush_pending_live_records: from front to back, on the new publisher.
FlushPending(session) ==
  Writes(session.pending, Emptied([session EXCEPT !.publisher = TRUE]), LiveFailed(session), "open")

\* The connect task delivers a publisher; a late one is dropped.
ComposeConnected ==
  /\ lpSession.open /\ lpSession.connecting
  /\ LET connected == [lpSession EXCEPT !.connecting = FALSE]
     IN \/ /\ lpSession.failed
           /\ lpSession' = Emptied(connected)
           /\ UNCHANGED <<lpSent, lpStream>>
        \/ ~lpSession.failed /\ FlushPending(connected)
  /\ UNCHANGED <<lpTask, lpRoom, lpSubs, lpReplay>>

\* live_broker_connect_deadline, or an error of the connect.
ComposeConnectFails ==
  /\ lpSession.open /\ lpSession.connecting
  /\ lpSession' = LiveFailed([lpSession EXCEPT !.connecting = FALSE])
  /\ UNCHANGED <<lpSent, lpStream, lpTask, lpRoom, lpSubs, lpReplay>>

\* Finish: a connect in flight is abandoned, a publisher is closed.
ComposeFinish ==
  /\ lpSession.open
  /\ \/ /\ lpSession.publisher
        /\ lpStream' \in {"fin", "lost"}
     \/ ~lpSession.publisher /\ UNCHANGED lpStream
  /\ lpSession' = [lpSession EXCEPT !.open = FALSE, !.connecting = FALSE, !.publisher = FALSE]
  /\ UNCHANGED <<lpSent, lpTask, lpRoom, lpSubs, lpReplay>>

\* Cancel: the connect gets a moment to land, and a publisher says Abort.
\* The pending records are not flushed.
ComposeCancel ==
  /\ lpSession.open
  /\ lpSession' = [lpSession EXCEPT !.open = FALSE, !.connecting = FALSE, !.publisher = FALSE]
  /\ LET abort == NumberFrom(Len(lpSent) + 1, <<[kind |-> "abort", body |-> <<0, 0>>]>>)
     IN \/ /\ ~lpSession.failed /\ (lpSession.publisher \/ lpSession.connecting)
           /\ lpSent' = lpSent \o abort
           /\ lpStream' \in {"fin", "lost"}
        \/ /\ lpStream' = IF lpSession.publisher THEN "lost" ELSE lpStream
           /\ UNCHANGED lpSent
  /\ UNCHANGED <<lpTask, lpRoom, lpSubs, lpReplay>>

\* Every sender of commands is gone.
ComposeAbandoned ==
  /\ lpSession.open
  /\ lpSession' = [lpSession EXCEPT !.open = FALSE, !.connecting = FALSE, !.publisher = FALSE]
  /\ lpStream' = IF lpSession.publisher THEN "lost" ELSE lpStream
  /\ UNCHANGED <<lpSent, lpTask, lpRoom, lpSubs, lpReplay>>

-----------------------------------------------------------------------------
(* The broker's room.  Time passes in LpTick only.                         *)

\* purge_expired_backlog: from the front, as far as the entries are too old.
PurgeBacklog(room) ==
  LET old == {i \in DOMAIN room.backlog : \A j \in 1..i : room.backlog[j].aged}
  IN [room EXCEPT !.backlog = SubSeq(@, Cardinality(old) + 1, Len(@))]

\* purge_expired_rooms
PurgeRooms(room) ==
  IF room.present /\ room.idle /\ (room.finished \/ room.subs = {}) THEN NoRoom ELSE PurgeBacklog(room)

EmptyUnfinished(room) == room.subs = {} /\ room.backlog = <<>> /\ ~room.finished
Touch(room) == IF room.finished THEN room ELSE [room EXCEPT !.idle = FALSE]

\* subscribe: the retained backlog and the queue start under one lock, so
\* nothing falls between them.
Joined(room, s) ==
  LET at == Touch(IF room.present THEN room ELSE NewRoom)
  IN IF at.finished THEN at ELSE [at EXCEPT !.subs = @ \cup {s}]
BrokerSubscribe(s) ==
  LET room == Joined(PurgeRooms(lpRoom), s)
  IN /\ lpSubs[s].at = "idle" /\ ~lpSubs[s].served
     /\ lpRoom' = room
     /\ lpSubs' = [lpSubs EXCEPT ![s] = [NoStream EXCEPT !.at = "reading", !.served = TRUE,
                                           !.live = s \in room.subs,
                                           !.backlog = [i \in DOMAIN room.backlog |-> room.backlog[i].rec]]]
     /\ UNCHANGED <<lpSession, lpSent, lpStream, lpTask, lpReplay>>

\* The broker turns the subscriber away: it is at its connection or stream
\* limit, the handshake is bad, or it is at max_rooms and the room is new.
BrokerSubscribeRefused(s) ==
  /\ lpSubs[s].at = "idle"
  /\ \/ UNCHANGED lpRoom
     \/ ~PurgeRooms(lpRoom).present /\ lpRoom' = PurgeRooms(lpRoom)
  /\ lpSubs' = [lpSubs EXCEPT ![s].at = "failed"]
  /\ UNCHANGED <<lpSession, lpSent, lpStream, lpTask, lpReplay>>

\* wait_for_subscriber: the publish task takes the room, a finished one anew.
BrokerPublishOpens ==
  LET room == PurgeRooms(lpRoom)
  IN /\ lpStream # "none" /\ lpTask.at = "none"
     /\ lpRoom' = IF room.present /\ ~room.finished THEN room ELSE NewRoom
     /\ lpTask' = [lpTask EXCEPT !.at = IF lpRoom'.subs # {} THEN "reading" ELSE "waiting"]
     /\ UNCHANGED <<lpSession, lpSent, lpStream, lpSubs, lpReplay>>

\* The same limits, for the publisher.
BrokerPublishRefused ==
  /\ lpStream # "none" /\ lpTask.at = "none"
  /\ \/ UNCHANGED lpRoom
     \/ ~PurgeRooms(lpRoom).present /\ lpRoom' = PurgeRooms(lpRoom)
  /\ lpTask' = [lpTask EXCEPT !.at = "ended"]
  /\ UNCHANGED <<lpSession, lpSent, lpStream, lpSubs, lpReplay>>

\* The first subscriber came, or PUBLISH_SUBSCRIBER_GRACE ran out.
BrokerWaitEnds ==
  /\ lpTask.at = "waiting"
  /\ lpTask' = [lpTask EXCEPT !.at = "reading"]
  /\ lpRoom' = IF lpRoom.present /\ EmptyUnfinished(lpRoom) THEN NoRoom ELSE lpRoom
  /\ UNCHANGED <<lpSession, lpSent, lpStream, lpSubs, lpReplay>>

\* publish: retain, then hand to every queue with room; the others are dropped.
Retained(room, rec) ==
  IF ~lpReplay THEN room
  ELSE LET longer == Append(room.backlog, [rec |-> rec, aged |-> FALSE])
       IN [room EXCEPT !.backlog = IF Len(longer) > LpBacklogDepth
                                   THEN SubSeq(longer, Len(longer) - LpBacklogDepth + 1, Len(longer))
                                   ELSE longer]
HasSpace(s) == Len(lpSubs[s].queue) < LpQueueDepth /\ lpSubs[s].served
DropSlow(room) == [room EXCEPT !.subs = {s \in @ : HasSpace(s)}]

BrokerPublish ==
  LET purged == PurgeRooms(lpRoom)
      rec == lpSent[lpTask.read + 1]
      room == [Retained(IF purged.present /\ ~purged.finished THEN purged ELSE NewRoom, rec) EXCEPT !.idle = FALSE]
      kept == DropSlow(room)
  IN /\ lpTask.at = "reading" /\ lpTask.read < Len(lpSent) /\ lpTask.read < LpMaxRecords
     /\ lpTask' = [lpTask EXCEPT !.read = @ + 1]
     /\ lpRoom' = IF EmptyUnfinished(kept) THEN NoRoom ELSE kept
     /\ lpSubs' = [s \in LpSubscribers |->
                     IF s \in room.subs /\ HasSpace(s) THEN [lpSubs[s] EXCEPT !.queue = Append(@, rec)]
                     ELSE IF s \in room.subs \ kept.subs THEN [lpSubs[s] EXCEPT !.live = FALSE]
                     ELSE lpSubs[s]]
     /\ UNCHANGED <<lpSession, lpSent, lpStream, lpReplay>>

\* mark_room_finished, when the stream ends, breaks, or is over a limit.
BrokerPublishEnds ==
  LET room == [PurgeRooms(lpRoom) EXCEPT !.subs = {}]
  IN /\ lpTask.at = "reading"
     /\ \/ lpStream = "lost"
        \/ lpStream = "fin" /\ lpTask.read = Len(lpSent)
        \/ lpTask.read < Len(lpSent) /\ lpTask.read >= LpMaxRecords
     /\ lpTask' = [lpTask EXCEPT !.at = "ended"]
     /\ lpRoom' = IF room.backlog = <<>> THEN NoRoom ELSE [room EXCEPT !.finished = TRUE, !.idle = FALSE]
     /\ lpSubs' = [s \in LpSubscribers |-> IF s \in lpRoom.subs THEN [lpSubs[s] EXCEPT !.live = FALSE] ELSE lpSubs[s]]
     /\ UNCHANGED <<lpSession, lpSent, lpStream, lpReplay>>

\* drop_expired_finished_room
BrokerRoomTimer ==
  /\ lpRoom.finished /\ lpRoom.idle
  /\ lpRoom' = NoRoom
  /\ UNCHANGED <<lpSession, lpSent, lpStream, lpTask, lpSubs, lpReplay>>

\* The room's time to live passes, or the oldest retained record grows too old.
LpTick ==
  /\ \/ lpRoom.present /\ ~lpRoom.idle /\ lpRoom' = [lpRoom EXCEPT !.idle = TRUE]
     \/ \E i \in DOMAIN lpRoom.backlog :
          /\ ~lpRoom.backlog[i].aged /\ \A j \in 1..i - 1 : lpRoom.backlog[j].aged
          /\ lpRoom' = [lpRoom EXCEPT !.backlog[i].aged = TRUE]
  /\ UNCHANGED <<lpSession, lpSent, lpStream, lpTask, lpSubs, lpReplay>>

-----------------------------------------------------------------------------
(* The broker's subscribe task and the receiver.                           *)

\* unsubscribe, when the task is done with its subscriber.
Left(room, s) ==
  LET rest == [Touch(PurgeRooms(room)) EXCEPT !.subs = @ \ {s}]
  IN IF rest.present /\ EmptyUnfinished(rest) THEN NoRoom ELSE rest

\* Mutant: only a seq at or below the last one is looked at.
AcceptAnyLater(shown, rec) == rec.seq > Len(shown)
\* The next record accepted is high_water + 1.
Accepts(shown, rec) == rec.seq = Len(shown) + 1

\* One record to the receiver: duplicates are skipped, a gap or a limit is the end.
Received(sub, rec) ==
  LET seen == [sub EXCEPT !.frames = @ + 1]
  IN IF seen.frames > LpMaxRecords THEN [seen EXCEPT !.at = "failed"]
     ELSE IF rec.seq <= Len(sub.shown) THEN seen
     ELSE IF Accepts(sub.shown, rec) THEN [seen EXCEPT !.shown = Append(@, rec)]
     ELSE [seen EXCEPT !.at = "failed"]

SubscriberReads(s) ==
  LET sub == lpSubs[s]
  IN /\ sub.at = "reading" /\ sub.served
     /\ \/ /\ sub.backlog # <<>>
           /\ lpSubs' = [lpSubs EXCEPT ![s] = Received([sub EXCEPT !.backlog = Tail(@)], Head(sub.backlog))]
        \/ /\ sub.backlog = <<>> /\ sub.queue # <<>>
           /\ lpSubs' = [lpSubs EXCEPT ![s] = Received([sub EXCEPT !.queue = Tail(@)], Head(sub.queue))]
     /\ UNCHANGED <<lpSession, lpSent, lpStream, lpTask, lpRoom, lpReplay>>

\* The queue is closed and drained: a clean end, which is an error if empty.
SubscriberEnds(s) ==
  LET sub == lpSubs[s]
  IN /\ sub.at = "reading" /\ sub.served /\ ~sub.live /\ sub.backlog = <<>> /\ sub.queue = <<>>
     /\ lpSubs' = [lpSubs EXCEPT ![s].served = FALSE,
                                 ![s].at = IF sub.shown = <<>> THEN "failed" ELSE "ended"]
     /\ lpRoom' = Left(lpRoom, s)
     /\ UNCHANGED <<lpSession, lpSent, lpStream, lpTask, lpReplay>>

\* The receiver's read deadline.
SubscriberTimesOut(s) ==
  /\ lpSubs[s].at = "reading" /\ lpSubs[s].served /\ lpSubs[s].backlog = <<>> /\ lpSubs[s].queue = <<>>
  /\ lpSubs' = [lpSubs EXCEPT ![s].at = "failed"]
  /\ UNCHANGED <<lpSession, lpSent, lpStream, lpTask, lpRoom, lpReplay>>

\* The broker learns of a gone receiver at its next write.
BrokerWriteFails(s) ==
  /\ lpSubs[s].at = "failed" /\ lpSubs[s].served
  /\ lpSubs[s].backlog # <<>> \/ lpSubs[s].queue # <<>> \/ ~lpSubs[s].live
  /\ lpSubs' = [lpSubs EXCEPT ![s].served = FALSE, ![s].live = FALSE, ![s].backlog = <<>>, ![s].queue = <<>>]
  /\ lpRoom' = Left(lpRoom, s)
  /\ UNCHANGED <<lpSession, lpSent, lpStream, lpTask, lpReplay>>

LpNext ==
  \/ ComposeAppend \/ ComposeConnected \/ ComposeConnectFails \/ ComposeFinish \/ ComposeCancel \/ ComposeAbandoned
  \/ BrokerPublishOpens \/ BrokerPublishRefused \/ BrokerWaitEnds \/ BrokerPublish \/ BrokerPublishEnds
  \/ BrokerRoomTimer \/ LpTick
  \/ \E s \in LpSubscribers : \/ BrokerSubscribe(s) \/ BrokerSubscribeRefused(s) \/ SubscriberReads(s)
                              \/ SubscriberEnds(s) \/ SubscriberTimesOut(s) \/ BrokerWriteFails(s)

LpSpec == LpInit /\ [][LpNext]_lpVars

-----------------------------------------------------------------------------
LpPiece == [kind : PieceKinds, body : Nat \X Nat]
LpRecord == [seq : Nat, kind : PieceKinds, body : Nat \X Nat]

\* A room and a receiver of the given records.
LpRooms(records) ==
  {room \in [present : BOOLEAN, subs : SUBSET LpSubscribers,
             backlog : Seq([rec : records, aged : BOOLEAN]), finished : BOOLEAN, idle : BOOLEAN] :
     Len(room.backlog) <= LpBacklogDepth}
LpReceivers(records) ==
  {sub \in [at : {"idle", "reading", "ended", "failed"}, served : BOOLEAN, live : BOOLEAN,
            backlog : Seq(records), queue : Seq(records), shown : Seq(records), frames : Nat] :
     Len(sub.queue) <= LpQueueDepth}

LpTypeOK ==
  /\ lpSession \in [open : BOOLEAN, connecting : BOOLEAN, publisher : BOOLEAN, failed : BOOLEAN,
                    entries : 0..LpPendingCap, pending : Seq(LpPiece), local : Seq(LpRecord),
                    appends : 0..LpMaxAppends]
  /\ lpSent \in Seq(LpRecord) /\ lpStream \in {"none", "open", "fin", "lost"}
  /\ lpTask \in [at : {"none", "waiting", "reading", "ended"}, read : 0..Len(lpSent)]
  /\ lpRoom \in LpRooms(LpRecord) /\ lpReplay \in BOOLEAN
  /\ lpSubs \in [LpSubscribers -> LpReceivers(LpRecord)]

(* What a subscriber has shown at any moment is a beginning of the answer  *)
(* the session keeps, with at most an Abort after it: whatever was         *)
(* buffered before the connect, cut off by a deadline, dropped from the    *)
(* backlog or missed by a slow queue, no piece is skipped or reordered     *)
(* without the receiver giving up (client.rs subscribe loop, state.rs      *)
(* subscribe and publish, compose lib.rs flush_pending_live_records).      *)
PreviewIsPrefix ==
  \A s \in LpSubscribers :
    LET shown == lpSubs[s].shown
        local == lpSession.local
    IN \A i \in 1 .. Len(shown) :
         \/ i <= Len(local) /\ shown[i] = local[i]
         \/ i = Len(shown) /\ shown[i].kind = "abort"
=============================================================================
