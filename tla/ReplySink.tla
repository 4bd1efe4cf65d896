------------------------------ MODULE ReplySink ------------------------------
(***************************************************************************)
(* How one agent turn's reply reaches a group through the OpenClaw adapter *)
(* (integrations/openclaw/marmot/src: dispatch.ts MarmotReplySink, live.ts *)
(* MarmotLivePreview).  Reply deliveries arrive one after the other, while *)
(* partial snapshots and status lines race them; the live preview is       *)
(* finalized into the durable reply, or given up for a plain durable send. *)
(* A request to the connector may be refused, or carried out with its      *)
(* answer lost.  A text is a prefix 0 .. RsLen of the answer.              *)
(***************************************************************************)
EXTENDS Integers, Sequences, SequencesExt

CONSTANTS RsLen,        \* length of the answer
          RsSide,       \* partial and status callbacks (bound)
          RsAttempts,   \* sendFinal: the first attempt and its two retries
          RsMaxFaults   \* bound

VARIABLES rsMode,      \* configuration: "off", "block", "partial"
          rsBegin,     \* the preview's begin: "none", "pending", "done"
          rsClosed, rsAbandoned, rsFinalized, rsPartial,
          rsDelivered, \* a block was delivered
          rsText,      \* appendOnly.current
          rsLocal,     \* the local transcript: <<from, to>> pieces
          rsRemote,    \* the connector's transcript of the stream
          rsStream,    \* "none", "live", "over": the stream at the connector
          rsLatest,    \* latestAnswerText
          rsCalls,     \* 0: deliveries and flush; 1 .. RsSide: callbacks
          rsPosts,     \* durable replies in the group
          rsKeyUsed,   \* the reply's idempotency key is known to the connector
          rsTry, rsFaults,
          rsFinalizeLost   \* an answer to stream_finalize was lost

rsVars == <<rsMode, rsBegin, rsClosed, rsAbandoned, rsFinalized, rsPartial,
            rsDelivered, rsText, rsLocal, rsRemote, rsStream, rsLatest, rsCalls, rsPosts,
            rsKeyUsed, rsTry, rsFaults, rsFinalizeLost>>
rsPreview == <<rsBegin, rsClosed, rsAbandoned, rsText, rsLocal>>
rsConnector == <<rsRemote, rsStream, rsPosts, rsKeyUsed>>

RsIds == 0 .. RsSide
RsCall(at, to) == [at |-> at, to |-> to, from |-> 0]

RsInit ==
    /\ rsMode \in {"off", "block", "partial"}
    /\ rsBegin = "none" /\ rsClosed = FALSE /\ rsAbandoned = FALSE
    /\ rsFinalized = FALSE /\ rsPartial = FALSE /\ rsDelivered = FALSE
    /\ rsText = 0 /\ rsLocal = <<>> /\ rsRemote = <<>> /\ rsStream = "none" /\ rsLatest = 0
    /\ rsCalls = [c \in RsIds |-> RsCall("idle", 0)]
    /\ rsPosts = 0 /\ rsKeyUsed = FALSE /\ rsTry = 0 /\ rsFaults = 0
    /\ rsFinalizeLost = FALSE

CallTo(c, at) == rsCalls' = [rsCalls EXCEPT ![c].at = at]
Ended(c) == IF c = 0 THEN "idle" ELSE "done"
Fault == rsFaults < RsMaxFaults /\ rsFaults' = rsFaults + 1
Streaming == rsMode # "off" /\ ~rsAbandoned

(* A preview operation enters: a closed preview refuses, a first call      *)
(* starts stream_begin, the others wait for the same promise.              *)
EnterPreview(c, to) ==
    /\ rsCalls' = [rsCalls EXCEPT ![c] =
                     RsCall(IF rsClosed THEN "failing" ELSE "begun", to)]
    /\ rsBegin' = IF rsBegin = "none" /\ ~rsClosed THEN "pending" ELSE rsBegin

(* partial: a callback of the dispatcher (status and progress lines enter  *)
(* the preview the same way; their records are left out).                  *)
Callback(c) ==
    /\ rsCalls[c].at = "idle" /\ rsCalls[0].at # "over"
    /\ \E to \in rsLatest .. RsLen :
         IF Streaming
         THEN EnterPreview(c, to) /\ UNCHANGED rsLatest
         ELSE CallTo(c, "done") /\ rsLatest' = to /\ UNCHANGED rsBegin
    /\ UNCHANGED <<rsMode, rsDelivered, rsClosed, rsAbandoned, rsFinalized, rsPartial, rsText,
                   rsLocal, rsTry, rsFaults, rsFinalizeLost>>
    /\ UNCHANGED rsConnector

(* deliver, a block: ignored once partials own the preview.                *)
DeliverBlock ==
    /\ rsCalls[0].at = "idle" /\ ~rsFinalized /\ rsLatest < RsLen /\ ~rsPartial
    /\ rsLatest' = rsLatest + 1 /\ rsDelivered' = TRUE
    /\ IF Streaming THEN EnterPreview(0, rsLatest + 1)
       ELSE UNCHANGED <<rsCalls, rsBegin>>
    /\ UNCHANGED <<rsMode, rsClosed, rsAbandoned, rsFinalized, rsPartial, rsText,
                   rsLocal, rsTry, rsFaults, rsFinalizeLost>>
    /\ UNCHANGED rsConnector

(* deliver, the final, or flush at the end of the turn; the text comes from*)
(* the session store or from the deliveries (bestFinalText) and need not   *)
(* extend what was streamed: -1 stands for such a text.                    *)
Commit ==
    /\ rsCalls[0].at = "idle" /\ ~rsFinalized
    /\ \E to \in {-1, RsLen} :
         rsCalls' = [rsCalls EXCEPT ![0] =
                       RsCall(IF rsBegin = "done" /\ ~rsClosed /\ ~rsAbandoned
                              THEN "finalizing" ELSE "sending", to)]
    /\ rsFinalized' = TRUE
    /\ UNCHANGED <<rsMode, rsDelivered, rsPartial, rsLatest, rsTry, rsFaults, rsFinalizeLost>>
    /\ UNCHANGED rsPreview /\ UNCHANGED rsConnector

(* flush without a reply (no text at all, or in block mode only partials): *)
(* nothing is posted and an active preview is abandoned.                   *)
FlushNothing ==
    /\ rsCalls[0].at = "idle" /\ ~rsFinalized
    /\ \/ rsLatest = 0
       \/ /\ rsMode = "block" /\ ~rsDelivered
          /\ \E c \in 1 .. RsSide : rsCalls[c].at # "idle"
    /\ CallTo(0, "empty")
    /\ IF rsBegin = "done" /\ ~rsClosed
       THEN rsClosed' = TRUE /\ rsAbandoned' = TRUE /\ rsStream' \in {rsStream, "over"}
       ELSE UNCHANGED <<rsClosed, rsAbandoned, rsStream>>
    /\ UNCHANGED <<rsMode, rsBegin, rsFinalized, rsPartial, rsDelivered, rsText,
                   rsLocal, rsRemote, rsLatest, rsPosts, rsKeyUsed, rsTry,
                   rsFaults, rsFinalizeLost>>

(* stream_begin is answered; a failure fails every call that waits for it. *)
BeginAnswered ==
    /\ rsBegin = "pending" /\ rsBegin' = "done" /\ rsStream' = "live"
    /\ UNCHANGED <<rsMode, rsDelivered, rsClosed, rsAbandoned, rsFinalized, rsPartial, rsText,
                   rsLocal, rsRemote, rsLatest, rsCalls, rsPosts, rsKeyUsed,
                   rsTry, rsFaults, rsFinalizeLost>>

BeginFails ==
    /\ rsBegin = "pending" /\ Fault /\ rsBegin' = "none"
    /\ rsStream' \in {"none", "over"}
    /\ rsCalls' = [c \in RsIds |-> IF rsCalls[c].at = "begun"
                                   THEN [rsCalls[c] EXCEPT !.at = "failing"]
                                   ELSE rsCalls[c]]
    /\ UNCHANGED <<rsMode, rsDelivered, rsClosed, rsAbandoned, rsFinalized, rsPartial, rsText,
                   rsLocal, rsRemote, rsLatest, rsPosts, rsKeyUsed, rsTry,
                   rsFinalizeLost>>

(* update, after its begin: the terminal state and the prefix are checked  *)
(* again; the suffix is taken from the text known now.                     *)
AppendRequested(c) ==
    /\ rsCalls[c].at = "begun" /\ rsBegin = "done"
    /\ rsCalls' = [rsCalls EXCEPT ![c].at =
                     IF rsClosed THEN "failing"
                     ELSE IF rsCalls[c].to < rsText THEN "rewrite"
                     ELSE IF rsCalls[c].to = rsText THEN Ended(c)
                     ELSE "append",
                   ![c].from = rsText]
    /\ UNCHANGED <<rsMode, rsDelivered, rsFinalized, rsPartial, rsLatest, rsTry, rsFaults,
                   rsFinalizeLost>>
    /\ UNCHANGED rsPreview /\ UNCHANGED rsConnector

(* The connector carries an append out, when the stream still lives.       *)
AppendLands(c) ==
    /\ rsCalls[c].at \in {"append", "lastappend"} /\ rsStream = "live"
    /\ rsRemote' = Append(rsRemote, <<rsCalls[c].from, rsCalls[c].to>>)
    /\ \/ /\ CallTo(c, IF c = 0 /\ rsFinalized THEN "lastlanded" ELSE "landed")
          /\ UNCHANGED rsFaults
       \/ Fault /\ CallTo(c, "failing")
    /\ UNCHANGED <<rsMode, rsDelivered, rsFinalized, rsPartial, rsStream, rsLatest, rsPosts,
                   rsKeyUsed, rsTry, rsFinalizeLost>>
    /\ UNCHANGED rsPreview

AppendRefused(c) ==
    /\ rsCalls[c].at \in {"append", "lastappend"}
    /\ \/ Fault
       \/ rsStream # "live" /\ UNCHANGED rsFaults
    /\ CallTo(c, "failing")
    /\ UNCHANGED <<rsMode, rsDelivered, rsFinalized, rsPartial, rsLatest, rsTry,
                   rsFinalizeLost>>
    /\ UNCHANGED rsPreview /\ UNCHANGED rsConnector

(* The append's answer: transcript first, then the text, which may have    *)
(* moved past this call's text meanwhile.                                  *)
AppendCommitted(c) ==
    /\ rsCalls[c].at \in {"landed", "lastlanded"}
    /\ rsLocal' = Append(rsLocal, <<rsCalls[c].from, rsCalls[c].to>>)
    /\ IF rsCalls[c].to < rsText
       THEN CallTo(c, "rewrite") /\ UNCHANGED <<rsText, rsPartial, rsLatest>>
       ELSE /\ rsText' = rsCalls[c].to
            /\ CallTo(c, IF rsCalls[c].at = "landed" THEN Ended(c) ELSE "finalize")
            /\ rsPartial' = (rsPartial \/ c # 0)
            /\ rsLatest' = IF c # 0 THEN rsCalls[c].to ELSE rsLatest
    /\ UNCHANGED <<rsMode, rsDelivered, rsBegin, rsClosed, rsAbandoned, rsFinalized, rsTry,
                   rsFaults, rsFinalizeLost>>
    /\ UNCHANGED rsConnector

(* A non-append-only partial is skipped; for a block or the final it is a  *)
(* failure.                                                                *)
Rewrite(c) ==
    /\ rsCalls[c].at = "rewrite"
    /\ IF c = 0 THEN CallTo(c, "failing") /\ UNCHANGED rsPartial
       ELSE CallTo(c, "done") /\ rsPartial' = FALSE
    /\ UNCHANGED <<rsMode, rsDelivered, rsFinalized, rsLatest, rsTry, rsFaults,
                   rsFinalizeLost>>
    /\ UNCHANGED rsPreview /\ UNCHANGED rsConnector

(* abandonPreview: the preview is closed at once, then cancelled at the    *)
(* connector, best effort, after a pending begin.                          *)
AbandonPreview(c) ==
    /\ rsCalls[c].at = "failing"
    /\ rsAbandoned' = TRUE /\ rsClosed' = TRUE
    /\ CallTo(c, IF rsClosed THEN "abandoned" ELSE "cancel")
    /\ IF c # 0 THEN rsPartial' = FALSE /\ rsLatest' = 0
       ELSE UNCHANGED <<rsPartial, rsLatest>>
    /\ UNCHANGED <<rsMode, rsDelivered, rsBegin, rsFinalized, rsText, rsLocal, rsTry, rsFaults,
                   rsFinalizeLost>>
    /\ UNCHANGED rsConnector

StreamCancelled(c) ==
    /\ rsCalls[c].at = "cancel" /\ rsBegin # "pending"
    /\ CallTo(c, "abandoned")
    /\ \/ rsStream' = (IF rsBegin = "done" THEN "over" ELSE rsStream)
          /\ UNCHANGED rsFaults
       \/ Fault /\ UNCHANGED rsStream
    /\ UNCHANGED <<rsMode, rsDelivered, rsFinalized, rsPartial, rsRemote, rsLatest, rsPosts,
                   rsKeyUsed, rsTry, rsFinalizeLost>>
    /\ UNCHANGED rsPreview

(* Mutant: a commit whose preview failed counts as done.                   *)
GiveUp(c) == IF c = 0 /\ rsFinalized THEN "over" ELSE Ended(c)

(* After an abandoned preview the final still goes out durably.            *)
Fallback(c) == IF c = 0 /\ rsFinalized THEN "sending" ELSE Ended(c)

Abandoned(c) ==
    /\ rsCalls[c].at = "abandoned" /\ CallTo(c, Fallback(c))
    /\ UNCHANGED <<rsMode, rsDelivered, rsFinalized, rsPartial, rsLatest, rsTry, rsFaults,
                   rsFinalizeLost>>
    /\ UNCHANGED rsPreview /\ UNCHANGED rsConnector

(* MarmotLivePreview.finalize: the rest of the text is appended first.     *)
Finalizing ==
    /\ rsCalls[0].at = "finalizing"
    /\ rsCalls' = [rsCalls EXCEPT ![0].at =
                     IF rsClosed \/ rsCalls[0].to < rsText THEN "failing"
                     ELSE IF rsCalls[0].to = rsText THEN "finalize"
                     ELSE "lastappend",
                   ![0].from = rsText]
    /\ UNCHANGED <<rsMode, rsDelivered, rsFinalized, rsPartial, rsLatest, rsTry, rsFaults,
                   rsFinalizeLost>>
    /\ UNCHANGED rsPreview /\ UNCHANGED rsConnector

(* The pieces form the text.                                               *)
Spells(pieces, to) ==
    /\ pieces # <<>> /\ pieces[1][1] = 0 /\ Last(pieces)[2] = to
    /\ \A i \in 2 .. Len(pieces) : pieces[i][1] = pieces[i - 1][2]

(* stream_finalize at the connector: the text and the transcript must      *)
(* match; the stream is gone in any case.                                  *)
StreamFinalized ==
    /\ rsCalls[0].at = "finalize"
    /\ rsStream' = "over"
    /\ LET ok == /\ rsStream = "live" /\ rsLocal = rsRemote
                 /\ Spells(rsRemote, rsCalls[0].to)
       IN  /\ rsPosts' = IF ok THEN rsPosts + 1 ELSE rsPosts
           /\ \/ /\ CallTo(0, IF ok THEN "over" ELSE "failing")
                 /\ rsClosed' = (ok \/ rsClosed)
                 /\ UNCHANGED <<rsFaults, rsFinalizeLost>>
              \/ /\ Fault /\ CallTo(0, "failing")
                 /\ rsFinalizeLost' = (ok \/ rsFinalizeLost) /\ UNCHANGED rsClosed
    /\ UNCHANGED <<rsMode, rsDelivered, rsBegin, rsAbandoned, rsFinalized, rsPartial, rsText,
                   rsLocal, rsRemote, rsLatest, rsKeyUsed, rsTry>>

(* Mutant: every attempt has a key of its own.                             *)
FreshKeyEachTime == FALSE

(* One idempotency key for all attempts of this reply.                     *)
KnownKey == rsKeyUsed

(* sendFinal, one attempt: the connector posts unless it knows the key; a  *)
(* retryable failure is tried again, the last one is thrown.               *)
SendsFinal ==
    /\ rsCalls[0].at = "sending"
    /\ \/ /\ rsPosts' = IF KnownKey THEN rsPosts ELSE rsPosts + 1
          /\ rsKeyUsed' = TRUE
          /\ \/ CallTo(0, "over") /\ UNCHANGED <<rsFaults, rsTry>>
             \/ /\ Fault /\ rsTry' = rsTry + 1
                /\ CallTo(0, IF rsTry + 1 < RsAttempts THEN "sending" ELSE "failed")
       \/ /\ Fault /\ rsTry' = rsTry + 1
          /\ \E retryable \in BOOLEAN :
               CallTo(0, IF retryable /\ rsTry + 1 < RsAttempts THEN "sending"
                         ELSE "failed")
          /\ UNCHANGED <<rsPosts, rsKeyUsed>>
    /\ UNCHANGED <<rsMode, rsDelivered, rsFinalized, rsPartial, rsRemote, rsStream, rsLatest,
                   rsFinalizeLost>>
    /\ UNCHANGED rsPreview

RsNext == \/ \E c \in 1 .. RsSide : Callback(c)
          \/ DeliverBlock \/ Commit \/ FlushNothing
          \/ BeginAnswered \/ BeginFails \/ Finalizing \/ StreamFinalized
          \/ SendsFinal
          \/ \E c \in RsIds : \/ AppendRequested(c) \/ AppendLands(c)
                              \/ AppendRefused(c) \/ AppendCommitted(c)
                              \/ Rewrite(c) \/ AbandonPreview(c)
                              \/ StreamCancelled(c) \/ Abandoned(c)

RsTypeOK ==
    /\ rsBegin \in {"none", "pending", "done"}
    /\ rsStream \in {"none", "live", "over"}
    /\ rsText \in 0 .. RsLen /\ rsLatest \in 0 .. RsLen
    /\ rsTry \in 0 .. RsAttempts
    /\ \A c \in RsIds : rsCalls[c].to \in -1 .. RsLen /\ rsCalls[c].from \in 0 .. RsLen

(* A committed reply is in the group: through failed, refused and racing   *)
(* preview requests a turn that ends without an error has posted its       *)
(* answer, and, unless the answer to stream_finalize was lost, exactly     *)
(* once, however often the durable send was retried (commit, sendFinal).   *)
ReplyPosted ==
    /\ rsCalls[0].at = "over" => rsPosts >= 1
    /\ ~rsFinalizeLost => rsPosts <= 1
=============================================================================
