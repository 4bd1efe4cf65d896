--------------------------- MODULE GroupMembership ---------------------------
(***************************************************************************)
(* A member of one group from its welcome to its departure, in             *)
(* crates/cgka-engine/src: group creation and welcomes                     *)
(* (group_lifecycle.rs), the durable leave request with its send gate and  *)
(* its re-proposal in every new epoch (message_processor/send.rs), the     *)
(* automatic commit of a self-removal by the remaining members after a     *)
(* jitter (message_processor/ingest.rs, auto_committer.rs), and what a     *)
(* restart restores (engine.rs).                                           *)
(*                                                                         *)
(* gmChain is the history all members agree on: the module Convergence is  *)
(* about how they come to agree, here the first published commit of an     *)
(* epoch is the accepted one.  An epoch e is the entry e + 1 of the chain. *)
(***************************************************************************)
EXTENDS Integers, Sequences, FiniteSets

CONSTANTS GmPeers,        \* the remaining members
          GmMaxEpoch,     \* bound on the history
          GmMaxFaults     \* bound on failed calls and restarts

VARIABLES gmChain,    \* accepted states: is the member in, is it an admin
          gmMe,       \* the member's engine
          gmReq,      \* stored leave request: epoch last proposed, or a tag
          gmMem,      \* the leave request in memory
          gmGate,     \* the group is in leaving_groups
          gmRows,     \* epochs with a Sent proposal row
          gmOut,      \* proposals handed to the transport, not yet published
          gmRelay,    \* published proposals, by source epoch
          gmMade,     \* how many proposals for an epoch were handed over
          gmWelcomes, \* epochs of welcomes the relays hold for the member
          gmPeer,     \* the engines of the others
          gmWants,    \* the user asked to leave and is not yet out
          gmDue,      \* a drain is owed: a pass, an own commit or an open ended
          gmLost,     \* epochs whose proposal was not handed over or published
          gmLeaked,   \* something else was sent while leaving
          gmFaults

gmVars == <<gmChain, gmMe, gmReq, gmMem, gmGate, gmRows, gmOut, gmRelay, gmMade,
            gmWelcomes, gmPeer, gmWants, gmDue, gmLost, gmLeaked, gmFaults>>
gmTransport == <<gmOut, gmRelay, gmWelcomes>>
gmHistory == <<gmChain, gmPeer, gmWelcomes>>

GmEpochs == 0..GmMaxEpoch
NoRequest == -2                    \* no leave request
Unproposed == -1                   \* a request without a proposal yet
LastEpoch == Len(gmChain) - 1
GroupState(e) == gmChain[e + 1]
GmFault == gmFaults < GmMaxFaults /\ gmFaults' = gmFaults + 1

\* The engine of the member: its epoch, what the group record says of it, the
\* live OpenMLS group, an own commit awaiting its publish outcome.
Outside == [epoch |-> 0, rec |-> "none", live |-> FALSE, pending |-> FALSE,
            up |-> TRUE, quarantined |-> FALSE]
\* The engine of another member: its epoch, the proposals it stored and has
\* scheduled, the automatic commit in publication, a commit that survived a
\* restart without its ref, and the epochs in which it lost a schedule.
PeerEngine(e) == [epoch |-> e, rows |-> {}, sched |-> {}, staged |-> NoRequest,
            stranded |-> FALSE, failed |-> {}]

(* do_create_group by a peer: the first entry of the history has the        *)
(* invitee, its welcome is on the relays, and the invitee is an admin if it  *)
(* was among the initial ones.  Or a database of an older release is opened, *)
(* which holds a sent proposal and no request.                               *)
GmInit ==
    /\ gmPeer = [p \in GmPeers |-> PeerEngine(0)] /\ gmFaults = 0
    /\ gmReq = NoRequest /\ gmMem = NoRequest /\ gmGate = FALSE /\ gmOut = {}
    /\ gmDue = FALSE /\ gmLost = {} /\ gmLeaked = FALSE
    /\ \/ /\ \E adm \in BOOLEAN : gmChain = <<[in |-> TRUE, admin |-> adm]>>
          /\ gmWelcomes = {0} /\ gmMe = Outside /\ gmWants = FALSE
          /\ gmRows = {} /\ gmRelay = {} /\ gmMade = [e \in GmEpochs |-> 0]
       \/ /\ gmChain = <<[in |-> TRUE, admin |-> FALSE]>> /\ gmWelcomes = {}
          /\ gmMe = [Outside EXCEPT !.rec = "member", !.live = TRUE, !.up = FALSE]
          /\ gmRows = {0} /\ gmRelay = {0} /\ gmWants = TRUE
          /\ gmMade = [e \in GmEpochs |-> IF e = 0 THEN 1 ELSE 0]

-----------------------------------------------------------------------------
(* Leave requests                                                          *)

\* Seeded bug: the gate trusts memory and is open until something loads it.
LoadedFromMemory == gmMem

\* load_leave_request_state: memory first, then storage.
Loaded == IF gmMem # NoRequest THEN gmMem ELSE gmReq
\* has_leave_send_gate.
Gated == Loaded # NoRequest \/ gmGate
GmStable(me) == me.up /\ ~me.quarantined /\ ~me.pending

\* clear_leave_request_state.
ClearRequest == gmReq' = NoRequest /\ gmMem' = NoRequest /\ gmGate' = FALSE

\* Seeded bug: the epoch of the proposal is not noted in the request.
RecordProposalUndated(e) ==
    /\ gmRows' = gmRows \cup {e} /\ gmMade' = [gmMade EXCEPT ![e] = @ + 1]
    /\ gmReq' = Unproposed /\ gmMem' = Unproposed /\ gmGate' = TRUE
    /\ gmOut' = gmOut \cup {e} /\ UNCHANGED <<gmLost, gmFaults>>

(* record_sent_openmls_message_with_leave_request: the row and the request  *)
(* in one transaction, then a marker whose failure leaves them stored while *)
(* the caller gets an error instead of the message.                         *)
RecordProposal(e) ==
    /\ gmRows' = gmRows \cup {e} /\ gmReq' = e
    /\ \/ /\ gmMem' = e /\ gmGate' = TRUE /\ gmOut' = gmOut \cup {e}
          /\ gmMade' = [gmMade EXCEPT ![e] = @ + 1] /\ gmLost' = gmLost \ {e}
          /\ UNCHANGED gmFaults
       \/ /\ GmFault /\ gmLost' = gmLost \cup {e} /\ gmMem' = Loaded
          /\ gmGate' = (gmGate \/ Loaded # NoRequest) /\ UNCHANGED <<gmMade, gmOut>>

\* prepare_self_remove_proposal: a live group, Stable, and not an admin.
MayPropose(me) == me.live /\ GmStable(me) /\ ~GroupState(me.epoch).admin

(* do_send_leave: refused when this epoch already has a proposal.           *)
RequestLeave ==
    /\ gmMe.rec = "member" /\ GmStable(gmMe)
    /\ IF Loaded = gmMe.epoch
       THEN /\ gmGate' = TRUE /\ gmMem' = Loaded
            /\ UNCHANGED <<gmReq, gmRows, gmOut, gmMade, gmWants, gmLost, gmFaults>>
       ELSE /\ MayPropose(gmMe) /\ RecordProposal(gmMe.epoch) /\ gmWants' = TRUE
    /\ UNCHANGED <<gmMe, gmRelay, gmDue, gmLeaked, gmHistory>>

\* Seeded bug: a proposal of an earlier epoch is taken for a current one.
ReproposeKeepsOld(me) ==
    /\ gmGate' = (Loaded # NoRequest) /\ gmMem' = Loaded
    /\ UNCHANGED <<gmReq, gmRows, gmOut, gmMade, gmLost, gmFaults>>

(* auto_repropose_leave_request over the engine state me.                   *)
Repropose(me) ==
    IF Loaded = NoRequest
    THEN gmGate' = FALSE
         /\ UNCHANGED <<gmReq, gmMem, gmRows, gmOut, gmMade, gmLost, gmFaults>>
    ELSE IF me.rec # "member"
    THEN ClearRequest /\ UNCHANGED <<gmRows, gmOut, gmMade, gmLost, gmFaults>>
    ELSE IF Loaded = me.epoch \/ ~MayPropose(me)
    THEN gmGate' = TRUE /\ gmMem' = Loaded
         /\ UNCHANGED <<gmReq, gmRows, gmOut, gmMade, gmLost, gmFaults>>
    ELSE RecordProposal(me.epoch)

(* converge_and_drain_queued_outbound_intents: re-propose, and send nothing *)
(* that was queued while a request is open.                                 *)
DrainGroup ==
    /\ gmMe.rec # "none" /\ GmStable(gmMe) /\ Repropose(gmMe) /\ gmDue' = FALSE
    /\ UNCHANGED <<gmMe, gmRelay, gmWants, gmLeaked, gmHistory>>

(* do_send of anything but a leave: refused while leaving.  A commit is     *)
(* pending until its publish outcome.                                       *)
SendOther(commit) ==
    /\ gmMe.rec = "member" /\ gmMe.live /\ GmStable(gmMe) /\ ~Gated
    /\ gmLeaked' = (gmLeaked \/ gmReq # NoRequest)
    /\ gmMe' = [gmMe EXCEPT !.pending = commit]
    /\ UNCHANGED <<gmReq, gmMem, gmGate, gmRows, gmOut, gmRelay, gmMade, gmWants,
                   gmDue, gmLost, gmFaults, gmHistory>>

\* confirm_published or publish_failed of the own commit.  One that lost the
\* epoch to another commit makes way for it.
OwnCommitEnds ==
    /\ gmMe.pending /\ gmMe.up /\ gmDue' = TRUE
    /\ \/ /\ gmMe.epoch = LastEpoch /\ LastEpoch < GmMaxEpoch
          /\ gmChain' = Append(gmChain, GroupState(LastEpoch))
          /\ gmMe' = [gmMe EXCEPT !.pending = FALSE, !.epoch = @ + 1]
       \/ gmMe' = [gmMe EXCEPT !.pending = FALSE] /\ UNCHANGED gmChain
    /\ UNCHANGED <<gmReq, gmMem, gmGate, gmRows, gmMade, gmPeer, gmWants, gmLost,
                   gmLeaked, gmFaults, gmTransport>>

\* The transport publishes a proposal, or gives up.
PublishProposal(e) ==
    /\ e \in gmOut /\ gmOut' = gmOut \ {e}
    /\ \/ gmRelay' = gmRelay \cup {e} /\ UNCHANGED <<gmLost, gmFaults>>
       \/ GmFault /\ gmLost' = gmLost \cup {e} /\ UNCHANGED gmRelay
    /\ UNCHANGED <<gmChain, gmMe, gmReq, gmMem, gmGate, gmRows, gmMade, gmWelcomes,
                   gmPeer, gmWants, gmDue, gmLeaked>>

-----------------------------------------------------------------------------
(* Commits and welcomes the member receives                                *)

(* A commit applied by ingest_group_message: a removal clears the request,  *)
(* anything else re-proposes it in the new epoch.                           *)
ApplyCommit ==
    /\ gmMe.rec = "member" /\ gmMe.live /\ GmStable(gmMe) /\ gmMe.epoch < LastEpoch
    /\ LET e == gmMe.epoch + 1
           me == [gmMe EXCEPT !.epoch = e,
                              !.rec = IF GroupState(e).in THEN "member" ELSE "out"]
       IN  /\ gmMe' = me
           /\ IF GroupState(e).in
              THEN Repropose(me) /\ UNCHANGED gmWants
              ELSE /\ ClearRequest /\ gmWants' = FALSE
                   /\ UNCHANGED <<gmRows, gmOut, gmMade, gmLost, gmFaults>>
    /\ UNCHANGED <<gmRelay, gmDue, gmLeaked, gmHistory>>

(* The same commit applied by a convergence pass: emit_convergence_events   *)
(* keeps the gate, the next drain re-proposes.                              *)
ConvergeCommit ==
    /\ gmMe.rec = "member" /\ gmMe.live /\ GmStable(gmMe) /\ gmMe.epoch < LastEpoch
    /\ LET e == gmMe.epoch + 1
       IN  /\ gmMe' = [gmMe EXCEPT !.epoch = e,
                                   !.rec = IF GroupState(e).in THEN "member" ELSE "out"]
           /\ IF GroupState(e).in
              THEN /\ gmGate' = (Loaded # NoRequest) /\ gmMem' = Loaded
                   /\ UNCHANGED <<gmReq, gmWants>>
              ELSE ClearRequest /\ gmWants' = FALSE
    /\ gmDue' = TRUE
    /\ UNCHANGED <<gmRows, gmMade, gmLost, gmLeaked, gmFaults, gmRelay, gmOut, gmHistory>>

(* Seeded bug: a welcome replaces the live group of a current member.       *)
StaleForRejoinAlways == TRUE

(* local_state_is_stale_for_rejoin: the record no longer lists the member.  *)
StaleForRejoin == gmMe.rec = "out"

\* The engine once a welcome was staged, validated and stored.
JoinedAt(e) == [Outside EXCEPT !.epoch = e, !.rec = "member", !.live = TRUE]

(* do_join_welcome: the live group of a former membership is cleared first; *)
(* one that is still a member's makes the join fail, and the key package is *)
(* used up.  Then Stable at the epoch of the welcome.                       *)
JoinWelcome(e) ==
    /\ e \in gmWelcomes /\ gmMe.up
    /\ gmWelcomes' = gmWelcomes \ {e}
    /\ IF gmMe.live /\ ~StaleForRejoin
       THEN UNCHANGED <<gmMe, gmWants>>
       ELSE /\ gmMe' = JoinedAt(e)
            /\ gmWants' = FALSE
    /\ UNCHANGED <<gmChain, gmReq, gmMem, gmGate, gmRows, gmOut, gmRelay, gmMade,
                   gmPeer, gmDue, gmLost, gmLeaked, gmFaults>>

-----------------------------------------------------------------------------
(* Restart of the member                                                   *)

(* The process ends: memory and what was handed over but not published.     *)
CrashMe ==
    /\ gmMe.up /\ GmFault
    /\ gmMe' = [gmMe EXCEPT !.up = FALSE, !.pending = FALSE, !.quarantined = FALSE]
    /\ gmMem' = NoRequest /\ gmGate' = FALSE
    /\ gmLost' = gmLost \cup gmOut /\ gmOut' = {}
    /\ UNCHANGED <<gmReq, gmRows, gmRelay, gmMade, gmWants, gmDue, gmLeaked, gmHistory>>

\* Seeded bug: the request of a member is dropped when it has no proposal in
\* the current epoch.
RestoredDropsStale ==
    IF gmMe.rec # "member" THEN NoRequest
    ELSE IF gmReq = gmMe.epoch THEN gmReq ELSE NoRequest

\* sent_self_remove_leaving_gate_should_restore: some Sent row is a proposal
\* that the group still accepts, which it does only in its source epoch.
SentProposal == gmMe.epoch \in gmRows

(* leave_request_to_restore_on_hydrate: dropped for a former member; a       *)
(* request without a proposal, and a sent proposal without a request, take   *)
(* the current epoch if its row is there.                                    *)
Restored ==
    IF gmMe.rec # "member" THEN NoRequest
    ELSE IF gmReq \in {NoRequest, Unproposed} /\ SentProposal THEN gmMe.epoch
    ELSE gmReq

(* hydrate_one_stored_group at open or retry_hydrate_quarantined_group.      *)
Hydrates ==
    /\ gmReq' = Restored /\ gmMem' = Restored /\ gmGate' = (Restored # NoRequest)
    /\ gmMe' = [gmMe EXCEPT !.up = TRUE, !.quarantined = FALSE]
    /\ UNCHANGED gmFaults
\* A group that does not hydrate is set aside; the account opens without it.
Quarantines ==
    /\ GmFault /\ gmMe' = [gmMe EXCEPT !.up = TRUE, !.quarantined = TRUE]
    /\ UNCHANGED <<gmReq, gmMem, gmGate>>
OpenGroup ==
    /\ ~gmMe.up
    /\ IF gmMe.rec = "none"
       THEN gmMe' = [gmMe EXCEPT !.up = TRUE] /\ UNCHANGED <<gmReq, gmMem, gmGate, gmFaults>>
       ELSE Hydrates \/ Quarantines
    /\ gmDue' = TRUE
    /\ UNCHANGED <<gmRows, gmOut, gmRelay, gmMade, gmWants, gmLost, gmLeaked, gmHistory>>
RetryHydrate ==
    /\ gmMe.up /\ gmMe.quarantined /\ Hydrates /\ gmDue' = TRUE
    /\ UNCHANGED <<gmRows, gmOut, gmRelay, gmMade, gmWants, gmLost, gmLeaked, gmHistory>>

-----------------------------------------------------------------------------
(* The remaining members                                                   *)

PeerTo(p, rec) == gmPeer' = [gmPeer EXCEPT ![p] = rec]
PeerStep == UNCHANGED <<gmMe, gmReq, gmMem, gmGate, gmRows, gmMade, gmWants, gmDue,
                        gmLost, gmLeaked, gmOut, gmRelay>>
PeerReady(p) == gmPeer[p].staged = NoRequest /\ ~gmPeer[p].stranded

\* decide_with_reason: the sender is another member and no admin.
Decide(e) == GroupState(e).in /\ ~GroupState(e).admin

\* schedule_self_remove_auto_commit, by a peer that is not leaving itself.
Scheduled(rec, e) == [rec EXCEPT !.sched = @ \cup {e}]

(* A proposal of the current epoch is stored and scheduled with a jitter;   *)
(* one of an earlier epoch is stale, one of a later epoch waits.            *)
ReceiveProposal(p, e) ==
    /\ e \in gmRelay /\ e \notin gmPeer[p].rows /\ gmPeer[p].epoch = e
    /\ LET rec == [gmPeer[p] EXCEPT !.rows = @ \cup {e}]
       IN  PeerTo(p, IF Decide(e) THEN Scheduled(rec, e) ELSE rec)
    /\ PeerStep /\ UNCHANGED <<gmChain, gmWelcomes, gmFaults>>

\* replay_scheduled_self_remove_auto_commit: the stored proposal is read again
\* and dropped if the group has left its epoch.
Replays(p, e) == gmPeer[p].epoch = e /\ Decide(e)
\* stage_auto_commit_for_queued_proposal: the commit waits for its publication.
WithStaged(rec, e) == [rec EXCEPT !.sched = {}, !.staged = e]

(* stage_due_self_remove_auto_commit: only when Stable.                      *)
StageAutoCommit(p, e) ==
    /\ e \in gmPeer[p].sched /\ PeerReady(p)
    /\ PeerTo(p, IF Replays(p, e) THEN WithStaged(gmPeer[p], e)
                 ELSE [gmPeer[p] EXCEPT !.sched = @ \ {e}])
    /\ PeerStep /\ UNCHANGED <<gmChain, gmWelcomes, gmFaults>>

(* The automatic commit is published and merged, or loses the epoch, or      *)
(* fails: publish_failed clears it, and its schedule is gone.                *)
EndAutoCommit(p) ==
    LET e == gmPeer[p].staged IN
    /\ e # NoRequest
    /\ \/ /\ e = LastEpoch /\ LastEpoch < GmMaxEpoch /\ UNCHANGED gmFaults
          /\ gmChain' = Append(gmChain, [in |-> FALSE, admin |-> FALSE])
          /\ PeerTo(p, [gmPeer[p] EXCEPT !.staged = NoRequest, !.epoch = @ + 1])
       \/ /\ e < LastEpoch /\ UNCHANGED <<gmChain, gmFaults>>
          /\ PeerTo(p, [gmPeer[p] EXCEPT !.staged = NoRequest])
       \/ /\ e = LastEpoch /\ GmFault /\ UNCHANGED gmChain
          /\ PeerTo(p, [gmPeer[p] EXCEPT !.staged = NoRequest, !.failed = @ \cup {e}])
    /\ PeerStep /\ UNCHANGED gmWelcomes

\* The next accepted commit: schedules of the group are dropped.
PeerAdvances(p) ==
    /\ gmPeer[p].epoch < LastEpoch /\ gmPeer[p].staged = NoRequest
    /\ PeerTo(p, [gmPeer[p] EXCEPT !.epoch = @ + 1, !.sched = {}, !.stranded = FALSE])
    /\ PeerStep /\ UNCHANGED <<gmChain, gmWelcomes, gmFaults>>

\* Schedules are only in memory; a staged removal stays staged without a ref.
PeerRestarts(p) ==
    /\ GmFault
    /\ PeerTo(p, [gmPeer[p] EXCEPT
                    !.sched = {}, !.staged = NoRequest,
                    !.stranded = @ \/ gmPeer[p].staged # NoRequest,
                    !.failed = @ \cup gmPeer[p].rows])
    /\ PeerStep /\ UNCHANGED <<gmChain, gmWelcomes>>

\* An admin's commit with the member's state s after it, from its staging to
\* its merge: PublishLifecycle has the steps in between.
PeerCommits(p, s) ==
    /\ gmPeer[p].epoch = LastEpoch /\ PeerReady(p) /\ LastEpoch < GmMaxEpoch
    /\ gmChain' = Append(gmChain, s)
    /\ PeerTo(p, [gmPeer[p] EXCEPT !.epoch = @ + 1, !.sched = {}])
    /\ PeerStep /\ UNCHANGED gmFaults

\* do_send_invite of the former member, with a welcome.
PeerInvites(p) ==
    /\ ~GroupState(LastEpoch).in /\ PeerCommits(p, [in |-> TRUE, admin |-> FALSE])
    /\ gmWelcomes' = gmWelcomes \cup {LastEpoch + 1}
\* do_send_remove_members of the member.
PeerRemoves(p) ==
    /\ GroupState(LastEpoch).in /\ PeerCommits(p, [in |-> FALSE, admin |-> FALSE])
    /\ UNCHANGED gmWelcomes
\* A commit that leaves the member in the group; it may stop being an admin.
PeerUpdates(p, adm) ==
    /\ adm => GroupState(LastEpoch).admin
    /\ PeerCommits(p, [in |-> GroupState(LastEpoch).in, admin |-> adm])
    /\ UNCHANGED gmWelcomes

GmPeerNext(p) ==
    \/ EndAutoCommit(p) \/ PeerAdvances(p) \/ PeerRestarts(p)
    \/ \E e \in GmEpochs : ReceiveProposal(p, e) \/ StageAutoCommit(p, e)
    \/ PeerInvites(p) \/ PeerRemoves(p)
    \/ \E adm \in BOOLEAN : PeerUpdates(p, adm)
GmNext ==
    \/ RequestLeave \/ DrainGroup \/ OwnCommitEnds \/ ApplyCommit \/ ConvergeCommit \/ CrashMe
    \/ OpenGroup \/ RetryHydrate
    \/ \E commit \in BOOLEAN : SendOther(commit)
    \/ \E e \in GmEpochs : PublishProposal(e) \/ JoinWelcome(e)
    \/ \E p \in GmPeers : GmPeerNext(p)

-----------------------------------------------------------------------------
GmTypeOK ==
    /\ gmChain \in Seq([in : BOOLEAN, admin : BOOLEAN]) /\ LastEpoch \in GmEpochs
    /\ gmMe \in [epoch : GmEpochs, rec : {"none", "member", "out"}, live : BOOLEAN,
                 pending : BOOLEAN, up : BOOLEAN, quarantined : BOOLEAN]
    /\ gmReq \in GmEpochs \cup {NoRequest, Unproposed}
    /\ gmMem \in GmEpochs \cup {NoRequest, Unproposed}
    /\ gmGate \in BOOLEAN /\ gmWants \in BOOLEAN /\ gmLeaked \in BOOLEAN
    /\ gmDue \in BOOLEAN /\ gmLost \subseteq GmEpochs
    /\ gmOut \subseteq gmRows /\ gmRelay \subseteq gmRows /\ gmRows \subseteq GmEpochs
    /\ gmMade \in [GmEpochs -> Nat] /\ gmWelcomes \subseteq GmEpochs
    /\ gmPeer \in [GmPeers -> [epoch : GmEpochs, sched : SUBSET GmEpochs,
                               rows : SUBSET GmEpochs, failed : SUBSET GmEpochs,
                               staged : GmEpochs \cup {NoRequest}, stranded : BOOLEAN]]
    /\ gmFaults \in 0..GmMaxFaults

\* While the user wants to leave and is a member of an open group, the stored
\* request says so, through restarts and epochs; nothing else is sent
\* meanwhile; no epoch gets two proposals; and the request does not outlive
\* the membership it was made in.
LeavingHolds ==
    /\ gmWants /\ gmMe.rec = "member" /\ gmMe.up /\ ~gmMe.quarantined
        => gmReq # NoRequest
    /\ gmReq # NoRequest => gmWants
    /\ ~gmLeaked /\ \A e \in GmEpochs : gmMade[e] <= 1

\* A leave goes on: while the member is in the last epoch, and unless its
\* proposal was lost, either a proposal for this epoch is owed, or it is on
\* its way, and every peer that neither restarted nor failed to publish has
\* yet to receive it, has scheduled it or has staged its commit.
LeaveIsUnderWay ==
    LET e == gmMe.epoch IN
    gmWants /\ gmMe.rec = "member" /\ e = LastEpoch /\ e \notin gmLost
        => \/ gmReq # e /\ (gmDue \/ ~GmStable(gmMe))
           \/ e \in gmOut
           \/ e \in gmRelay /\ \A p \in GmPeers :
                 \/ e \notin gmPeer[p].rows \/ e \in gmPeer[p].failed
                 \/ e \in gmPeer[p].sched \/ gmPeer[p].staged = e
=============================================================================
