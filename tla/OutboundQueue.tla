--------------------------- MODULE OutboundQueue ---------------------------
(***************************************************************************)
(* Queued sends of one group: crates/cgka-engine/src/message_processor/    *)
(* mod.rs (do_send, queue_outbound_intent, converge_and_drain_...),        *)
(* openmls_projection.rs (apply_openmls_canonicalization_result),          *)
(* fork_recovery.rs and crates/storage-sqlite/src/storage/{outbound.rs,    *)
(* snapshots/}.                                                            *)
(*                                                                         *)
(* A send that meets unsettled convergence inputs is stored as an intent   *)
(* and turned into a message by a later pass. The queue is part of every   *)
(* group snapshot, so a rollback takes it back too.                        *)
(***************************************************************************)
EXTENDS Integers, Sequences, FiniteSets, SequencesExt

CONSTANTS OqIntents,     \* the sends: records [id, kind], kind "app" or "commit"
          OqMaxEpoch,    \* last epoch of the model
          OqMaxRewind    \* max_rewind_commits

ASSUME OqAssumption == OqMaxEpoch \in Nat /\ OqMaxRewind \in Nat

VARIABLES
  oqEpoch,       \* epoch of the group
  oqUnsettled,   \* has_unresolved_convergence_inputs
  oqQueue,       \* cgka_queued_outbound in insert order
  oqAnchors,     \* retained anchor snapshots: epoch -> queue captured
  oqIncumbents,  \* snapshots fork recovery may go back to: epoch -> queue captured
  oqPhase,       \* "idle", "draining", or "generated": the head was turned into a message
  oqPending,     \* a commit of ours waits for its publish
  oqStaged,      \* queue captured by the snapshot taken when it was staged
  oqAccepted,    \* intents answered with Queued, in order
  oqSent,        \* intents a message was generated from, in the order of the first time
  oqForked       \* history: fork recovery has rolled the group back

oqVars == <<oqEpoch, oqUnsettled, oqQueue, oqAnchors, oqIncumbents, oqPhase, oqPending, oqStaged, oqAccepted, oqSent, oqForked>>

OqEpochs == 0..OqMaxEpoch

From(f, first) == [e \in {x \in DOMAIN f : x >= first} |-> f[e]]
Dropping(f, e) == [x \in DOMAIN f \ {e} |-> f[x]]
Put(f, e, q) == [x \in DOMAIN f \cup {e} |-> IF x = e THEN q ELSE f[x]]

\* retain_current_group_epoch_snapshot with its pruning.
RetainAnchor(anchors, e, queue) ==
  From(Put(anchors, e, queue), e - OqMaxRewind)

\* Seeded bug: the live queue is not put back.
RestoreQueue(captured, live) == captured

\* restore_live_message_and_queue_records after a rollback: rows of the
\* snapshot keep their place, live rows that are not among them are inserted.
PutBackQueue(captured, live) == captured \o SelectSeq(live, LAMBDA i : ~Contains(captured, i))

-----------------------------------------------------------------------------
OqInit ==
  /\ oqEpoch = 0
  /\ oqUnsettled = FALSE /\ oqPending = FALSE /\ oqForked = FALSE
  /\ oqStaged = <<>> /\ oqQueue = <<>> /\ oqAccepted = <<>> /\ oqSent = <<>>
  /\ oqAnchors = [e \in {0} |-> <<>>]
  /\ oqIncumbents = [e \in {} |-> <<>>]
  /\ oqPhase = "idle"

Sending(i) == IF Contains(oqSent, i) THEN oqSent ELSE Append(oqSent, i)

Untried(i) == ~Contains(oqAccepted, i) /\ ~Contains(oqSent, i)

\* A peer's commit is stored for convergence.
PeerInput ==
  /\ oqPhase = "idle" /\ ~oqUnsettled
  /\ oqUnsettled' = TRUE
  /\ UNCHANGED <<oqEpoch, oqQueue, oqAnchors, oqIncumbents, oqPhase, oqPending, oqAccepted, oqSent, oqStaged, oqForked>>

\* do_send with should_queue_outbound_intent: a group with a pending commit
\* takes the direct path, where do_send_ready refuses.
QueueIntent(i) ==
  /\ oqPhase = "idle" /\ ~oqPending /\ oqUnsettled /\ Untried(i)
  /\ oqQueue' = Append(oqQueue, i)
  /\ oqAccepted' = Append(oqAccepted, i)
  /\ UNCHANGED <<oqEpoch, oqUnsettled, oqAnchors, oqIncumbents, oqPhase, oqPending, oqSent, oqStaged, oqForked>>

SendDirectly(i) ==
  /\ oqPhase = "idle" /\ ~oqPending /\ ~oqUnsettled /\ Untried(i)
  /\ oqSent' = Sending(i)
  /\ oqPending' = (i.kind = "commit")
  /\ oqStaged' = IF oqPending' THEN oqQueue ELSE oqStaged
  /\ UNCHANGED <<oqEpoch, oqUnsettled, oqQueue, oqAnchors, oqIncumbents, oqPhase, oqAccepted, oqForked>>

\* confirm_published: the commit is merged and its snapshot becomes the one
\* fork recovery may return to.
ConfirmCommit ==
  /\ oqPhase = "idle" /\ oqPending /\ oqEpoch < OqMaxEpoch
  /\ oqPending' = FALSE /\ oqStaged' = <<>>
  /\ oqEpoch' = oqEpoch + 1
  /\ oqIncumbents' = From(Put(oqIncumbents, oqEpoch, oqStaged), oqEpoch + 1 - OqMaxRewind)
  /\ oqAnchors' = RetainAnchor(RetainAnchor(oqAnchors, oqEpoch, oqQueue), oqEpoch + 1, oqQueue)
  /\ UNCHANGED <<oqUnsettled, oqQueue, oqPhase, oqAccepted, oqSent, oqForked>>

CommitFails ==
  /\ oqPhase = "idle" /\ oqPending
  /\ oqPending' = FALSE /\ oqStaged' = <<>>
  /\ UNCHANGED <<oqEpoch, oqUnsettled, oqQueue, oqAnchors, oqIncumbents, oqPhase, oqAccepted, oqSent, oqForked>>

\* advance_convergence on a stable group settles the inputs. With no commit
\* accepted the tip stays; a branch that starts at the tip is applied to it; one
\* that starts at a retained anchor is applied after a rollback.
SettleInPlace ==
  /\ oqPhase = "idle" /\ ~oqPending
  /\ oqUnsettled' = FALSE
  /\ oqPhase' = "draining"
  /\ UNCHANGED <<oqEpoch, oqQueue, oqAnchors, oqIncumbents, oqPending, oqAccepted, oqSent, oqStaged, oqForked>>

SettleOnTip ==
  /\ oqPhase = "idle" /\ ~oqPending /\ oqUnsettled /\ oqEpoch < OqMaxEpoch
  /\ oqUnsettled' = FALSE
  /\ oqPhase' = "draining"
  /\ oqEpoch' = oqEpoch + 1
  /\ oqAnchors' = RetainAnchor(RetainAnchor(oqAnchors, oqEpoch, oqQueue), oqEpoch + 1, oqQueue)
  /\ UNCHANGED <<oqQueue, oqIncumbents, oqPending, oqAccepted, oqSent, oqStaged, oqForked>>

SettleOnBranch(e) ==
  /\ oqPhase = "idle" /\ ~oqPending /\ oqUnsettled
  /\ e \in DOMAIN oqAnchors /\ e < oqEpoch
  /\ oqUnsettled' = FALSE
  /\ oqPhase' = "draining"
  /\ oqQueue' = PutBackQueue(oqAnchors[e], oqQueue)
  /\ oqEpoch' \in {x \in OqEpochs : x \in e + 1 .. oqEpoch + 1}
  /\ oqAnchors' = RetainAnchor(oqAnchors, oqEpoch', oqQueue')
  /\ UNCHANGED <<oqIncumbents, oqPending, oqAccepted, oqSent, oqStaged, oqForked>>

\* The drain loop: do_send_ready on the first intent, then its row is deleted;
\* a commit pauses the loop for its publish.
Generate ==
  /\ oqPhase = "draining" /\ oqQueue # <<>>
  /\ oqSent' = Sending(Head(oqQueue))
  /\ oqStaged' = IF Head(oqQueue).kind = "commit" THEN oqQueue ELSE oqStaged
  /\ oqPhase' = "generated"
  /\ UNCHANGED <<oqEpoch, oqUnsettled, oqQueue, oqAnchors, oqIncumbents, oqPending, oqAccepted, oqForked>>

DeleteGenerated ==
  /\ oqPhase = "generated"
  /\ oqQueue' = Tail(oqQueue)
  /\ oqPending' = (Head(oqQueue).kind = "commit")
  /\ oqPhase' = IF oqPending' THEN "idle" ELSE "draining"
  /\ UNCHANGED <<oqEpoch, oqUnsettled, oqAnchors, oqIncumbents, oqAccepted, oqSent, oqStaged, oqForked>>

DrainEnds ==
  /\ oqPhase = "draining"
  /\ oqQueue = <<>>
  /\ oqPhase' = "idle"
  /\ UNCHANGED <<oqEpoch, oqUnsettled, oqQueue, oqAnchors, oqIncumbents, oqPending, oqAccepted, oqSent, oqStaged, oqForked>>

\* do_send_ready fails: the pass returns the error and the row stays.
GenerateFails ==
  /\ oqPhase = "draining" /\ oqQueue # <<>>
  /\ oqPhase' = "idle"
  /\ UNCHANGED <<oqEpoch, oqUnsettled, oqQueue, oqAnchors, oqIncumbents, oqPending, oqAccepted, oqSent, oqStaged, oqForked>>

\* resolve_fork_candidate: a better commit of an epoch this client left with
\* its own commit. The rollback restores the queue of the snapshot, and
\* nothing puts the live queue back.
ForkRollback(e) ==
  /\ oqPhase = "idle" /\ ~oqPending
  /\ e \in DOMAIN oqIncumbents
  /\ oqQueue' = oqIncumbents[e]
  /\ oqIncumbents' = Put(Dropping(oqIncumbents, e), e, oqQueue')
  /\ oqEpoch' = e + 1
  /\ oqAnchors' = RetainAnchor(oqAnchors, e, oqQueue')
  /\ oqForked' = TRUE
  /\ UNCHANGED <<oqUnsettled, oqPhase, oqPending, oqAccepted, oqSent, oqStaged>>

\* A restart keeps what is stored; the incumbents and a pass in progress go.
RestartEngine ==
  /\ oqPhase' = "idle"
  /\ oqPending' = FALSE /\ oqStaged' = <<>>
  /\ oqIncumbents' = [e \in {} |-> <<>>]
  /\ UNCHANGED <<oqEpoch, oqUnsettled, oqQueue, oqAnchors, oqAccepted, oqSent, oqForked>>

OqNext ==
  \/ PeerInput
  \/ \E i \in OqIntents : QueueIntent(i) \/ SendDirectly(i)
  \/ ConfirmCommit \/ CommitFails
  \/ SettleInPlace \/ SettleOnTip
  \/ \E e \in OqEpochs : SettleOnBranch(e) \/ ForkRollback(e)
  \/ Generate \/ DeleteGenerated \/ DrainEnds \/ GenerateFails
  \/ RestartEngine

OqSpec == OqInit /\ [][OqNext]_oqVars

-----------------------------------------------------------------------------
(* Properties. *)

\* The state of the queue has its type.
OqTypeOK ==
  /\ oqEpoch \in OqEpochs /\ oqUnsettled \in BOOLEAN /\ oqPending \in BOOLEAN /\ oqForked \in BOOLEAN
  /\ {oqQueue, oqStaged, oqAccepted, oqSent} \subseteq Seq(OqIntents)
  /\ DOMAIN oqAnchors \subseteq OqEpochs /\ DOMAIN oqIncumbents \subseteq OqEpochs
  /\ oqPhase \in {"idle", "draining", "generated"}

Position(s, i) == CHOOSE n \in 1..Len(s) : s[n] = i

\* An intent leaves the queue only after a message was generated from it, and
\* intents that still have to be sent for the first time keep the order they
\* were accepted in: across passes, failed regenerations, restarts and
\* reorganisations that bring an old queue back under the live one. Fork
\* recovery drops what its snapshot does not hold and is excepted, and after it an old anchor may bring
\* dropped intents back behind later ones.
QueueSurvives ==
  /\ \/ \E e \in OqEpochs : ForkRollback(e)
     \/ \A i \in OqIntents :
          Contains(oqQueue, i) /\ ~Contains(oqQueue', i) => Contains(oqSent, i)
  /\ ~oqForked' => \A m, n \in 1..Len(oqQueue') :
          m < n /\ ~Contains(oqSent', oqQueue'[m]) /\ ~Contains(oqSent', oqQueue'[n])
            => Position(oqAccepted', oqQueue'[m]) < Position(oqAccepted', oqQueue'[n])
=============================================================================
