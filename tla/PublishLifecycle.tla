-------------------------- MODULE PublishLifecycle --------------------------
(***************************************************************************)
(* Publish-before-apply for one group on one device: the engine's commit-  *)
(* creating sends, confirm_published, publish_failed and session-open      *)
(* hydration, driven by the account runtime that publishes the commit and  *)
(* reports the outcome.                                                    *)
(*                                                                         *)
(* Every handler is a sequence of steps, one per durable write, because a  *)
(* storage call may fail, an awaited call may be dropped and the process   *)
(* may die between two of them.  Handlers take `&mut self`, so at most one *)
(* is in flight: `op` is its program counter.                              *)
(***************************************************************************)
EXTENDS Integers, FiniteSets

CONSTANTS
    Invites,      \* invite commits of this device
    Updates,      \* app-component update commits of this device
    Upgrades,     \* capability upgrade commits of this device
    Removals,     \* RemoveMembers commits of this device
    Autos,        \* SelfRemove auto-commits of this device
    Remotes,      \* commits of other members
    None,         \* no commit, no snapshot, no work
    MaxRewind,    \* ConvergencePolicy::max_rewind_commits
    MaxAttempts,  \* MAX_CONFIRM_ATTEMPTS of the account runtime
    Faulty,       \* the steps whose storage or wrapping call may fail;
                  \* "hard" also lets a confirm error be non-transient
    MaxFaults,    \* bound on failing calls
    MaxCrashes    \* bound on process crashes

Own == Invites \cup Updates \cup Upgrades \cup Removals \cup Autos
Commits == Own \cup Remotes

ASSUME CommitsAssumption ==
    /\ None \notin Commits
    /\ Own \cap Remotes = {}
    /\ Invites \cap (Updates \cup Upgrades \cup Removals \cup Autos) = {}
    /\ Updates \cap (Upgrades \cup Removals \cup Autos) = {}
    /\ Upgrades \cap (Removals \cup Autos) = {}
    /\ Removals \cap Autos = {}
\* No commit and no snapshot is called None.
ASSUME NoneAssumption == None \notin Nat \X Nat
ASSUME BoundsAssumption ==
    /\ MaxRewind \in Nat
    /\ MaxAttempts \in Nat \ {0}
    /\ MaxFaults \in Nat
    /\ MaxCrashes \in Nat

VARIABLES
    mls,          \* OpenMLS group: epoch, commits merged, staged commit
    record,       \* Marmot group record: epoch and the commits it reflects
    rows,         \* message record state of each own commit
    snaps,        \* fork-recovery snapshots in storage
    anchors,      \* retained-anchor snapshots: key epoch -> MLS epoch inside
    st,           \* EpochManager state of the group
    pending,      \* PendingStateRef -> recovery record of the pending commit
    incumbents,   \* source epoch -> recovery record of the applied commit
    committedFrom,\* epochs this device committed from
    counters,     \* pending_counter and snapshot_counter
    op,           \* the engine handler in flight
    work,         \* the PublishWork held by the account runtime
    made,         \* own commits built so far
    accepted,     \* commits at least one relay holds
    reported,     \* commits whose acceptance reached the runtime
    faults,
    crashes

durable  == <<mls, record, rows, snaps, anchors>>
volatile == <<st, pending, incumbents, committedFrom, counters, op, work>>
env      == <<made, accepted, reported, faults, crashes>>
vars     == <<durable, volatile, env>>

-----------------------------------------------------------------------------
(* State vocabulary *)

Stable(e)         == [name |-> "Stable", epoch |-> e]
PendingPublish(e) == [name |-> "PendingPublish", epoch |-> e]
Absent            == [name |-> "Absent", epoch |-> 0]
Quarantined       == [name |-> "Quarantined", epoch |-> 0]

NoEntries == [x \in {} |-> x]

Idle == [pc |-> "idle", commit |-> None, snapshot |-> None]
At(pc, c, s) == [pc |-> pc, commit |-> c, snapshot |-> s]
idle == op = Idle

\* The record every re-derivation from the MLS group writes.
MirrorOf(m) == [epoch |-> m.epoch, roster |-> m.merged]

Floor(e) == IF e >= MaxRewind THEN e - MaxRewind ELSE 0

Fault(step) ==
    /\ step \in Faulty
    /\ faults < MaxFaults
    /\ faults' = faults + 1

Removes(c) == c \in Removals \cup Autos

-----------------------------------------------------------------------------
Init ==
    /\ mls = [epoch |-> 0, merged |-> {}, staged |-> None]
    /\ record = MirrorOf(mls)
    /\ rows = [c \in Own |-> "none"]
    /\ snaps = {}
    /\ anchors = [e \in {0} |-> 0]
    /\ st = Stable(0)
    /\ pending = NoEntries
    /\ incumbents = NoEntries
    /\ committedFrom = {}
    /\ counters = [pending |-> 0, snapshot |-> 0]
    /\ op = Idle
    /\ work = None
    /\ made = {}
    /\ accepted = {}
    /\ reported = {}
    /\ faults = 0
    /\ crashes = 0

-----------------------------------------------------------------------------
(* Commit-creating sends: do_send_invite, do_send_remove_members,          *)
(* do_send_update_app_components, do_upgrade_group_capabilities and        *)
(* stage_auto_commit_for_queued_proposal.                                  *)

\* The gate of each handler: policy checks are abstracted, the Stable check
\* is not.  An auto-commit that finds the group unstable is rescheduled.
InviteReady(c)  == c \in Invites /\ st.name = "Stable"
UpdateReady(c)  == c \in Updates /\ st.name = "Stable"
UpgradeReady(c) == c \in Upgrades /\ st.name = "Stable"
RemoveReady(c)  == c \in Removals /\ st.name = "Stable"
AutoReady(c)    == c \in Autos /\ st.name = "Stable"

\* A handler passes its gate and arms the cleanup guard.
SendBegin(c) ==
    /\ idle
    /\ work = None
    /\ c \notin made
    /\ \/ InviteReady(c) \/ UpdateReady(c) \/ UpgradeReady(c)
       \/ RemoveReady(c) \/ AutoReady(c)
    /\ made' = made \cup {c}
    /\ op' = At("snapshot", c, None)
    /\ UNCHANGED <<durable, st, pending, incumbents, committedFrom, counters,
                   work, accepted, reported, faults, crashes>>

\* create_snapshot; all but removals and auto-commits note committed_from
\* right after it.
SendSnapshot ==
    /\ op.pc = "snapshot"
    /\ LET n == counters.snapshot + 1
           name == <<mls.epoch, n>> IN
        /\ counters' = [counters EXCEPT !.snapshot = n]
        /\ \/ /\ snaps' = snaps \cup {name}
              /\ op' = At("stage", op.commit, name)
              /\ committedFrom' = IF op.commit \in Invites \cup Updates \cup Upgrades
                                    THEN committedFrom \cup {mls.epoch}
                                    ELSE committedFrom
              /\ UNCHANGED faults
           \/ /\ Fault("snapshot")
              /\ op' = At("guard_clear", op.commit, None)
              /\ UNCHANGED <<snaps, committedFrom>>
    /\ UNCHANGED <<mls, record, rows, anchors, st, pending, incumbents, work,
                   made, accepted, reported, crashes>>

\* OpenMLS stages the commit durably; it refuses while one is staged.
SendStage ==
    /\ op.pc = "stage"
    /\ \/ /\ mls.staged = None
          /\ mls' = [mls EXCEPT !.staged = op.commit]
          /\ op' = At("row", op.commit, op.snapshot)
          /\ committedFrom' = IF op.commit \in Removals
                                THEN committedFrom \cup {mls.epoch}
                                ELSE committedFrom
          /\ UNCHANGED faults
       \/ /\ \/ mls.staged # None /\ UNCHANGED faults
             \/ Fault("stage")
          /\ op' = At("guard_clear", op.commit, op.snapshot)
          /\ UNCHANGED <<mls, committedFrom>>
    /\ UNCHANGED <<record, rows, snaps, anchors, st, pending, incumbents,
                   counters, work, made, accepted, reported, crashes>>

\* The transport wrap is awaited, then the commit's row is written as Sent.
SendRow ==
    /\ op.pc = "row"
    /\ \/ /\ rows' = [rows EXCEPT ![op.commit] = "Sent"]
          /\ op' = At("project", op.commit, op.snapshot)
          /\ UNCHANGED faults
       \/ /\ Fault("row")
          /\ op' = At("guard_clear", op.commit, op.snapshot)
          /\ UNCHANGED rows
    /\ UNCHANGED <<mls, record, snaps, anchors, st, pending, incumbents,
                   committedFrom, counters, work, made, accepted, reported,
                   crashes>>

\* The projection each handler writes into the record.  An invite takes the
\* members from MLS and keeps the rest of the record; a removal and an update
\* edit the stored record; the auto-commit also writes the projected epoch; an
\* upgrade writes nothing.
InviteProjection(c) ==
    [record EXCEPT !.roster = (@ \cap Updates) \cup (mls.merged \ Updates) \cup {c}]
EditProjection(c) == [record EXCEPT !.roster = @ \cup {c}]
AutoProjection(c) == [epoch |-> mls.epoch + 1, roster |-> record.roster \cup {c}]

Projected(c) ==
    CASE c \in Invites              -> InviteProjection(c)
      [] c \in Removals \cup Updates -> EditProjection(c)
      [] c \in Autos                -> AutoProjection(c)
      [] c \in Upgrades             -> record

SendProject ==
    /\ op.pc = "project"
    /\ \/ /\ record' = Projected(op.commit)
          /\ op' = At("handoff", op.commit, op.snapshot)
          /\ UNCHANGED faults
       \/ /\ op.commit \in Updates \cup Autos   \* `if let Ok(..) = get_group`
          /\ Fault("project_read")
          /\ op' = At("handoff", op.commit, op.snapshot)
          /\ UNCHANGED record
       \/ /\ Fault("project")
          /\ op' = At("guard_clear", op.commit, op.snapshot)
          /\ UNCHANGED record
    /\ UNCHANGED <<mls, rows, snaps, anchors, st, pending, incumbents,
                   committedFrom, counters, work, made, accepted, reported,
                   crashes>>

\* begin_pending, track_pending_commit_for_recovery, disarm: memory only.
\* The SendResult hands the ref to the account runtime.
SendHandoff ==
    /\ op.pc = "handoff"
    /\ LET ref == counters.pending + 1 IN
        /\ counters' = [counters EXCEPT !.pending = ref]
        /\ st' = PendingPublish(mls.epoch + 1)
        /\ pending' = [r \in {ref} |-> [prior    |-> mls.epoch,
                                        commit   |-> op.commit,
                                        snapshot |-> op.snapshot]]
        /\ work' = [ref |-> ref, commit |-> op.commit, phase |-> "publish",
                    attempt |-> 0]
    /\ committedFrom' = committedFrom \cup {mls.epoch}
    /\ op' = Idle
    /\ UNCHANGED <<durable, incumbents, env>>

\* Seeded bug: the guard releases a snapshot that was never taken.
GuardClearUnarmed ==
    /\ op.pc = "guard_clear"
    /\ mls' = [mls EXCEPT !.staged = None]
    /\ op' = [op EXCEPT !.pc = "guard_release"]
    /\ UNCHANGED <<record, rows, snaps, anchors, st, pending, incumbents,
                   committedFrom, counters, work, env>>

\* Seeded bug: the guard clears the commit and forgets its snapshot.
GuardClearOnly ==
    /\ op.pc = "guard_clear"
    /\ mls' = [mls EXCEPT !.staged = None]
    /\ op' = Idle
    /\ UNCHANGED <<record, rows, snaps, anchors, st, pending, incumbents,
                   committedFrom, counters, work, env>>

\* Seeded bug: the guard releases the snapshot and leaves the commit staged.
GuardReleaseOnly ==
    /\ op.pc = "guard_clear"
    /\ snaps' = snaps \ {op.snapshot}
    /\ op' = Idle
    /\ UNCHANGED <<mls, record, rows, anchors, st, pending, incumbents,
                   committedFrom, counters, work, env>>

\* PendingCommitCleanupGuard::drop, first write: clear whatever is staged.
GuardClear ==
    /\ op.pc = "guard_clear"
    /\ \/ /\ mls' = [mls EXCEPT !.staged = None]
          /\ op' = IF op.snapshot = None THEN Idle
                   ELSE At("guard_release", op.commit, op.snapshot)
          /\ UNCHANGED faults
       \/ /\ Fault("guard_clear")
          /\ op' = Idle
          /\ UNCHANGED mls
    /\ UNCHANGED <<record, rows, snaps, anchors, st, pending, incumbents,
                   committedFrom, counters, work, made, accepted, reported,
                   crashes>>

\* ... second write: release the snapshot, best effort.
GuardRelease ==
    /\ op.pc = "guard_release"
    /\ \/ snaps' = snaps \ {op.snapshot} /\ UNCHANGED faults
       \/ Fault("guard_release") /\ UNCHANGED snaps
    /\ op' = Idle
    /\ UNCHANGED <<mls, record, rows, anchors, st, pending, incumbents,
                   committedFrom, counters, work, made, accepted, reported,
                   crashes>>

-----------------------------------------------------------------------------
(* Account runtime: publish_group_evolution / publish_pending.             *)

\* publish_one against the relays.  A relay may hold the commit although its
\* acknowledgement was lost; the runtime then sees an unaccepted publish.
Publish ==
    /\ idle
    /\ work # None
    /\ work.phase = "publish"
    /\ \/ /\ accepted' = accepted \cup {work.commit}
          /\ reported' = reported \cup {work.commit}
          /\ work' = [work EXCEPT !.phase = "confirm"]
       \/ /\ accepted' = accepted \cup {work.commit}
          /\ work' = [work EXCEPT !.phase = "fail"]
          /\ UNCHANGED reported
       \/ /\ work' = [work EXCEPT !.phase = "fail"]
          /\ UNCHANGED <<accepted, reported>>
    /\ UNCHANGED <<durable, st, pending, incumbents, committedFrom, counters,
                   op, made, faults, crashes>>

\* Seeded bug: a confirm error rolls the accepted commit back.
ConfirmErrorRollsBack ==
    /\ op' = Idle
    /\ work' = [work EXCEPT !.phase = "fail"]

\* Seeded bug: no confirm error is retried.
ConfirmErrorNoRetry == op' = Idle /\ work' = None

\* confirm_published_retrying: a transient error retries, anything else and
\* the last attempt propagate, and the work with its ref is gone.
ConfirmError ==
    /\ op' = Idle
    /\ \/ /\ work.attempt + 1 < MaxAttempts
          /\ work' = [work EXCEPT !.attempt = @ + 1]
       \/ /\ work.attempt + 1 = MaxAttempts \/ "hard" \in Faulty
          /\ work' = None

-----------------------------------------------------------------------------
(* do_confirm_published *)

\* retain_current_group_epoch_snapshot: keyed by the record's epoch, then
\* anchors below the rewind horizon are pruned.
Retain(a) ==
    LET keyed == [e \in DOMAIN a \cup {record.epoch} |->
                    IF e = record.epoch THEN mls.epoch ELSE a[e]]
    IN  [e \in {k \in DOMAIN keyed : k >= Floor(record.epoch)} |-> keyed[e]]

\* The unknown-ref check and the pre-commit anchor.
ConfirmRetain ==
    /\ idle
    /\ work # None
    /\ work.phase = "confirm"
    /\ work.ref \in DOMAIN pending
    /\ \/ /\ anchors' = IF mls.staged # None THEN Retain(anchors) ELSE anchors
          /\ op' = At("merge", work.commit, None)
          /\ UNCHANGED <<work, faults>>
       \/ /\ Fault("retain")
          /\ mls.staged # None
          /\ ConfirmError
          /\ UNCHANGED anchors
    /\ UNCHANGED <<mls, record, rows, snaps, st, pending, incumbents,
                   committedFrom, counters, made, accepted, reported, crashes>>

\* Seeded bug: the merged commit is not taken off the group.
MergeStagedKept(m) ==
    IF m.staged = None THEN m
    ELSE [epoch |-> m.epoch + 1, merged |-> m.merged \cup {m.staged},
          staged |-> m.staged]

\* One durable transaction: merge, mirror the record, mark the row.
MergeStaged(m) ==
    IF m.staged = None THEN m
    ELSE [epoch |-> m.epoch + 1, merged |-> m.merged \cup {m.staged},
          staged |-> None]

\* Seeded bug: the row is marked outside the merge transaction.
ConfirmMergeTorn ==
    /\ op.pc = "merge"
    /\ rows' = [rows EXCEPT ![pending[work.ref].commit] = "Processed"]
    /\ \/ /\ mls' = MergeStaged(mls)
          /\ record' = MirrorOf(mls')
          /\ op' = At("retain2", op.commit, None)
          /\ UNCHANGED <<work, faults>>
       \/ Fault("merge") /\ ConfirmError /\ UNCHANGED <<mls, record>>
    /\ UNCHANGED <<snaps, anchors, st, pending, incumbents, committedFrom,
                   counters, made, accepted, reported, crashes>>

ConfirmMerge ==
    /\ op.pc = "merge"
    /\ \/ /\ mls' = MergeStaged(mls)
          /\ record' = MirrorOf(mls')
          /\ rows' = [rows EXCEPT ![pending[work.ref].commit] = "Processed"]
          /\ op' = At("retain2", op.commit, None)
          /\ UNCHANGED <<work, faults>>
       \/ /\ Fault("merge")
          /\ ConfirmError
          /\ UNCHANGED <<mls, record, rows>>
    /\ UNCHANGED <<snaps, anchors, st, pending, incumbents, committedFrom,
                   counters, made, accepted, reported, crashes>>

\* The post-merge anchor.  Failing here leaves the ref pending over a merged
\* group; the retried confirm finds nothing staged.
ConfirmRetain2 ==
    /\ op.pc = "retain2"
    /\ \/ /\ anchors' = Retain(anchors)
          /\ op' = At("finish", op.commit, None)
          /\ UNCHANGED <<work, faults>>
       \/ /\ Fault("retain2")
          /\ ConfirmError
          /\ UNCHANGED anchors
    /\ UNCHANGED <<mls, record, rows, snaps, st, pending, incumbents,
                   committedFrom, counters, made, accepted, reported, crashes>>

\* promote_pending and prune_fork_recovery_for_group: an incumbent below the
\* horizon goes with its snapshot, unless releasing the snapshot fails.
Promote(inc, p) ==
    [e \in DOMAIN inc \cup {p.prior} |-> IF e = p.prior THEN p ELSE inc[e]]
Stale(inc) == {e \in DOMAIN inc : e < Floor(record.epoch)}
\* Seeded bug: a pruned incumbent loses its snapshot and stays.
WithoutNothing(inc, gone) == inc
Without(inc, gone) == [e \in DOMAIN inc \ gone |-> inc[e]]

ConfirmFinish ==
    /\ op.pc = "finish"
    /\ LET promoted == Promote(incumbents, pending[work.ref]) IN
        \E gone \in SUBSET Stale(promoted) :
            /\ incumbents' = Without(promoted, gone)
            /\ snaps' = snaps \ {promoted[e].snapshot : e \in gone}
            /\ \/ gone = Stale(promoted) /\ UNCHANGED faults
               \/ gone # Stale(promoted) /\ Fault("prune")
    /\ committedFrom' = {e \in committedFrom : e >= Floor(record.epoch)}
    /\ st' = Stable(st.epoch)
    /\ pending' = NoEntries
    /\ op' = Idle
    /\ work' = None
    /\ UNCHANGED <<mls, record, rows, anchors, counters, made, accepted,
                   reported, crashes>>

-----------------------------------------------------------------------------
(* do_publish_failed; the runtime does not retry it. *)

FailClear ==
    /\ idle
    /\ work # None
    /\ work.phase = "fail"
    /\ work.ref \in DOMAIN pending
    /\ \/ /\ mls' = [mls EXCEPT !.staged = None]
          /\ op' = At("fail_record", work.commit, None)
          /\ UNCHANGED <<work, faults>>
       \/ /\ Fault("fail_clear")
          /\ op' = Idle
          /\ work' = None
          /\ UNCHANGED mls
    /\ UNCHANGED <<record, rows, snaps, anchors, st, pending, incumbents,
                   committedFrom, counters, made, accepted, reported, crashes>>

\* Seeded bug: publish_failed keeps the projected record.
FailRecordSkipped ==
    /\ op.pc = "fail_record"
    /\ op' = At("fail_finish", op.commit, None)
    /\ UNCHANGED <<durable, st, pending, incumbents, committedFrom, counters,
                   work, env>>

\* The record is re-derived in a write of its own: a failing read of it is
\* skipped (`if let Ok`), a failing write propagates.
FailRecord ==
    /\ op.pc = "fail_record"
    /\ \/ /\ record' = MirrorOf(mls)
          /\ op' = At("fail_finish", op.commit, None)
          /\ UNCHANGED <<work, faults>>
       \/ /\ Fault("fail_read")
          /\ op' = At("fail_finish", op.commit, None)
          /\ UNCHANGED <<record, work>>
       \/ /\ Fault("fail_record")
          /\ op' = Idle
          /\ work' = None
          /\ UNCHANGED record
    /\ UNCHANGED <<mls, rows, snaps, anchors, st, pending, incumbents,
                   committedFrom, counters, made, accepted, reported, crashes>>

\* rollback_publish, then forget_pending_commit_for_recovery.
FailFinish ==
    /\ op.pc = "fail_finish"
    /\ LET p == pending[work.ref] IN
        /\ st' = Stable(p.prior)
        /\ \/ snaps' = snaps \ {p.snapshot} /\ UNCHANGED faults
           \/ Fault("fail_release") /\ UNCHANGED snaps
    /\ pending' = NoEntries
    /\ op' = Idle
    /\ work' = None
    /\ UNCHANGED <<mls, record, rows, anchors, incumbents, committedFrom,
                   counters, made, accepted, reported, crashes>>

-----------------------------------------------------------------------------
(* Crash and hydrate_stable_groups_from_storage *)

Crash ==
    /\ st # Absent
    /\ crashes < MaxCrashes
    /\ crashes' = crashes + 1
    /\ st' = Absent
    /\ pending' = NoEntries
    /\ incumbents' = NoEntries
    /\ committedFrom' = {}
    /\ counters' = [pending |-> 0, snapshot |-> 0]
    /\ op' = Idle
    /\ work' = None
    /\ UNCHANGED <<durable, made, accepted, reported, faults>>

\* Seeded bug: hydration finishes the interrupted confirm by merging.
HydrateMerges ==
    /\ idle
    /\ st \in {Absent, Quarantined}
    /\ mls' = MergeStaged(mls)
    /\ st' = Stable(mls'.epoch)
    /\ UNCHANGED <<record, rows, snaps, anchors, pending, incumbents,
                   committedFrom, counters, op, work, env>>

\* hydrate_one_stored_group: a staged commit that removes nobody is cleared,
\* a removal-bearing one is left alone.  retry_hydrate_quarantined_group runs
\* the same steps.
HydrateClear ==
    /\ idle
    /\ st \in {Absent, Quarantined}
    /\ \/ /\ mls.staged # None
          /\ ~Removes(mls.staged)
          /\ \/ /\ mls' = [mls EXCEPT !.staged = None]
                /\ op' = At("rederive", None, None)
                /\ UNCHANGED <<st, faults>>
             \/ /\ Fault("hydrate_clear")
                /\ st' = Quarantined
                /\ UNCHANGED <<mls, op>>
       \/ /\ mls.staged = None \/ Removes(mls.staged)
          /\ st' = Stable(record.epoch)
          /\ UNCHANGED <<mls, op, faults>>
    /\ UNCHANGED <<record, rows, snaps, anchors, pending, incumbents,
                   committedFrom, counters, work, made, accepted, reported,
                   crashes>>

\* The re-derived record is a second write.
HydrateRederive ==
    /\ op.pc = "rederive"
    /\ \/ /\ record' = MirrorOf(mls)
          /\ st' = Stable(mls.epoch)
          /\ UNCHANGED faults
       \/ /\ Fault("hydrate_record")
          /\ st' = Quarantined
          /\ UNCHANGED record
    /\ op' = Idle
    /\ UNCHANGED <<mls, rows, snaps, anchors, pending, incumbents,
                   committedFrom, counters, work, made, accepted, reported,
                   crashes>>

-----------------------------------------------------------------------------
\* Seeded bug: inbound commits are not held back while a publish is pending.
RemoteCommitWhilePending(c) ==
    /\ idle
    /\ c \in Remotes \ mls.merged
    /\ mls' = [epoch |-> mls.epoch + 1, merged |-> mls.merged \cup {c},
               staged |-> None]
    /\ record' = MirrorOf(mls')
    /\ UNCHANGED <<rows, snaps, anchors, volatile, env>>

\* Convergence applies another member's commit at the tip: OpenMLS drops any
\* staged commit, the record is mirrored and the new epoch is retained.
RemoteCommit(c) ==
    /\ idle
    /\ work = None
    /\ st = Stable(mls.epoch)
    /\ c \in Remotes \ mls.merged
    /\ mls' = [epoch |-> mls.epoch + 1, merged |-> mls.merged \cup {c},
               staged |-> None]
    /\ record' = MirrorOf(mls')
    /\ anchors' = [e \in {k \in DOMAIN anchors \cup {mls.epoch + 1} :
                            k >= Floor(mls.epoch + 1)} |->
                     IF e = mls.epoch + 1 THEN e ELSE anchors[e]]
    /\ st' = Stable(mls.epoch + 1)
    /\ UNCHANGED <<rows, snaps, pending, incumbents, committedFrom, counters,
                   op, work, env>>

-----------------------------------------------------------------------------
Send ==
    \/ \E c \in Own : SendBegin(c)
    \/ SendSnapshot \/ SendStage \/ SendRow \/ SendProject \/ SendHandoff
    \/ GuardClear \/ GuardRelease
Confirm == ConfirmRetain \/ ConfirmMerge \/ ConfirmRetain2 \/ ConfirmFinish
Fail    == FailClear \/ FailRecord \/ FailFinish
Hydrate == HydrateClear \/ HydrateRederive

Next ==
    \/ Send \/ Publish \/ Confirm \/ Fail
    \/ Crash \/ Hydrate
    \/ \E c \in Remotes : RemoteCommit(c)

Spec == Init /\ [][Next]_vars

\* Handlers and the runtime loop run to completion once started.
Fairness ==
    /\ WF_vars(SendSnapshot \/ SendStage \/ SendRow \/ SendProject \/ SendHandoff)
    /\ WF_vars(GuardClear \/ GuardRelease)
    /\ WF_vars(Publish) /\ WF_vars(Confirm) /\ WF_vars(Fail)
    /\ WF_vars(Hydrate)
FairSpec == Spec /\ Fairness
-----------------------------------------------------------------------------
(* Properties *)

Names == Nat \X Nat
Recovery == [prior : Nat, commit : Own, snapshot : Names]
SendPc  == {"snapshot", "stage", "row", "project", "handoff",
            "guard_clear", "guard_release"}
RunPc   == {"merge", "retain2", "finish", "fail_record", "fail_finish"}

\* Every variable keeps its shape, and a handler in flight carries the
\* snapshot its next step needs.
TypeOK ==
    /\ mls \in [epoch : Nat, merged : SUBSET Commits, staged : Own \cup {None}]
    /\ record \in [epoch : Nat, roster : SUBSET Commits]
    /\ rows \in [Own -> {"none", "Sent", "Processed"}]
    /\ snaps \subseteq Names
    /\ DOMAIN anchors \subseteq Nat
    /\ st \in [name : {"Stable", "PendingPublish", "Absent", "Quarantined"},
               epoch : Nat]
    /\ DOMAIN pending \subseteq Nat
    /\ \A r \in DOMAIN pending : pending[r] \in Recovery
    /\ DOMAIN incumbents \subseteq Nat
    /\ \A e \in DOMAIN incumbents : incumbents[e] \in Recovery
    /\ committedFrom \subseteq Nat
    /\ counters \in [pending : Nat, snapshot : Nat]
    /\ op \in [pc : {"idle", "rederive"} \cup SendPc \cup RunPc,
               commit : Own \cup {None}, snapshot : Names \cup {None}]
    /\ op.pc \in SendPc \cup RunPc => op.commit \in Own
    /\ op.pc \in {"stage", "row", "project", "handoff", "guard_release"} =>
           op.snapshot \in Names
    /\ work \in [ref : Nat, commit : Own,
                 phase : {"publish", "confirm", "fail"},
                 attempt : 0..(MaxAttempts - 1)] \cup {None}
    /\ made \subseteq Own
    /\ accepted \subseteq Own
    /\ reported \subseteq accepted
    /\ faults \in 0..MaxFaults
    /\ crashes \in 0..MaxCrashes

\* Publish-before-apply: no commit of this device is merged into its own MLS
\* state unless a relay holds it, through every storage failure, crash and
\* hydration (do_confirm_published is the only merge of a staged commit).
PublishBeforeApply == mls.merged \cap Own \subseteq accepted

\* The confirm transaction is atomic: a commit's row says Processed exactly
\* when the commit is merged, even if the confirm was abandoned or crashed.
ProcessedIffMerged ==
    \A c \in Own : rows[c] = "Processed" <=> c \in mls.merged

\* The ref the runtime holds resolves to the commit it published, the engine
\* is in PendingPublish for it, the commit stays staged until its outcome is
\* known, and a confirm finds it staged or, on a retry, already merged.
WorkOwnsPending ==
    /\ work # None =>
        /\ work.ref \in DOMAIN pending
        /\ pending[work.ref].commit = work.commit
        /\ st.name = "PendingPublish"
        /\ op.pc \in {"idle"} \cup RunPc
        /\ work.phase = "publish" => mls.staged = work.commit /\ op.pc = "idle"
        /\ work.phase = "confirm" =>
              /\ work.commit \in accepted
              /\ \/ mls.staged = work.commit
                 \/ mls.staged = None /\ work.commit \in mls.merged
    /\ op.pc \in RunPc => work # None
    /\ op.pc = "merge" => work.phase = "confirm"
    /\ op.pc \in SendPc => op.commit \in made
    /\ op.pc \in {"snapshot", "stage", "row"} => op.commit \notin mls.merged
    /\ op.pc \in {"row", "project", "handoff"} => mls.staged = op.commit
    /\ mls.merged \cap Own \subseteq made
    /\ mls.staged \in made \cup {None}

\* The fork-recovery record of every applied own commit still has its
\* snapshot in storage, and names an epoch the group has left.
IncumbentsBacked ==
    \A e \in DOMAIN incumbents :
        /\ incumbents[e].snapshot \in snaps
        /\ incumbents[e].commit \in mls.merged
        /\ e < mls.epoch

\* While the engine is between handlers in a Stable group, the EpochManager,
\* the Marmot record and the MLS group agree on epoch and contents: every
\* projection of a send was confirmed or undone.
StableAgrees ==
    idle /\ st.name = "Stable" =>
        /\ record = MirrorOf(mls)
        /\ st.epoch = mls.epoch

\* A commit whose acceptance reached the runtime is never discarded by this
\* device: it is merged, or still staged for a later confirm.
ReportedNeverDiscarded ==
    \A c \in reported : c \in mls.merged \/ mls.staged = c

\* Between handlers, the snapshots in storage are exactly those a pending
\* commit or an incumbent owns: no send, failure or confirm leaks one.
NoSnapshotLeak ==
    idle => snaps = {pending[r].snapshot : r \in DOMAIN pending}
                      \cup {incumbents[e].snapshot : e \in DOMAIN incumbents}

\* A staged commit always has a PendingStateRef with which it can be
\* confirmed or failed once the engine is between handlers.
StagedHasHandle ==
    idle /\ st.name \in {"Stable", "PendingPublish"} /\ mls.staged # None =>
        \E r \in DOMAIN pending : pending[r].commit = mls.staged

\* The journal of own commits is truthful: the row of a commit says Processed
\* exactly when it is merged, and the ref the account runtime holds names the
\* commit that is staged or, on a retry of confirm_published, merged.
JournalSound == ProcessedIffMerged /\ WorkOwnsPending

\* What recovery relies on is there: an accepted commit is not discarded, the
\* incumbents have their snapshots, no snapshot is left behind, and a staged
\* commit can still be confirmed or failed.
RecoverySound ==
    ReportedNeverDiscarded /\ IncumbentsBacked /\ NoSnapshotLeak /\ StagedHasHandle

\* Refinement: through every failure and crash the engine's steps are steps of
\* the publish contract, with the MLS group and the relays as its state.
Promise == INSTANCE PublishContract WITH
    NoCommit <- None, epoch <- mls.epoch, staged <- mls.staged,
    applied <- mls.merged \cap Own
Contract == Promise!Contract

\* A pending publish is eventually resolved one way or the other.
PendingResolves == st.name = "PendingPublish" ~> st.name = "Stable"
=============================================================================
