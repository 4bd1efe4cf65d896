----------------------- MODULE PublishLifecycleProofs -----------------------
(***************************************************************************)
(* Proofs about PublishLifecycle for every set of commits, every rewind    *)
(* horizon and every number of failures and crashes.                       *)
(*                                                                         *)
(* PublishBeforeApply is not inductive: that a confirm merges an accepted  *)
(* commit depends on the runtime's work naming the commit that is staged,  *)
(* which is WorkOwnsPending.                                               *)
(*                                                                         *)
(* The second half is about recovery: a promoted incumbent keeps its       *)
(* snapshot, and until the first crash a Stable group agrees with its      *)
(* record and keeps a recovery entry for every epoch it can return to.     *)
(* What a publish in flight has done to the group (PhaseInv) and which     *)
(* snapshots exist (SnapInv) hold through crashes; what a Stable group     *)
(* looks like (Running ... Handled) holds until the first one, which drops *)
(* the refs of staged commits.                                             *)
(***************************************************************************)
EXTENDS PublishLifecycle, TLAPS

\* The inductive invariant of the publish.
Inv == TypeOK /\ WorkOwnsPending /\ PublishBeforeApply /\ ProcessedIffMerged

\* The initial group, with nothing staged and nothing merged, satisfies Inv.
LEMMA InitInv == Init => Inv
BY BoundsAssumption DEF Init, Own, Idle, Stable, NoEntries, MirrorOf, TypeOK,
   SendPc, RunPc, Names, Recovery, WorkOwnsPending, PublishBeforeApply,
   ProcessedIffMerged, Inv

\* A send that passes its gate only arms the guard: Inv is kept.
LEMMA SendBeginInv == ASSUME NEW c \in Own, Inv, SendBegin(c) PROVE Inv'
BY BoundsAssumption, CommitsAssumption
   DEF Inv, TypeOK, WorkOwnsPending, PublishBeforeApply, ProcessedIffMerged, Names,
       Recovery, Commits, Own, Floor, SendBegin, InviteReady, UpdateReady, UpgradeReady,
       RemoveReady, AutoReady, durable, volatile, env, Fault, At, Idle, idle, Stable,
       MirrorOf, NoEntries, SendPc, RunPc

\* Taking the recovery snapshot, or failing to, keeps Inv.
LEMMA SendSnapshotInv == ASSUME Inv, SendSnapshot PROVE Inv'
BY BoundsAssumption, CommitsAssumption
   DEF Inv, TypeOK, WorkOwnsPending, PublishBeforeApply, ProcessedIffMerged, Names,
       Recovery, Commits, Own, Floor, SendSnapshot, durable, volatile, env, Fault, At,
       Idle, idle, Stable, MirrorOf, NoEntries, SendPc, RunPc

\* Staging gives the group the commit of the send in flight, and no other.
LEMMA SendStageInv == ASSUME Inv, SendStage PROVE Inv'
BY BoundsAssumption, CommitsAssumption
   DEF Inv, TypeOK, WorkOwnsPending, PublishBeforeApply, ProcessedIffMerged, Names,
       Recovery, Commits, Own, Floor, SendStage, durable, volatile, env, Fault, At,
       Idle, idle, Stable, MirrorOf, NoEntries, SendPc, RunPc

\* The row of a commit that is being sent is Sent while it is unmerged.
LEMMA SendRowInv == ASSUME Inv, SendRow PROVE Inv'
BY BoundsAssumption, CommitsAssumption
   DEF Inv, TypeOK, WorkOwnsPending, PublishBeforeApply, ProcessedIffMerged, Names,
       Recovery, Commits, Own, Floor, SendRow, durable, volatile, env, Fault, At, Idle,
       idle, Stable, MirrorOf, NoEntries, SendPc, RunPc

\* Projecting the record touches nothing Inv relates.
LEMMA SendProjectInv == ASSUME Inv, SendProject PROVE Inv'
BY BoundsAssumption, CommitsAssumption
   DEF Inv, TypeOK, WorkOwnsPending, PublishBeforeApply, ProcessedIffMerged, Names,
       Recovery, Commits, Own, Floor, SendProject, Projected, InviteProjection,
       EditProjection, AutoProjection, durable, volatile, env, Fault, At, Idle, idle,
       Stable, MirrorOf, NoEntries, SendPc, RunPc

\* The ref handed to the runtime resolves to the commit that is staged.
LEMMA SendHandoffInv == ASSUME Inv, SendHandoff PROVE Inv'
BY BoundsAssumption, CommitsAssumption
   DEF Inv, TypeOK, WorkOwnsPending, PublishBeforeApply, ProcessedIffMerged, Names,
       Recovery, Commits, Own, Floor, SendHandoff, PendingPublish, durable, volatile,
       env, Fault, At, Idle, idle, Stable, MirrorOf, NoEntries, SendPc, RunPc

\* The guard clears a commit that no ref names yet.
LEMMA GuardClearInv == ASSUME Inv, GuardClear PROVE Inv'
BY BoundsAssumption, CommitsAssumption
   DEF Inv, TypeOK, WorkOwnsPending, PublishBeforeApply, ProcessedIffMerged, Names,
       Recovery, Commits, Own, Floor, GuardClear, durable, volatile, env, Fault, At,
       Idle, idle, Stable, MirrorOf, NoEntries, SendPc, RunPc

\* Releasing the snapshot of a failed send keeps Inv.
LEMMA GuardReleaseInv == ASSUME Inv, GuardRelease PROVE Inv'
BY BoundsAssumption, CommitsAssumption
   DEF Inv, TypeOK, WorkOwnsPending, PublishBeforeApply, ProcessedIffMerged, Names,
       Recovery, Commits, Own, Floor, GuardRelease, durable, volatile, env, Fault, At,
       Idle, idle, Stable, MirrorOf, NoEntries, SendPc, RunPc

\* A publish moves on to confirm only with the commit on a relay.
LEMMA PublishInv == ASSUME Inv, Publish PROVE Inv'
BY BoundsAssumption, CommitsAssumption
   DEF Inv, TypeOK, WorkOwnsPending, PublishBeforeApply, ProcessedIffMerged, Names,
       Recovery, Commits, Own, Floor, Publish, durable, volatile, env, Fault, At, Idle,
       idle, Stable, MirrorOf, NoEntries, SendPc, RunPc

\* Retaining the pre-commit anchor, or failing to, keeps Inv.
LEMMA ConfirmRetainInv == ASSUME Inv, ConfirmRetain PROVE Inv'
BY BoundsAssumption, CommitsAssumption
   DEF Inv, TypeOK, WorkOwnsPending, PublishBeforeApply, ProcessedIffMerged, Names,
       Recovery, Commits, Own, Floor, ConfirmRetain, Retain, ConfirmError, durable,
       volatile, env, Fault, At, Idle, idle, Stable, MirrorOf, NoEntries, SendPc, RunPc

\* The confirm transaction merges the commit and marks its row together.
LEMMA ConfirmMergeInv == ASSUME Inv, ConfirmMerge PROVE Inv'
BY BoundsAssumption, CommitsAssumption DEF Inv, ConfirmMerge, MergeStaged,
   ConfirmError, durable, volatile, env, Fault, At, Idle, idle, Stable, MirrorOf,
   NoEntries, SendPc, RunPc, TypeOK, WorkOwnsPending, Names, Recovery, Commits, Own,
   Floor, PublishBeforeApply, ProcessedIffMerged

\* Retaining the post-merge anchor, or failing to, keeps Inv.
LEMMA ConfirmRetain2Inv == ASSUME Inv, ConfirmRetain2 PROVE Inv'
BY BoundsAssumption, CommitsAssumption
   DEF Inv, TypeOK, WorkOwnsPending, PublishBeforeApply, ProcessedIffMerged, Names,
       Recovery, Commits, Own, Floor, ConfirmRetain2, Retain, ConfirmError, durable,
       volatile, env, Fault, At, Idle, idle, Stable, MirrorOf, NoEntries, SendPc, RunPc

\* Finishing a confirm resolves the ref and the work with it.
LEMMA ConfirmFinishInv == ASSUME Inv, ConfirmFinish PROVE Inv'
<1> USE DEF Inv, durable, volatile, env, At, Idle, idle, Stable, NoEntries,
            SendPc, RunPc
<1> DEFINE promoted == Promote(incumbents, pending[work.ref])
<1>0. /\ work # None /\ pending[work.ref] \in Recovery
      /\ work.ref \in DOMAIN pending
    BY Zenon DEF ConfirmFinish, TypeOK, WorkOwnsPending
<1>a. PICK gone \in SUBSET Stale(promoted) :
          /\ incumbents' = Without(promoted, gone)
          /\ snaps' = snaps \ {promoted[e].snapshot : e \in gone}
          /\ faults' = faults \/ Fault("prune")
    BY Zenon DEF ConfirmFinish
<1>b. /\ DOMAIN promoted \subseteq Nat
      /\ \A e \in DOMAIN promoted : promoted[e] \in Recovery
    BY SMTT(30), <1>0 DEF Promote, Recovery, TypeOK
<1> USE DEF ConfirmFinish
<1>1. TypeOK'
  <2>1. /\ DOMAIN incumbents' \subseteq Nat
        /\ \A e \in DOMAIN incumbents' : incumbents'[e] \in Recovery
      BY Zenon, <1>a, <1>b DEF Without
  <2>2. /\ snaps' \subseteq Names /\ committedFrom' \subseteq Nat
        /\ faults' \in 0..MaxFaults
    <3>1. snaps' \subseteq Names /\ committedFrom' \subseteq Nat
        BY ZenonT(30), <1>a DEF TypeOK
    <3>2. faults' \in 0..MaxFaults
        BY <1>a, BoundsAssumption DEF TypeOK, Fault
    <3> QED
        BY Zenon, <3>1, <3>2
  <2>3. st' \in [name : {"Stable", "PendingPublish", "Absent", "Quarantined"},
                  epoch : Nat]
      BY Zenon DEF TypeOK
  <2> QED
      BY Zenon, <2>1, <2>2, <2>3 DEF TypeOK
<1>2. WorkOwnsPending'
    BY Zenon, CommitsAssumption DEF TypeOK, WorkOwnsPending, Recovery
<1>3. PublishBeforeApply'
    BY Zenon, CommitsAssumption DEF TypeOK, WorkOwnsPending, PublishBeforeApply
<1>4. ProcessedIffMerged'
    BY Zenon, CommitsAssumption DEF TypeOK, WorkOwnsPending, ProcessedIffMerged, Recovery
<1> QED
    BY Zenon, <1>1, <1>2, <1>3, <1>4

\* Rolling a publish back discards a commit that was not merged.
LEMMA FailClearInv == ASSUME Inv, FailClear PROVE Inv'
BY BoundsAssumption, CommitsAssumption
   DEF Inv, TypeOK, WorkOwnsPending, PublishBeforeApply, ProcessedIffMerged, Names,
       Recovery, Commits, Own, Floor, FailClear, durable, volatile, env, Fault, At,
       Idle, idle, Stable, MirrorOf, NoEntries, SendPc, RunPc

\* Re-deriving the record keeps Inv.
LEMMA FailRecordInv == ASSUME Inv, FailRecord PROVE Inv'
BY BoundsAssumption, CommitsAssumption
   DEF Inv, TypeOK, WorkOwnsPending, PublishBeforeApply, ProcessedIffMerged, Names,
       Recovery, Commits, Own, Floor, FailRecord, durable, volatile, env, Fault, At,
       Idle, idle, Stable, MirrorOf, NoEntries, SendPc, RunPc

\* Finishing a rollback resolves the ref and the work with it.
LEMMA FailFinishInv == ASSUME Inv, FailFinish PROVE Inv'
<1> USE DEF Inv, FailFinish, durable, volatile, env, Fault, At, Idle, idle,
            Stable, MirrorOf, NoEntries, SendPc, RunPc
<1>0. work # None /\ pending[work.ref] \in Recovery
    BY Zenon DEF TypeOK, WorkOwnsPending
<1>1. TypeOK'
  <2>1. st'.epoch \in Nat /\ st' = [name |-> "Stable", epoch |-> st'.epoch]
      BY Zenon, <1>0 DEF Recovery
  <2>2. snaps' \subseteq Names /\ faults' \in 0..MaxFaults
      BY SMTT(30), BoundsAssumption DEF TypeOK
  <2> QED
      BY Zenon, <2>1, <2>2 DEF TypeOK
<1>2. WorkOwnsPending'
    BY Zenon, CommitsAssumption DEF TypeOK, WorkOwnsPending, Recovery
<1>3. PublishBeforeApply'
    BY Zenon, CommitsAssumption DEF TypeOK, WorkOwnsPending, PublishBeforeApply
<1>4. ProcessedIffMerged'
    BY Zenon, CommitsAssumption DEF TypeOK, WorkOwnsPending, ProcessedIffMerged, Recovery
<1> QED
    BY Zenon, <1>1, <1>2, <1>3, <1>4

\* A crash forgets the ref, the work and the handler in flight together.
LEMMA CrashInv == ASSUME Inv, Crash PROVE Inv'
BY BoundsAssumption, CommitsAssumption
   DEF Inv, TypeOK, WorkOwnsPending, PublishBeforeApply, ProcessedIffMerged, Names,
       Recovery, Commits, Own, Floor, Crash, Absent, durable, volatile, env, Fault, At,
       Idle, idle, Stable, MirrorOf, NoEntries, SendPc, RunPc

\* Hydration clears a staged commit, and merges none.
LEMMA HydrateClearInv == ASSUME Inv, HydrateClear PROVE Inv'
BY BoundsAssumption, CommitsAssumption
   DEF Inv, TypeOK, WorkOwnsPending, PublishBeforeApply, ProcessedIffMerged, Names,
       Recovery, Commits, Own, Floor, HydrateClear, Removes, Absent, Quarantined,
       durable, volatile, env, Fault, At, Idle, idle, Stable, MirrorOf, NoEntries,
       SendPc, RunPc

\* Re-deriving the record in hydration keeps Inv.
LEMMA HydrateRederiveInv == ASSUME Inv, HydrateRederive PROVE Inv'
BY SMTT(30), BoundsAssumption, CommitsAssumption
   DEF Inv, TypeOK, WorkOwnsPending, PublishBeforeApply, ProcessedIffMerged, Names,
       Recovery, Commits, Own, Floor, HydrateRederive, Quarantined, durable, volatile,
       env, Fault, At, Idle, idle, Stable, MirrorOf, NoEntries, SendPc, RunPc

\* Another member's commit is merged only while no publish is pending.
LEMMA RemoteCommitInv == ASSUME NEW c \in Remotes, Inv, RemoteCommit(c) PROVE Inv'
BY BoundsAssumption, CommitsAssumption
   DEF Inv, TypeOK, WorkOwnsPending, PublishBeforeApply, ProcessedIffMerged, Names,
       Recovery, Commits, Own, Floor, RemoteCommit, durable, volatile, env, Fault, At,
       Idle, idle, Stable, MirrorOf, NoEntries, SendPc, RunPc

\* A step that changes no variable keeps Inv.
LEMMA StutterInv == ASSUME Inv, UNCHANGED vars PROVE Inv'
BY DEF vars, durable, volatile, env, Inv, TypeOK, WorkOwnsPending,
   PublishBeforeApply, ProcessedIffMerged

\* Every step of the engine, the runtime, a crash or a peer keeps Inv.
LEMMA NextInv == Inv /\ [Next]_vars => Inv'
BY Zenon, SendBeginInv, SendSnapshotInv, SendStageInv, SendRowInv, SendProjectInv,
   SendHandoffInv, GuardClearInv, GuardReleaseInv, PublishInv, ConfirmRetainInv,
   ConfirmMergeInv, ConfirmRetain2Inv, ConfirmFinishInv, FailClearInv,
   FailRecordInv, FailFinishInv, CrashInv, HydrateClearInv, HydrateRederiveInv,
   RemoteCommitInv, StutterInv DEF Send, Confirm, Fail, Hydrate, Next

\* Inv holds in every execution.
LEMMA InvHolds == Spec => []Inv
BY InitInv, NextInv, PTL DEF Spec

\* The engine and the runtime keep every variable's shape.
THEOREM TypeCorrect == Spec => []TypeOK
BY InvHolds, PTL DEF Inv

\* No own commit is merged before a relay holds it, whatever fails or crashes.
THEOREM PublishBeforeApplyHolds == Spec => []PublishBeforeApply
BY InvHolds, PTL DEF Inv

\* The confirm transaction ties the Processed row to the merge.
THEOREM ProcessedIffMergedHolds == Spec => []ProcessedIffMerged
BY InvHolds, PTL DEF Inv

\* The ref held by the runtime always resolves to the commit it published.
THEOREM WorkOwnsPendingHolds == Spec => []WorkOwnsPending
BY InvHolds, PTL DEF Inv

\* Row, merge and ref of every own commit agree, whatever fails or crashes.
THEOREM JournalSoundHolds == Spec => []JournalSound
BY ProcessedIffMergedHolds, WorkOwnsPendingHolds, PTL DEF JournalSound

-----------------------------------------------------------------------------
(* Refinement *)

\* An initial state of the lifecycle is one of the contract.
LEMMA InitRefines == Init => Promise!ContractInit
BY DEF Init, Promise!ContractInit, MirrorOf

\* Steps that leave the MLS group and the relays alone are stutters.
LEMMA QuietSteps ==
    ASSUME UNCHANGED <<mls, accepted>> PROVE UNCHANGED Promise!contractVars
BY Zenon DEF Promise!contractVars

\* Clearing the staged commit is a Discard, or a stutter if there was none.
LEMMA ClearRefines ==
    ASSUME TypeOK, mls' = [mls EXCEPT !.staged = None], UNCHANGED accepted
    PROVE [Promise!ContractNext]_(Promise!contractVars)
BY Zenon DEF TypeOK, Promise!ContractNext, Promise!Discard, Promise!contractVars

\* Every step of the lifecycle is a step of the contract or a stutter.
LEMMA NextRefines ==
    Inv /\ [Next]_vars => [Promise!ContractNext]_(Promise!contractVars)
<1> SUFFICES ASSUME Inv, [Next]_vars
             PROVE [Promise!ContractNext]_(Promise!contractVars)
    BY Zenon
<1> USE DEF Inv
<1>1. CASE \/ \E c \in Own : SendBegin(c)
           \/ SendSnapshot \/ SendRow \/ SendProject \/ SendHandoff
           \/ GuardRelease \/ ConfirmRetain \/ ConfirmRetain2 \/ ConfirmFinish
           \/ FailRecord \/ FailFinish \/ Crash \/ HydrateRederive
           \/ UNCHANGED vars
    BY Zenon, <1>1, QuietSteps DEF SendBegin, SendSnapshot, SendRow, SendProject,
       SendHandoff, GuardRelease, ConfirmRetain, ConfirmRetain2, ConfirmFinish,
       FailRecord, FailFinish, Crash, HydrateRederive, vars, durable, volatile, env
<1>2. CASE GuardClear \/ FailClear \/ HydrateClear
    BY Zenon, <1>2, QuietSteps, ClearRefines DEF GuardClear, FailClear, HydrateClear
<1>3. CASE SendStage
    BY <1>3, QuietSteps DEF SendStage, TypeOK, SendPc, WorkOwnsPending,
       Promise!Stage, Promise!ContractNext
<1>4. CASE Publish
    BY <1>4, CommitsAssumption, QuietSteps DEF Publish, TypeOK, WorkOwnsPending,
       durable, Commits, Promise!Accept, Promise!ContractNext
<1>5. CASE ConfirmMerge
    BY <1>5, QuietSteps DEF ConfirmMerge, TypeOK, WorkOwnsPending, RunPc,
       MergeStaged, Promise!Apply, Promise!ContractNext
<1>6. CASE \E c \in Remotes : RemoteCommit(c)
    BY <1>6, CommitsAssumption DEF RemoteCommit, env, Promise!Supersede,
       Promise!ContractNext
<1> QED
    BY Zenon, <1>1, <1>2, <1>3, <1>4, <1>5, <1>6 DEF Next, Send, Confirm, Fail, Hydrate

\* The lifecycle implements the publish contract.
THEOREM ImplementsContract == Spec => Contract
BY InitRefines, NextRefines, InvHolds, PTL DEF Spec, Contract, Promise!Contract

-----------------------------------------------------------------------------
(* Recovery.                                                               *)

\* The entry of the publish at work.
Mine == pending[work.ref]

\* A send runs in a Stable group, which has no ref; and the epoch, the staged
\* commit and the record in each phase of a publish.
PhaseInv ==
    /\ op.pc \in SendPc => st.name = "Stable"
    /\ st.name # "PendingPublish" \/ op.pc = "rederive" => pending = NoEntries
    /\ work # None =>
        /\ DOMAIN pending = {work.ref}
        /\ st.epoch = Mine.prior + 1
        /\ work.phase \in {"publish", "fail"} => mls.epoch = Mine.prior
        /\ work.phase = "fail" =>
              /\ op.pc \in {"idle", "fail_record", "fail_finish"}
              /\ op.pc = "idle" => mls.staged = work.commit
        /\ work.phase = "confirm" =>
              /\ op.pc \in {"idle", "merge", "retain2", "finish"}
              /\ \/ mls.staged = work.commit /\ mls.epoch = Mine.prior
                 \/ /\ mls.staged = None /\ mls.epoch = Mine.prior + 1
                    /\ record = MirrorOf(mls)
        /\ op.pc \in {"retain2", "finish", "fail_record", "fail_finish"} =>
              mls.staged = None

\* Every step takes a publish from one phase to the next as PhaseInv says.
LEMMA PhaseNext == ASSUME Inv, PhaseInv, Next PROVE PhaseInv'
<1> USE CommitsAssumption DEF Inv, PhaseInv, Mine, Idle, idle, At, SendPc, RunPc,
                              durable, volatile, env
<1>1. CASE \E c \in Own : SendBegin(c)
    BY ZenonT(30), <1>1 DEF SendBegin, InviteReady, UpdateReady, UpgradeReady,
       RemoveReady, AutoReady
<1>2. CASE SendSnapshot \/ SendStage \/ SendRow \/ SendProject \/ GuardClear \/ GuardRelease
    BY Zenon, <1>2 DEF WorkOwnsPending, SendSnapshot, SendStage, SendRow, SendProject,
       GuardClear, GuardRelease
<1>3. CASE SendHandoff
    BY Zenon, <1>3 DEF SendHandoff, PendingPublish, WorkOwnsPending, TypeOK, Commits
<1>4. CASE Publish
    BY <1>4 DEF Publish, WorkOwnsPending, TypeOK
<1>5. CASE ConfirmRetain
    BY <1>5 DEF ConfirmRetain, ConfirmError, TypeOK
<1>6. CASE ConfirmMerge
    BY <1>6 DEF ConfirmMerge, ConfirmError, MergeStaged, MirrorOf, WorkOwnsPending, TypeOK,
              Commits
<1>7. CASE ConfirmRetain2
    BY SMTT(30), <1>7 DEF ConfirmRetain2, ConfirmError, WorkOwnsPending, TypeOK
<1>8. CASE ConfirmFinish \/ FailFinish
    BY SMTT(30), <1>8 DEF ConfirmFinish, FailFinish, Stable
<1>9. CASE FailClear
    BY <1>9 DEF FailClear, TypeOK
<1>10. CASE FailRecord
    BY <1>10 DEF FailRecord, WorkOwnsPending, TypeOK
<1>11. CASE Crash
    BY Zenon, <1>11 DEF Crash, Absent
<1>12. CASE Hydrate
    BY <1>12 DEF Hydrate, HydrateClear, HydrateRederive, WorkOwnsPending, Absent,
       Quarantined
<1>13. CASE \E c \in Remotes : RemoteCommit(c)
    BY SMTT(30), <1>13 DEF RemoteCommit, Stable
<1> QED
    BY ZenonT(30), <1>1, <1>2, <1>3, <1>4, <1>5, <1>6, <1>7, <1>8, <1>9, <1>10, <1>11,
       <1>12, <1>13
     DEF Next, Send, Confirm, Fail

\* Every snapshot a record owns exists and is named after the epoch the
\* commit was made in, so that different owners have different snapshots.
SnapInv ==
    /\ IncumbentsBacked
    /\ \A e \in DOMAIN incumbents : incumbents[e].snapshot[1] = e
    /\ work # None => \A e \in DOMAIN incumbents : e < Mine.prior
    /\ \A r \in DOMAIN pending : /\ pending[r].snapshot \in snaps
                                 /\ pending[r].snapshot[1] = pending[r].prior
    /\ op.pc \in SendPc /\ op.snapshot # None =>
           op.snapshot \in snaps /\ op.snapshot[1] = mls.epoch
    /\ op.pc = "snapshot" => op.snapshot = None

\* A snapshot is released only with its owner, and promotion takes over the
\* snapshot of an epoch that no incumbent has.
LEMMA SnapNext == ASSUME Inv, PhaseInv, SnapInv, Next PROVE SnapInv'
<1> USE CommitsAssumption DEF Inv, SnapInv, IncumbentsBacked, Mine, Idle, idle,
        At, SendPc, RunPc, durable, volatile, env
<1>1. CASE \E c \in Own : SendBegin(c)
    BY SMTT(30), <1>1 DEF SendBegin
<1>2. CASE SendSnapshot
    BY <1>2 DEF SendSnapshot, WorkOwnsPending, TypeOK, Names
<1>3. CASE SendStage
    BY SMTT(30), <1>3 DEF SendStage, TypeOK
<1>4. CASE SendRow \/ SendProject
    BY <1>4 DEF SendRow, SendProject, TypeOK
<1>5. CASE SendHandoff
    BY <1>5, NoneAssumption DEF SendHandoff, TypeOK, Names
<1>6. CASE GuardClear
    BY SMTT(30), <1>6 DEF GuardClear, TypeOK
<1>7. CASE GuardRelease
    BY SMTT(30), <1>7, NoneAssumption DEF GuardRelease, TypeOK, Names, WorkOwnsPending,
       PhaseInv, NoEntries
<1>8. CASE Publish
    BY SMTT(30), <1>8 DEF Publish, TypeOK
<1>9. CASE ConfirmRetain \/ ConfirmRetain2
    BY <1>9 DEF ConfirmRetain, ConfirmRetain2, ConfirmError, TypeOK, WorkOwnsPending
<1>10. CASE ConfirmMerge
  <2>1. work' = None \/ (work # None /\ work'.ref = work.ref)
      BY <1>10 DEF ConfirmMerge, ConfirmError, TypeOK, WorkOwnsPending
  <2>2. /\ op' = Idle \/ op'.pc \in RunPc
        /\ UNCHANGED <<incumbents, pending, snaps>>
        /\ mls' = mls \/ mls' = MergeStaged(mls)
      BY SMTT(30), <1>10 DEF ConfirmMerge, ConfirmError
  <2>3. /\ mls.merged \subseteq mls'.merged
        /\ mls'.epoch \in Nat /\ mls'.epoch >= mls.epoch
      BY SMTT(30), <2>2 DEF MergeStaged, TypeOK
  <2>4. IncumbentsBacked'
      BY SMTT(30), <2>2, <2>3 DEF TypeOK
  <2> QED
      BY <2>1, <2>2, <2>4
<1>11. CASE ConfirmFinish
  <2> DEFINE promoted == Promote(incumbents, Mine)
  <2>1. PICK gone \in SUBSET Stale(promoted) :
            /\ incumbents' = Without(promoted, gone)
            /\ snaps' = snaps \ {promoted[e].snapshot : e \in gone}
      BY ZenonT(30), <1>11 DEF ConfirmFinish
  <2>2. /\ work # None /\ work.ref \in DOMAIN pending /\ Mine \in Recovery
        /\ Mine.commit \in mls.merged /\ mls.epoch = Mine.prior + 1
      BY SMTT(30), <1>11 DEF ConfirmFinish, WorkOwnsPending, PhaseInv, TypeOK, Commits
  <2>3. \A e \in DOMAIN promoted :
            /\ promoted[e].snapshot \in snaps /\ promoted[e].snapshot[1] = e
            /\ promoted[e].commit \in mls.merged /\ e < mls.epoch
      BY <2>2 DEF Recovery, Promote
  <2>4. \A e \in DOMAIN incumbents' : incumbents'[e] = promoted[e]
                                    /\ e \in DOMAIN promoted \ gone
      BY ZenonT(30), <2>1 DEF Without
  <2>5. \A e \in DOMAIN incumbents' : promoted[e].snapshot \in snaps'
      BY SMTT(30), <2>1, <2>3, <2>4 DEF Stale
  <2>6. UNCHANGED mls /\ work' = None /\ DOMAIN pending' = {} /\ op'.pc = "idle"
      BY ZenonT(30), <1>11 DEF ConfirmFinish, NoEntries
  <2> QED
      BY ZenonT(30), <2>3, <2>4, <2>5, <2>6
<1>12. CASE FailClear \/ FailRecord
    BY SMTT(30), <1>12 DEF FailClear, FailRecord, TypeOK
<1>13. CASE FailFinish
    BY SMTT(30), <1>13 DEF FailFinish, NoEntries, WorkOwnsPending, TypeOK, Recovery
<1>14. CASE Crash
    BY Zenon, <1>14 DEF Crash, NoEntries
<1>15. CASE Hydrate
    BY <1>15 DEF Hydrate, HydrateClear, HydrateRederive, WorkOwnsPending, TypeOK,
     Absent, Quarantined
<1>16. CASE \E c \in Remotes : RemoteCommit(c)
    BY <1>16 DEF RemoteCommit, TypeOK
<1> QED
    BY ZenonT(30), <1>1, <1>2, <1>3, <1>4, <1>5, <1>6, <1>7, <1>8, <1>9, <1>10, <1>11,
       <1>12,
     <1>13, <1>14, <1>15, <1>16 DEF Next, Send, Confirm, Fail

\* Before the first crash the group is never absent, and a Stable one has the
\* epoch of the MLS group.
Running ==
    /\ st.name \in {"Stable", "PendingPublish"} /\ op.pc # "rederive"
    /\ st.name = "Stable" => st.epoch = mls.epoch

\* The EpochManager moves to the epoch the group has reached.
LEMMA RunningNext ==
    ASSUME Inv, PhaseInv, Running, Next, crashes' = 0 PROVE Running'
<1> USE DEF Inv, Running, Idle, idle, At, SendPc, RunPc, durable, volatile, env
<1>1. CASE Send \/ Publish \/ ConfirmRetain \/ ConfirmRetain2 \/ FailRecord
    BY <1>1 DEF Send, SendBegin, SendSnapshot, SendStage, SendRow, SendProject,
     SendHandoff, PendingPublish, GuardClear, GuardRelease, Publish, ConfirmRetain,
     ConfirmRetain2, ConfirmError, FailRecord, TypeOK
<1>2. CASE ConfirmMerge \/ FailClear
    BY <1>2 DEF ConfirmMerge, FailClear, WorkOwnsPending, ConfirmError
<1>3. CASE ConfirmFinish
    BY SMTT(30), <1>3, CommitsAssumption DEF ConfirmFinish, Stable, WorkOwnsPending,
       PhaseInv, Mine,
                                 TypeOK, Commits
<1>4. CASE FailFinish
    BY ZenonT(30), <1>4 DEF FailFinish, Stable, WorkOwnsPending, PhaseInv, Mine, TypeOK,
       Commits
<1>5. CASE Crash
    BY SMTT(30), <1>5 DEF Crash, TypeOK
<1>6. CASE Hydrate
    BY SMTT(30), <1>6 DEF Hydrate, HydrateClear, HydrateRederive, Absent, Quarantined
<1>7. CASE \E c \in Remotes : RemoteCommit(c)
    BY SMTT(30), <1>7 DEF RemoteCommit, Stable, TypeOK
<1> QED
    BY ZenonT(30), <1>1, <1>2, <1>3, <1>4, <1>5, <1>6, <1>7 DEF Next, Confirm, Fail

\* A Stable group's record mirrors MLS except while a send has projected its
\* commit and not yet handed it over; a rollback mirrors it again.
Mirrored ==
    /\ st.name = "Stable" /\ op.pc # "handoff" => record = MirrorOf(mls)
    /\ op.pc = "fail_finish" => record = MirrorOf(mls)

\* Only do_publish_failed's skipped read leaves a projection in the record.
LEMMA MirroredNext ==
    ASSUME Inv, PhaseInv, Running, Mirrored, Next, crashes' = 0,
           "fail_read" \notin Faulty
    PROVE  Mirrored'
<1> USE CommitsAssumption DEF Inv, Mirrored, MirrorOf, Idle, idle, At, SendPc, RunPc,
                              durable,
        volatile, env
<1>1. CASE \/ \E c \in Own : SendBegin(c)
           \/ SendSnapshot \/ SendRow \/ SendProject \/ SendHandoff \/ GuardRelease
    BY <1>1 DEF SendBegin, SendSnapshot, SendRow, SendProject, SendHandoff,
     PendingPublish, GuardRelease, TypeOK
<1>2. CASE SendStage \/ GuardClear
    BY <1>2 DEF SendStage, GuardClear, TypeOK
<1>3. CASE Publish \/ ConfirmRetain \/ ConfirmRetain2
    BY <1>3 DEF Publish, ConfirmRetain, ConfirmRetain2, ConfirmError, TypeOK
<1>4. CASE ConfirmMerge
    BY SMTT(30), <1>4 DEF ConfirmMerge, ConfirmError, WorkOwnsPending
<1>5. CASE ConfirmFinish
    BY SMTT(30), <1>5 DEF ConfirmFinish, WorkOwnsPending, PhaseInv, TypeOK, Commits
<1>6. CASE FailClear
    BY SMTT(30), <1>6 DEF FailClear, WorkOwnsPending
<1>7. CASE FailRecord
    BY SMTT(30), <1>7 DEF FailRecord, Fault, WorkOwnsPending
<1>8. CASE FailFinish
    BY Zenon, <1>8 DEF FailFinish
<1>9. CASE Crash
    BY <1>9 DEF Crash, TypeOK
<1>10. CASE Hydrate
    BY SMTT(30), <1>10 DEF Running, Hydrate, HydrateClear, HydrateRederive, Absent,
       Quarantined
<1>11. CASE \E c \in Remotes : RemoteCommit(c)
    BY Zenon, <1>11 DEF RemoteCommit
<1> QED
    BY Zenon, <1>1, <1>2, <1>3, <1>4, <1>5, <1>6, <1>7, <1>8, <1>9, <1>10, <1>11
        DEF Next, Send, Confirm, Fail

\* What is cleared was never reported: a commit of a send has not been
\* published, and a rolled-back one was published once, without a report.
Kept ==
    /\ ReportedNeverDiscarded /\ reported \subseteq made
    /\ work # None /\ work.phase # "confirm" => work.commit \notin reported
    /\ op.pc \in SendPc => op.commit \notin reported
    /\ st.name = "Stable" => mls.staged \notin reported

\* No step before the first crash discards a commit that was reported.
LEMMA KeptNext ==
    ASSUME Inv, PhaseInv, Running, Kept, Next, crashes' = 0 PROVE Kept'
<1> USE CommitsAssumption DEF Inv, Kept, ReportedNeverDiscarded, Idle, idle, At, SendPc,
                              RunPc, durable,
        volatile, env, Commits
<1>1. CASE \E c \in Own : SendBegin(c)
    BY <1>1 DEF SendBegin, TypeOK
<1>2. CASE SendSnapshot \/ SendRow \/ SendProject \/ GuardRelease
    BY <1>2 DEF SendSnapshot, SendRow, SendProject, GuardRelease, TypeOK
<1>3. CASE SendStage
    BY <1>3 DEF SendStage, PhaseInv, TypeOK
<1>4. CASE SendHandoff
    BY Zenon, <1>4 DEF SendHandoff, PendingPublish, TypeOK
<1>5. CASE GuardClear
    BY <1>5 DEF GuardClear, PhaseInv, TypeOK
<1>6. CASE Publish
    BY <1>6 DEF Publish, WorkOwnsPending, TypeOK
<1>7. CASE ConfirmRetain \/ ConfirmRetain2
    BY <1>7 DEF ConfirmRetain, ConfirmRetain2, ConfirmError, WorkOwnsPending, TypeOK
<1>8. CASE ConfirmMerge
    BY SMTT(30), <1>8 DEF ConfirmMerge, ConfirmError, MergeStaged, WorkOwnsPending, TypeOK
<1>9. CASE ConfirmFinish
    BY SMTT(30), <1>9 DEF ConfirmFinish, WorkOwnsPending, PhaseInv, TypeOK
<1>10. CASE FailClear
    BY SMTT(30), <1>10 DEF FailClear, WorkOwnsPending, PhaseInv, TypeOK
<1>11. CASE FailRecord
    BY SMTT(30), <1>11 DEF FailRecord, TypeOK
<1>12. CASE FailFinish
    BY SMTT(30), <1>12 DEF FailFinish, WorkOwnsPending, PhaseInv, TypeOK
<1>13. CASE Crash
    BY <1>13 DEF Crash, TypeOK
<1>14. CASE Hydrate
    BY SMTT(30), <1>14 DEF Running, Hydrate, HydrateClear, HydrateRederive, Absent,
       Quarantined
<1>15. CASE \E c \in Remotes : RemoteCommit(c)
    BY SMTT(30), <1>15 DEF RemoteCommit, Stable, TypeOK
<1> QED
    BY ZenonT(30), <1>1, <1>2, <1>3, <1>4, <1>5, <1>6, <1>7, <1>8, <1>9, <1>10, <1>11,
           <1>12, <1>13, <1>14, <1>15 DEF Next, Send, Confirm, Fail

\* The snapshot of a send in flight, which no record owns yet.
Sending == IF op.pc \in SendPc /\ op.snapshot # None THEN {op.snapshot} ELSE {}

\* Every snapshot has an owner: a ref, an incumbent or the send in flight.
Owned == snaps = {pending[r].snapshot : r \in DOMAIN pending}
                   \cup {incumbents[e].snapshot : e \in DOMAIN incumbents}
                   \cup Sending

\* With the guard's and the rollback's releases succeeding, no step of a
\* running engine leaves a snapshot without an owner.
LEMMA OwnedNext ==
    ASSUME Inv, PhaseInv, SnapInv, Running, Owned, Next, crashes' = 0,
           Faulty \cap {"guard_clear", "guard_release", "fail_release"} = {}
    PROVE  Owned'
<1> USE DEF Inv, Owned, Sending, Idle, idle, At, SendPc, RunPc, durable, volatile, env
<1>1. CASE \E c \in Own : SendBegin(c)
    BY <1>1 DEF SendBegin
<1>2. CASE SendSnapshot
    BY <1>2, NoneAssumption DEF SendSnapshot, SnapInv, TypeOK
<1>3. CASE SendStage \/ SendRow \/ SendProject
    BY <1>3 DEF SendStage, SendRow, SendProject
<1>4. CASE SendHandoff
    BY <1>4, NoneAssumption DEF SendHandoff, PhaseInv, NoEntries, TypeOK, Names
<1>5. CASE GuardClear
    BY <1>5 DEF GuardClear, Fault
<1>6. CASE GuardRelease
  <2>1. /\ DOMAIN pending = {} /\ op.snapshot # None
        /\ \A e \in DOMAIN incumbents : incumbents[e].snapshot # op.snapshot
      BY SMTT(30), <1>6, NoneAssumption DEF GuardRelease, PhaseInv, NoEntries, TypeOK,
         Names,
       SnapInv, IncumbentsBacked
  <2> QED
      BY SMTT(30), <1>6, <2>1 DEF GuardRelease, Fault
<1>7. CASE Publish \/ ConfirmRetain \/ ConfirmMerge \/ ConfirmRetain2
           \/ FailClear \/ FailRecord
    BY SMTT(30), <1>7 DEF Publish, ConfirmRetain, ConfirmMerge, ConfirmRetain2,
       ConfirmError,
     FailClear, FailRecord
<1>8. CASE ConfirmFinish
  <2> DEFINE promoted == Promote(incumbents, Mine)
  <2>1. PICK gone \in SUBSET Stale(promoted) :
            /\ incumbents' = Without(promoted, gone)
            /\ snaps' = snaps \ {promoted[e].snapshot : e \in gone}
      BY ZenonT(30), <1>8 DEF ConfirmFinish, Mine
  <2>2. /\ DOMAIN pending = {work.ref} /\ Mine.snapshot[1] = Mine.prior
        /\ \A e \in DOMAIN incumbents : e < Mine.prior
      BY ZenonT(30), <1>8 DEF ConfirmFinish, PhaseInv, SnapInv, WorkOwnsPending, Mine
  <2>3. snaps = {promoted[e].snapshot : e \in DOMAIN promoted}
    <3>1. Mine.prior \in Nat /\ Mine.prior \notin DOMAIN incumbents
        BY <2>2 DEF TypeOK, Recovery, Mine
    <3>2. snaps = {Mine.snapshot} \cup {incumbents[e].snapshot : e \in DOMAIN incumbents}
        BY ZenonT(30), <1>8, <2>2 DEF ConfirmFinish, Mine
    <3> QED
        BY ZenonT(30), <3>1, <3>2 DEF Promote
  <2>4. \A e \in DOMAIN promoted : promoted[e].snapshot[1] = e
      BY Zenon, <2>2 DEF Promote, SnapInv
  <2>5. snaps' = {promoted[e].snapshot : e \in DOMAIN promoted \ gone}
      BY SMTT(30), <2>1, <2>3, <2>4 DEF Stale
  <2>6. DOMAIN pending' = {} /\ op'.pc = "idle"
      BY ZenonT(30), <1>8 DEF ConfirmFinish, NoEntries
  <2>7. snaps' = {incumbents'[e].snapshot : e \in DOMAIN incumbents'}
      BY ZenonT(30), <2>1, <2>5 DEF Without
  <2> QED
      BY Zenon, <2>6, <2>7
<1>9. CASE FailFinish
    BY SMTT(30), <1>9 DEF FailFinish, PhaseInv, SnapInv, WorkOwnsPending, Mine, TypeOK,
       Recovery, Fault, NoEntries
<1>10. CASE Crash
    BY SMTT(30), <1>10 DEF Crash, TypeOK
<1>11. CASE Hydrate
    BY SMTT(30), <1>11 DEF Running, Hydrate, HydrateClear, HydrateRederive, Absent,
       Quarantined
<1>12. CASE \E c \in Remotes : RemoteCommit(c)
    BY SMTT(30), <1>12 DEF RemoteCommit
<1> QED
    BY ZenonT(30), <1>1, <1>2, <1>3, <1>4, <1>5, <1>6, <1>7, <1>8, <1>9, <1>10, <1>11, <1>12
        DEF Next, Send, Confirm, Fail

\* In a Stable group only the send in flight has a commit staged; otherwise
\* the staged commit has its ref.
Handled ==
    /\ st.name = "Stable" =>
         mls.staged = None \/ op.pc \in {"row", "project", "handoff", "guard_clear"}
    /\ st.name = "PendingPublish" /\ mls.staged # None =>
         \E r \in DOMAIN pending : pending[r].commit = mls.staged

\* With the guard's clear succeeding, no send leaves a staged commit behind.
LEMMA HandledNext ==
    ASSUME Inv, PhaseInv, Running, Handled, Next, crashes' = 0,
           "guard_clear" \notin Faulty
    PROVE  Handled'
<1> USE CommitsAssumption DEF Inv, Handled, Idle, idle, At, SendPc, RunPc, durable,
                              volatile, env
<1>1. CASE Send
    BY <1>1 DEF Send, SendBegin, SendSnapshot, SendStage, SendRow, SendProject,
     SendHandoff, PendingPublish, GuardClear, GuardRelease, Fault, WorkOwnsPending,
     PhaseInv, TypeOK
<1>2. CASE Publish
    BY Zenon, <1>2 DEF Publish
<1>3. CASE ConfirmRetain \/ ConfirmRetain2 \/ FailRecord
    BY Zenon, <1>3 DEF ConfirmRetain, ConfirmRetain2, ConfirmError, FailRecord,
       WorkOwnsPending
<1>4. CASE ConfirmMerge
    BY SMTT(30), <1>4 DEF ConfirmMerge, ConfirmError, MergeStaged, WorkOwnsPending, TypeOK
<1>5. CASE ConfirmFinish \/ FailFinish
    BY ZenonT(30), <1>5 DEF ConfirmFinish, FailFinish, Stable, WorkOwnsPending, PhaseInv
<1>6. CASE FailClear
    BY SMTT(30), <1>6 DEF FailClear, WorkOwnsPending, TypeOK
<1>7. CASE Crash
    BY SMTT(30), <1>7 DEF Crash, TypeOK
<1>8. CASE Hydrate
    BY SMTT(30), <1>8 DEF Running, Hydrate, HydrateClear, HydrateRederive, Absent,
       Quarantined
<1>9. CASE \E c \in Remotes : RemoteCommit(c)
    BY SMTT(30), <1>9 DEF RemoteCommit, Stable
<1> QED
    BY ZenonT(30), <1>1, <1>2, <1>3, <1>4, <1>5, <1>6, <1>7, <1>8, <1>9
        DEF Next, Confirm, Fail

\* Crashes are counted: a state without one was reached without one.
LEMMA CrashesGrow == ASSUME TypeOK, Next, crashes' = 0 PROVE crashes = 0
<1>1. CASE Crash
    BY SMTT(30), <1>1, BoundsAssumption DEF Crash, TypeOK
<1>2. CASE Send \/ Publish
    BY Zenon, <1>2 DEF Send, SendBegin, SendSnapshot, SendStage, SendRow, SendProject,
     SendHandoff, GuardClear, GuardRelease, Publish, env
<1>3. CASE Confirm \/ Fail
    BY Zenon, <1>3 DEF Confirm, ConfirmRetain, ConfirmMerge, ConfirmRetain2, ConfirmFinish,
     Fail, FailClear, FailRecord, FailFinish
<1>4. CASE Hydrate \/ \E c \in Remotes : RemoteCommit(c)
    BY ZenonT(30), <1>4 DEF Hydrate, HydrateClear, HydrateRederive, RemoteCommit, env
<1> QED
    BY ZenonT(30), <1>1, <1>2, <1>3, <1>4 DEF Next

\* What holds in every execution, and what holds until the first crash.
RInv == /\ Inv /\ PhaseInv /\ SnapInv
        /\ crashes = 0 => Running /\ Kept

\* The recovery invariants hold in every execution.
LEMMA RInvHolds == Spec => []RInv
<1>1. Init => RInv
  <2> SUFFICES ASSUME Init PROVE RInv
      BY Zenon
  <2>1. PhaseInv /\ SnapInv
      BY Zenon DEF Init, PhaseInv, SnapInv, IncumbentsBacked, NoEntries, Idle, SendPc
  <2>2. Running /\ Kept
      BY Zenon DEF Init, Running, Kept, ReportedNeverDiscarded, Stable, Idle, SendPc
  <2> QED
      BY Zenon, <2>1, <2>2, InitInv DEF RInv
<1>2. RInv /\ [Next]_vars => RInv'
  <2> SUFFICES ASSUME RInv, [Next]_vars PROVE RInv'
      BY Zenon
  <2> USE DEF RInv
  <2>1. CASE Next
      BY ZenonT(30), <2>1, NextInv, PhaseNext, SnapNext, CrashesGrow, RunningNext,
         KeptNext DEF
         Inv
  <2>2. CASE UNCHANGED vars
      BY <2>2, StutterInv DEF vars, durable, volatile, env, PhaseInv, SnapInv,
         IncumbentsBacked, Mine, Running, Kept, ReportedNeverDiscarded
  <2> QED
      BY Zenon, <2>1, <2>2
<1> QED
    BY <1>1, <1>2, PTL DEF Spec

\* Every incumbent has its snapshot and names an epoch the group has left,
\* through every failure and crash.
THEOREM IncumbentsBackedHolds == Spec => []IncumbentsBacked
<1>1. RInv => IncumbentsBacked
    BY Zenon DEF RInv, SnapInv
<1> QED
    BY <1>1, RInvHolds, PTL

\* Until the first crash, a group at rest has the record and the epoch of its
\* MLS state, unless do_publish_failed skips a failing read of the record.
THEOREM StableAgreesHolds ==
    ASSUME "fail_read" \notin Faulty
    PROVE  Spec => [](crashes = 0 => StableAgrees)
<1> DEFINE J == crashes = 0 => Mirrored
<1>1. Init => J
    BY Zenon DEF Init, Mirrored, Idle
<1>2. RInv /\ J /\ [Next]_vars => J'
    BY ZenonT(30), CrashesGrow, MirroredNext DEF RInv, Inv, vars, durable, volatile, env,
       Mirrored, MirrorOf
<1>3. RInv /\ J => (crashes = 0 => StableAgrees)
    BY DEF RInv, Running, Mirrored, StableAgrees, idle, Idle
<1> QED
    BY <1>1, <1>2, <1>3, RInvHolds, PTL DEF Spec

\* Until the first crash, what recovery relies on is there, unless a call that
\* undoes a failed step fails itself.
THEOREM RecoverySoundHolds ==
    ASSUME Faulty \cap {"guard_clear", "guard_release", "fail_release"} = {}
    PROVE  Spec => [](crashes = 0 => RecoverySound)
<1> DEFINE J == crashes = 0 => Owned /\ Handled
<1>1. Init => J
    BY SMTT(30) DEF Init, Owned, Sending, Handled, Idle, Stable, NoEntries, SendPc
<1>2. RInv /\ J /\ [Next]_vars => J'
    BY ZenonT(30), CrashesGrow, OwnedNext, HandledNext DEF RInv, Inv, vars, durable,
       volatile,
       env, Owned, Sending, Handled
<1>3. RInv /\ J => (crashes = 0 => RecoverySound)
    BY DEF RInv, Kept, SnapInv, Owned, Sending, NoSnapshotLeak, idle, Idle, SendPc,
       Handled, StagedHasHandle, RecoverySound
<1> QED
    BY <1>1, <1>2, <1>3, RInvHolds, PTL DEF Spec

=============================================================================
