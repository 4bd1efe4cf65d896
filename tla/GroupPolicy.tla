----------------------------- MODULE GroupPolicy -----------------------------
(***************************************************************************)
(* Who may be in a group, who may change it, and what every member is told *)
(* (cgka-engine: group_lifecycle.rs, capability_manager.rs,                *)
(* app_components.rs, update_group_data.rs, upgrade.rs, send.rs).          *)
(*                                                                         *)
(* Engines create a group, invite, remove, change its components and       *)
(* promote capabilities; each checks what it sends, and every engine that  *)
(* receives the commit or the welcome checks it again.  The commits of one *)
(* group form one chain here: forks are the business of Convergence.       *)
(* OpenMLS checks required capabilities itself; that check is left out, so *)
(* what holds here rests on the engine's own.                              *)
(***************************************************************************)
EXTENDS Naturals, Sequences, FiniteSets, TLC, Functions

CONSTANTS
  GpClients,     \* accounts, each with one engine
  GpCreator,     \* the account that creates the group
  GpCasts,       \* what each account's key package may advertise at first
  GpRequests,    \* creation requests
  GpEdits,       \* component updates, as sets of <<component, bytes>>
  GpNames,       \* names an update may give, or "keep"
  GpPackages,    \* packages an account may publish anew
  GpOps,         \* bound on sends after the creation
  GpFaults       \* bound on failed publishes and new packages

ASSUME GpCreatorIsClient == GpCreator \in GpClients

VARIABLES
  gpPackage,   \* account -> the capabilities and the proof of its leaf
  gpChain,     \* the group contexts, one per epoch
  gpLog,       \* gpLog[e]: the commit from gpChain[e] to gpChain[e + 1]
  gpAt,        \* client -> the epoch of its MLS group, 0 when it has none
  gpRecord,    \* client -> its Marmot group record
  gpCache,     \* client -> member -> capabilities it has seen, or {"unseen"}
  gpPending,   \* client -> its staged commit
  gpRows,      \* client -> epoch -> the state changes it reported
  gpWelcomes,  \* welcomes sent and not yet opened
  gpRefused,   \* what an engine refused of another engine
  gpOps, gpFaults

gpVars == <<gpPackage, gpChain, gpLog, gpAt, gpRecord, gpCache, gpPending,
            gpRows, gpWelcomes, gpRefused, gpOps, gpFaults>>

NoPending == [kind |-> "none"]
NoRecord == [members |-> {}, req |-> {}, name |-> "", half |-> FALSE]

-----------------------------------------------------------------------------
(* Reading a group context.                                                *)

\* Role capabilities an agent text stream component with a role mask demands.
RoleCaps(ctx) == IF ctx.stream = "roles" THEN {"role"} ELSE {}

Members(ctx) == DOMAIN ctx.leaves

RequireAdmin(ctx, who) == who \in ctx.admins

\* The record re-derived from the MLS group.
Mirrored(ctx) ==
  [members |-> Members(ctx), req |-> ctx.req, name |-> ctx.name, half |-> FALSE]

\* validate_leaf_account_identity_proof: the leaf carries a proof that binds its
\* signature key to the account.
ProofValid(leaf) == leaf.proof

\* The leaves a commit adds come from the key packages of that moment.
Leaves(members) == [m \in members |-> gpPackage[m]]

\* The context a commit leads to.
After(ctx, com) ==
  [ctx EXCEPT !.leaves = com.adds @@ Restrict(@, DOMAIN @ \ com.removes),
              !.req = @ \cup com.requires,
              !.admins = IF "admins" \in DOMAIN com.sets THEN com.sets.admins ELSE @,
              !.name = IF "name" \in DOMAIN com.sets THEN com.sets.name ELSE @,
              !.avatar = IF "avatar" \in DOMAIN com.sets THEN com.sets.avatar ELSE @,
              !.retention = IF "retention" \in DOMAIN com.sets
                              THEN com.sets.retention ELSE @]

-----------------------------------------------------------------------------
(* Validation of component bytes.                                          *)

AvatarPresent(bytes) == bytes \notin {"missing", "empty"}

\* Name and description within their lengths, in UTF-8, with nothing after them.
ValidProfile(bytes) == bytes # "toolong"

\* One or more whole keys, sorted and unique.
ValidAdmins(bytes) == bytes # {}

\* All five fields of an image or none of them.
ValidAvatar(bytes) == bytes # "partial"

\* Eight bytes.
ValidRetention(bytes) == bytes # "short"

ValidUpdate(component, bytes) ==
  CASE component = "name" -> ValidProfile(bytes)
    [] component = "admins" -> ValidAdmins(bytes)
    [] component = "avatar" -> ValidAvatar(bytes)
    [] component = "retention" -> ValidRetention(bytes)

\* A creation request may carry a stream component, never an engine-owned one.
ValidInitial(r) == r.stream # "malformed"

\* reject_admins_without_member_leaf: an update changes no membership.
AdminsUnchecked(ctx, admins) == TRUE
AdminsHaveLeaf(ctx, admins) == admins \subseteq Members(ctx)

\* validate_admin_leaf_coupling_for_staged_commit.
CoupledBefore(ctx, com) ==
  After(ctx, com).admins \subseteq Members(ctx) \cup DOMAIN com.adds
Coupled(ctx, com) == After(ctx, com).admins \subseteq Members(After(ctx, com))

\* The two commit shapes a member who is no admin may produce; what an engine
\* sends here is never one of them, so every commit below needs an admin.
StagedNeedsAdmin(com) ==
  DOMAIN com.adds # {} \/ com.removes # {} \/ com.requires # {} \/ DOMAIN com.sets # {}

AdminFor(ctx, com) == StagedNeedsAdmin(com) => RequireAdmin(ctx, com.by)

\* validate_staged_commit_account_identity_proofs: of the leaves it adds.
AddedProofsValid(com) == \A m \in DOMAIN com.adds : ProofValid(com.adds[m])

\* validate_member_credentials_and_account_proofs: of every leaf of the tree.
TreeValid(ctx) == \A m \in Members(ctx) : ProofValid(ctx.leaves[m])

-----------------------------------------------------------------------------
(* State changes: what the committer reports once its commit is confirmed,  *)
(* computed when it is staged, and what a receiver reports, computed from   *)
(* the group before and after the merge.                                    *)

AdminChanges(before, after) ==
  {<<"granted", m>> : m \in after \ before} \cup {<<"revoked", m>> : m \in before \ after}

\* A missing component and an explicit zero both mean no retention.
Seconds(bytes) == IF bytes = "missing" THEN "off" ELSE bytes

RetentionChanges(before, after) ==
  IF Seconds(before) = Seconds(after) THEN {} ELSE {<<"retention", Seconds(after)>>}

AvatarBytes(bytes) == bytes
AvatarSnapshot(bytes) == IF AvatarPresent(bytes) THEN bytes ELSE "none"

StagedChanges(ctx, com) ==
  {<<"added", m>> : m \in DOMAIN com.adds} \cup {<<"removed", m>> : m \in com.removes}
    \cup (IF "admins" \in DOMAIN com.sets
            THEN AdminChanges(ctx.admins, com.sets.admins) ELSE {})
    \cup (IF "name" \in DOMAIN com.sets /\ com.sets.name # ctx.name
            THEN {<<"renamed", com.sets.name>>} ELSE {})
    \cup (IF "retention" \in DOMAIN com.sets
            THEN RetentionChanges(ctx.retention, com.sets.retention) ELSE {})
    \cup (IF "avatar" \in DOMAIN com.sets
             /\ \/ AvatarPresent(ctx.avatar) # AvatarPresent(com.sets.avatar)
                \/ AvatarPresent(com.sets.avatar) /\ ctx.avatar # com.sets.avatar
            THEN {<<"avatar", "changed">>} ELSE {})

ReceivedChanges(before, after, com) ==
  {<<"added", m>> : m \in DOMAIN com.adds}
    \cup {<<"removed", m>> : m \in Members(before) \ Members(after)}
    \cup AdminChanges(before.admins, after.admins)
    \cup (IF before.name # after.name THEN {<<"renamed", after.name>>} ELSE {})
    \cup (IF AvatarSnapshot(before.avatar) # AvatarSnapshot(after.avatar)
            THEN {<<"avatar", "changed">>} ELSE {})
    \cup RetentionChanges(before.retention, after.retention)

-----------------------------------------------------------------------------
GpStable(c) == gpAt[c] > 0 /\ gpPending[c] = NoPending

Ctx(c) == gpChain[gpAt[c]]

(* The per-member capability cache.                                        *)

Unseen == {"unseen"}

CacheFrom(cache, leaves) ==
  [m \in GpClients |-> IF m \in DOMAIN leaves THEN leaves[m].caps ELSE cache[m]]

\* The client's own leaf, read from the group.
CacheOwn(cache, own, ctx) == CacheFrom(cache, Restrict(ctx.leaves, {own} \cap Members(ctx)))

\* The leaves a merge adds, and the client's own leaf in the group after it.
CacheMerged(cache, adds, own, ctx) == CacheOwn(CacheFrom(cache, adds), own, ctx)

\* do_upgradeable_capabilities: features of this engine's registry that are not
\* required yet and that every member of the record is known to support.
UpgradeableUnlessKnown(c) ==
  {cap \in gpPackage[c].caps \cap {"x", "k"} :
     /\ cap \notin Ctx(c).req
     /\ \A m \in gpRecord[c].members : cap \in gpCache[c][m] \/ gpCache[c][m] = Unseen}
Upgradeable(c) ==
  {cap \in gpPackage[c].caps \cap {"x", "k"} :
     /\ cap \notin Ctx(c).req
     /\ \A m \in gpRecord[c].members : cap \in gpCache[c][m]}

\* do_feature_status, of the feature that needs one capability.
FeatureStatus(c, cap) ==
  IF cap \in Ctx(c).req THEN "available"
  ELSE IF \A m \in gpRecord[c].members : cap \in gpCache[c][m] THEN "upgradeable"
  ELSE "unavailable"

-----------------------------------------------------------------------------
(* Creation.                                                               *)

\* What the request requires before negotiation: the features it names and the
\* components it carries.
Demanded(r) == r.features \cup (IF r.stream = "missing" THEN {} ELSE {"s"})

InviteeWithoutRoles(r, leaf) == ProofValid(leaf) /\ Demanded(r) \subseteq leaf.caps
InviteeAccepted(r, leaf) ==
  /\ ProofValid(leaf)
  /\ Demanded(r) \subseteq leaf.caps
  /\ RoleCaps(r) \subseteq leaf.caps

\* The default component "k" and the demanded ones, as far as everyone has them.
NegotiatedOwn(r) == Demanded(r) \cup ({"k"} \cap gpPackage[GpCreator].caps)
Negotiated(r) ==
  Demanded(r) \cup {cap \in {"k"} : \A m \in {GpCreator} \cup r.invitees :
                                      cap \in gpPackage[m].caps}

FirstAdmins(r) == {GpCreator} \cup r.admins

\* The component state written at creation.
FirstComponents(r) ==
  [admins |-> FirstAdmins(r), stream |-> r.stream, name |-> "n0",
   avatar |-> "missing", retention |-> "missing"]

FirstContext(r) ==
  FirstComponents(r) @@ [leaves |-> Leaves({GpCreator}), req |-> Negotiated(r)]

CreateCommit(r) ==
  [kind |-> "create", by |-> GpCreator, adds |-> Leaves(r.invitees), removes |-> {},
   requires |-> {}, sets |-> <<>>, out |-> FALSE]

CreateAccepted(r) ==
  /\ gpChain = <<>>
  /\ ValidInitial(r)
  /\ Demanded(r) \subseteq gpPackage[GpCreator].caps
  /\ \A m \in r.invitees : InviteeAccepted(r, gpPackage[m])

\* do_create_group up to its record, which already lists the invitees; the caches
\* follow unless wrapping a welcome fails, and then the staged commit is dropped.
CreateGroup(r) ==
  /\ CreateAccepted(r)
  /\ gpChain' = <<FirstContext(r)>>
  /\ gpAt' = [gpAt EXCEPT ![GpCreator] = 1]
  /\ gpRecord' = [gpRecord EXCEPT ![GpCreator] =
                    [Mirrored(FirstContext(r)) EXCEPT
                       !.members = @ \cup r.invitees]]
  /\ gpCache' = [gpCache EXCEPT ![GpCreator] =
                   CacheFrom(@, Leaves(r.invitees \cup {GpCreator}))]
  /\ gpPending' = [gpPending EXCEPT ![GpCreator] = CreateCommit(r)]
  /\ UNCHANGED <<gpPackage, gpLog, gpRows, gpWelcomes, gpRefused, gpOps, gpFaults>>

CreateFails(r) ==
  /\ CreateAccepted(r)
  /\ r.invitees # {}
  /\ gpFaults < GpFaults
  /\ gpFaults' = gpFaults + 1
  /\ gpChain' = <<FirstContext(r)>>
  /\ gpAt' = [gpAt EXCEPT ![GpCreator] = 1]
  /\ gpRecord' = [gpRecord EXCEPT ![GpCreator] =
                    [Mirrored(FirstContext(r)) EXCEPT
                       !.members = @ \cup r.invitees, !.half = TRUE]]
  /\ UNCHANGED <<gpPackage, gpLog, gpCache, gpPending, gpRows, gpWelcomes,
                 gpRefused, gpOps>>

-----------------------------------------------------------------------------
(* Sends: each stages a commit, projects it into the record where the code  *)
(* does, and waits for the publish.                                         *)

StageCommit(c, com) ==
  /\ gpPending' = [gpPending EXCEPT ![c] =
       com @@ [kind |-> "change", by |-> c, out |-> FALSE, adds |-> <<>>,
               removes |-> {}, requires |-> {}, sets |-> <<>>]]
  /\ gpOps' = gpOps + 1
  /\ UNCHANGED <<gpPackage, gpChain, gpLog, gpAt, gpRows, gpWelcomes, gpRefused,
                 gpFaults>>

\* The caller of a creation that failed never learns the group's id.
MaySendAny(c) == gpOps < GpOps /\ GpStable(c) /\ ~gpRecord[c].half
MaySend(c) == MaySendAny(c) /\ RequireAdmin(Ctx(c), c)

\* do_send_invite: the record's required capabilities and the live roles.
InviteUnproved(c, leaf) == gpRecord[c].req \cup RoleCaps(Ctx(c)) \subseteq leaf.caps
InviteAccepted(c, leaf) ==
  /\ ProofValid(leaf)
  /\ gpRecord[c].req \cup RoleCaps(Ctx(c)) \subseteq leaf.caps

SendInvite(c, m) ==
  /\ MaySend(c)
  /\ m \notin Members(Ctx(c))
  /\ InviteAccepted(c, gpPackage[m])
  /\ gpCache' = [gpCache EXCEPT ![c] = CacheFrom(@, Leaves({m}))]
  /\ gpRecord' = [gpRecord EXCEPT ![c].members = Members(Ctx(c)) \cup {m}]
  /\ StageCommit(c, [adds |-> Leaves({m})])

\* do_send_remove_members: never oneself, only members, never every admin; the
\* staged commit must leave every admin a leaf.
RemoveAccepted(c, targets) ==
  /\ targets # {} /\ c \notin targets
  /\ targets \subseteq Members(Ctx(c))
  /\ ~(Ctx(c).admins \subseteq targets)
  /\ Coupled(Ctx(c), [adds |-> <<>>, removes |-> targets, requires |-> {}, sets |-> <<>>])

SendRemoveMembers(c, targets) ==
  /\ MaySend(c)
  /\ RemoveAccepted(c, targets)
  /\ gpRecord' = [gpRecord EXCEPT ![c].members = @ \ targets]
  /\ UNCHANGED gpCache
  /\ StageCommit(c, [removes |-> targets])

\* do_send_update_app_components: the name is mirrored when it is sent.
SendUpdateAppComponents(c, edit) ==
  /\ MaySend(c)
  /\ DOMAIN edit # {}
  /\ \A component \in DOMAIN edit : ValidUpdate(component, edit[component])
  /\ "admins" \in DOMAIN edit => AdminsHaveLeaf(Ctx(c), edit.admins)
  /\ gpRecord' = [gpRecord EXCEPT ![c].name =
                    IF "name" \in DOMAIN edit THEN edit.name ELSE @]
  /\ UNCHANGED gpCache
  /\ StageCommit(c, [sets |-> edit])

\* do_send_update_group_data: a field left out keeps what the record says.
ProfileEdit(c, name) == [name |-> IF name = "keep" THEN gpRecord[c].name ELSE name]

SendUpdateGroupData(c, name) == SendUpdateAppComponents(c, ProfileEdit(c, name))

\* do_upgrade_group_capabilities.
UpgradeGroupCapabilities(c) ==
  /\ MaySend(c)
  /\ Upgradeable(c) # {}
  /\ UNCHANGED <<gpRecord, gpCache>>
  /\ StageCommit(c, [requires |-> Upgradeable(c)])

-----------------------------------------------------------------------------
(* Publishing.                                                             *)

\* The relays take the commit and the welcomes; of two commits of one epoch the
\* first one taken is the group's.
GpPublish(c) ==
  /\ gpPending[c] # NoPending /\ ~gpPending[c].out
  /\ gpAt[c] = Len(gpChain)
  /\ IF DOMAIN gpPending[c].adds = {} /\ gpPending[c].kind = "create"
       THEN UNCHANGED <<gpChain, gpLog>>
       ELSE /\ gpChain' = Append(gpChain, After(Ctx(c), gpPending[c]))
            /\ gpLog' = Append(gpLog, gpPending[c])
  /\ gpWelcomes' = gpWelcomes \cup
       {[to |-> m, by |-> c, epoch |-> Len(gpChain) + 1] : m \in DOMAIN gpPending[c].adds}
  /\ gpPending' = [gpPending EXCEPT ![c].out = TRUE]
  /\ UNCHANGED <<gpPackage, gpAt, gpRecord, gpCache, gpRows, gpRefused, gpOps, gpFaults>>

\* do_confirm_published: merge, mirror the record, refresh the caches, report.
ConfirmPublished(c) ==
  /\ gpPending[c] # NoPending /\ gpPending[c].out
  /\ gpPending' = [gpPending EXCEPT ![c] = NoPending]
  /\ IF gpPending[c].kind = "create" /\ DOMAIN gpPending[c].adds = {}
       THEN /\ gpRecord' = [gpRecord EXCEPT ![c] = Mirrored(Ctx(c))]
            /\ UNCHANGED <<gpAt, gpCache, gpRows>>
       ELSE /\ gpAt' = [gpAt EXCEPT ![c] = @ + 1]
            /\ gpRecord' = [gpRecord EXCEPT ![c] = Mirrored(gpChain[gpAt[c] + 1])]
            /\ gpCache' = [gpCache EXCEPT ![c] =
                             CacheMerged(@, gpPending[c].adds, c, gpChain[gpAt[c] + 1])]
            /\ gpRows' = IF gpPending[c].kind = "create" THEN gpRows
                         ELSE [gpRows EXCEPT ![c] = gpAt[c] :>
                                 StagedChanges(Ctx(c), gpPending[c]) @@ @]
  /\ UNCHANGED <<gpPackage, gpChain, gpLog, gpWelcomes, gpRefused, gpOps, gpFaults>>

\* do_publish_failed: the record is derived again from the unmerged group; the
\* cache keeps what it learned.  A commit another commit beat ends the same way.
RolledBackName(c) == [gpRecord[c] EXCEPT !.name = Ctx(c).name]
RolledBack(c) == Mirrored(Ctx(c))

PublishFailed(c) ==
  /\ gpPending[c] # NoPending /\ ~gpPending[c].out
  /\ IF gpAt[c] < Len(gpChain) THEN UNCHANGED gpFaults
     ELSE gpFaults < GpFaults /\ gpFaults' = gpFaults + 1
  /\ gpPending' = [gpPending EXCEPT ![c] = NoPending]
  /\ gpRecord' = [gpRecord EXCEPT ![c] = RolledBack(c)]
  /\ UNCHANGED <<gpPackage, gpChain, gpLog, gpAt, gpCache, gpRows, gpWelcomes,
                 gpRefused, gpOps>>

-----------------------------------------------------------------------------
(* Receiving.                                                              *)

CommitAccepted(ctx, com) ==
  /\ AdminFor(ctx, com)
  /\ Coupled(ctx, com)
  /\ AddedProofsValid(com)

\* The commit arm of ingest_group_message.
ReceiveCommit(c) ==
  /\ GpStable(c) /\ gpAt[c] < Len(gpChain)
  /\ LET com == gpLog[gpAt[c]] IN
     IF ~CommitAccepted(Ctx(c), com)
       THEN /\ gpRefused' = gpRefused \cup {<<c, com.kind>>}
            /\ UNCHANGED <<gpAt, gpRecord, gpCache, gpRows>>
       ELSE /\ UNCHANGED gpRefused
            /\ gpAt' = [gpAt EXCEPT ![c] = IF c \in com.removes THEN 0 ELSE @ + 1]
            /\ gpRecord' = [gpRecord EXCEPT ![c] = Mirrored(gpChain[gpAt[c] + 1])]
            /\ gpCache' = [gpCache EXCEPT ![c] =
                             CacheMerged(@, com.adds, c, gpChain[gpAt[c] + 1])]
            /\ gpRows' = [gpRows EXCEPT ![c] = gpAt[c] :>
                            ReceivedChanges(Ctx(c), gpChain[gpAt[c] + 1], com) @@ @]
  /\ UNCHANGED <<gpPackage, gpChain, gpLog, gpPending, gpWelcomes, gpOps, gpFaults>>

\* What this build of the client supports, whatever its key package said.
SelfSupported(c) == gpPackage[c].caps

\* Steps 5b-5d of do_join_welcome.
WelcomeAccepted(c, ctx, by) ==
  /\ TreeValid(ctx)
  /\ ctx.req \cup RoleCaps(ctx) \subseteq SelfSupported(c)
  /\ RequireAdmin(ctx, by)

JoinFromWelcome(c, w) ==
  /\ w \in gpWelcomes /\ w.to = c /\ gpAt[c] = 0
  /\ gpWelcomes' = gpWelcomes \ {w}
  /\ LET ctx == gpChain[w.epoch] IN
     IF ~WelcomeAccepted(c, ctx, w.by)
       THEN /\ gpRefused' = gpRefused \cup {<<c, "welcome">>}
            /\ UNCHANGED <<gpAt, gpRecord, gpCache>>
       ELSE /\ UNCHANGED gpRefused
            /\ gpAt' = [gpAt EXCEPT ![c] = w.epoch]
            /\ gpRecord' = [gpRecord EXCEPT ![c] = Mirrored(ctx)]
            /\ gpCache' = [gpCache EXCEPT ![c] = CacheMerged(@, <<>>, c, ctx)]
  /\ UNCHANGED <<gpPackage, gpChain, gpLog, gpPending, gpRows, gpOps, gpFaults>>

\* An account that is in no epoch's member list and was sent nothing publishes
\* another key package.
NewPackage(c, p) ==
  /\ gpFaults < GpFaults
  /\ gpFaults' = gpFaults + 1
  /\ gpAt[c] = 0 /\ p # gpPackage[c]
  /\ gpChain # <<>> => c \notin Members(gpChain[Len(gpChain)])
  /\ \A d \in GpClients : gpPending[d] # NoPending => c \notin DOMAIN gpPending[d].adds
  /\ gpPackage' = [gpPackage EXCEPT ![c] = p]
  /\ gpWelcomes' = {w \in gpWelcomes : w.to # c}
  /\ UNCHANGED <<gpChain, gpLog, gpAt, gpRecord, gpCache, gpPending, gpRows,
                 gpRefused, gpOps>>

-----------------------------------------------------------------------------
GpInit ==
  /\ gpPackage \in GpCasts
  /\ gpChain = <<>> /\ gpLog = <<>>
  /\ gpAt = [c \in GpClients |-> 0]
  /\ gpRecord = [c \in GpClients |-> NoRecord]
  /\ gpCache = [c \in GpClients |-> [m \in GpClients |-> Unseen]]
  /\ gpPending = [c \in GpClients |-> NoPending]
  /\ gpRows = [c \in GpClients |-> <<>>]
  /\ gpWelcomes = {} /\ gpRefused = {}
  /\ gpOps = 0 /\ gpFaults = 0

GpNext ==
  \/ \E r \in GpRequests : CreateGroup(r)
  \/ \E r \in GpRequests : CreateFails(r)
  \/ \E c, m \in GpClients : SendInvite(c, m)
  \/ \E c \in GpClients : \E targets \in SUBSET GpClients : SendRemoveMembers(c, targets)
  \/ \E c \in GpClients : \E edit \in GpEdits : SendUpdateAppComponents(c, edit)
  \/ \E c \in GpClients : \E name \in GpNames : SendUpdateGroupData(c, name)
  \/ \E c \in GpClients : UpgradeGroupCapabilities(c)
  \/ \E c \in GpClients : GpPublish(c)
  \/ \E c \in GpClients : ConfirmPublished(c)
  \/ \E c \in GpClients : PublishFailed(c)
  \/ \E c \in GpClients : ReceiveCommit(c)
  \/ \E c \in GpClients : \E w \in gpWelcomes : JoinFromWelcome(c, w)
  \/ \E c \in GpClients : \E p \in GpPackages : NewPackage(c, p)

GpSpec == GpInit /\ [][GpNext]_gpVars

-----------------------------------------------------------------------------
GpTypeOK ==
  /\ DOMAIN gpPackage = GpClients
  /\ Len(gpChain) <= GpOps + 2
  /\ Len(gpLog) <= Len(gpChain)
  /\ gpAt \in [GpClients -> 0..Len(gpChain)]
  /\ \A c \in GpClients : gpPending[c] = NoPending \/ gpAt[c] > 0
  /\ gpOps \in 0..GpOps /\ gpFaults \in 0..GpFaults

\* Every member of the group supports what the group requires, through every
\* creation, invitation and upgrade, and every invited member holds the roles its
\* stream component demands (the creator's own roles are never checked).
MembersSupportGroup ==
  \A e \in 1..Len(gpChain) : \A m \in Members(gpChain[e]) :
    /\ gpChain[e].req \subseteq gpChain[e].leaves[m].caps
    /\ m # GpCreator => RoleCaps(gpChain[e]) \subseteq gpChain[e].leaves[m].caps

\* What a client is told of a feature is true: available or upgradeable only when
\* every member of its group supports it.
FeatureStatusHonest ==
  \A c \in GpClients : GpStable(c) => \A cap \in {"x", "k"} :
    FeatureStatus(c, cap) # "unavailable" =>
      \A m \in Members(Ctx(c)) : cap \in Ctx(c).leaves[m].caps

\* The group always has an admin, and once it was published every admin is a
\* member.
AdminsAreMembers ==
  \A e \in 1..Len(gpChain) :
    /\ gpChain[e].admins # {}
    /\ e > 1 => gpChain[e].admins \subseteq Members(gpChain[e])

\* What an engine sends, commit or welcome, no other engine refuses: the checks of
\* the sending side imply those of the receiving side.
NothingRefused == gpRefused = {}

\* With no commit pending, a client's group record says what its MLS group says,
\* except after a creation that failed halfway: that record keeps the invitees.
RecordAgrees ==
  \A c \in GpClients : GpStable(c) /\ ~gpRecord[c].half => gpRecord[c] = Mirrored(Ctx(c))

\* The committer and every receiver report the same state changes for a commit.
ChangesAgree ==
  \A c, d \in GpClients : \A e \in DOMAIN gpRows[c] \cap DOMAIN gpRows[d] :
    gpRows[c][e] = gpRows[d][e]
=============================================================================
