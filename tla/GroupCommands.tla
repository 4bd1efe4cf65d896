---------------------------- MODULE GroupCommands ----------------------------
(***************************************************************************)
(* The group commands of one account client                                *)
(* (crates/marmot-app/src/client/mod.rs, client/projection.rs, groups.rs). *)
(* The client holds its group records in memory, saves them to disk, and   *)
(* routes the transport by them; the engine underneath keeps the group     *)
(* itself and publishes.  Commands run one at a time, and each of their    *)
(* awaits and writes can fail or be cut by a crash.                        *)
(***************************************************************************)
EXTENDS Integers, FiniteSets

CONSTANTS GcGroups,
          GcMaxCommands, GcMaxFaults, GcMaxCrashes     \* bounds

VARIABLES gcEngine,   \* engine: group -> version of its state, 0 for no group
          gcMem,      \* AccountState.groups: group -> [ver, arch, pend], ver 0: none
          gcDisk,     \* the saved records
          gcLeft,     \* account_groups.self_membership is "left"
          gcRoutes,   \* groups in the routing table
          gcSubs,     \* groups the transport is subscribed to
          gcRow,      \* row of the last message sent per group
          gcCmd,      \* running command [kind, g, at, arch, was]
          gcArch,     \* archived flag as the caller was last told
          gcLoose,    \* engine groups deleted here, or whose record a crash cut off
          gcCount     \* [commands, faults, crashes]

gcVars == <<gcEngine, gcMem, gcDisk, gcLeft, gcRoutes, gcSubs, gcRow, gcCmd,
            gcArch, gcLoose, gcCount>>

NoRecord == [ver |-> 0, arch |-> FALSE, pend |-> FALSE]
NoCommand == [kind |-> "none", g |-> "none", at |-> "idle", arch |-> FALSE,
              was |-> NoRecord]

GcKinds == {"create", "commit", "converge", "leave", "decline", "accept",
            "archive", "message", "delete", "inbound"}

Known(mem) == {g \in GcGroups : mem[g].ver # 0}

GcInit ==
    /\ gcEngine = [g \in GcGroups |-> 0]
    /\ gcMem = [g \in GcGroups |-> NoRecord] /\ gcDisk = gcMem
    /\ gcLeft = {} /\ gcRoutes = {} /\ gcSubs = {}
    /\ gcRow = [g \in GcGroups |-> "none"]
    /\ gcCmd = NoCommand /\ gcArch = [g \in GcGroups |-> FALSE] /\ gcLoose = {}
    /\ gcCount = [commands |-> 0, faults |-> 0, crashes |-> 0]

At(kinds, at) == gcCmd.kind \in kinds /\ gcCmd.at = at
GcGo(at) == gcCmd' = [gcCmd EXCEPT !.at = at]
GcReturn == gcCmd' = NoCommand
GcFault == /\ gcCount.faults < GcMaxFaults
           /\ gcCount' = [gcCount EXCEPT !.faults = @ + 1]

(* A command starts; what it was given has been looked up and validated.   *)
Begins(kind, g, arch, at) ==
    /\ gcCmd = NoCommand /\ gcCount.commands < GcMaxCommands
    /\ gcCmd' = [kind |-> kind, g |-> g, arch |-> arch, was |-> gcMem[g],
                 at |-> at]
    /\ gcCount' = [gcCount EXCEPT !.commands = @ + 1]
    /\ UNCHANGED <<gcEngine, gcMem, gcDisk, gcLeft, gcRoutes, gcSubs, gcRow,
                   gcArch, gcLoose>>

EnsureGroup(g) == gcMem[g].ver # 0

(* The commands that commit.  The image of update_group_image is uploaded  *)
(* between the sync and the engine call; a failed upload is a failed call. *)
CreateGroup(g) == gcEngine[g] = 0 /\ Begins("create", g, FALSE, "engine")
InviteMembers(g) == EnsureGroup(g) /\ Begins("commit", g, FALSE, "sync")
RemoveMembers(g) == EnsureGroup(g) /\ Begins("commit", g, FALSE, "sync")
UpdateAdminPolicy(g) == EnsureGroup(g) /\ Begins("commit", g, FALSE, "sync")
UpdateComponents(g) == EnsureGroup(g) /\ Begins("commit", g, FALSE, "sync")
UpdateGroupImage(g) == EnsureGroup(g) /\ Begins("commit", g, FALSE, "sync")
UpdateGroupProfile(g) == EnsureGroup(g) /\ Begins("commit", g, FALSE, "sync")
RetryGroupConvergence(g) ==
    EnsureGroup(g) /\ Begins("converge", g, FALSE, "sync")

(* The commands that publish no commit: a reaction, reply, retraction or   *)
(* media message and the events of an agent are sent like any other app    *)
(* event.                                                                  *)
LeaveGroup(g) == EnsureGroup(g) /\ Begins("leave", g, FALSE, "sync")
DeclineInvite(g) == EnsureGroup(g) /\ Begins("decline", g, FALSE, "sync")
SendAppEvent(g) == EnsureGroup(g) /\ Begins("message", g, FALSE, "project")
TargetedEvent(g) == EnsureGroup(g) /\ Begins("message", g, FALSE, "project")
AgentEvent(g) == EnsureGroup(g) /\ Begins("message", g, FALSE, "project")
UploadMedia(g) == EnsureGroup(g) /\ Begins("message", g, FALSE, "project")

(* The commands on the record alone.                                       *)
AcceptInvite(g) == EnsureGroup(g) /\ Begins("accept", g, FALSE, "mark")
SetGroupArchived(g, arch) ==
    EnsureGroup(g) /\ Begins("archive", g, arch, "mark")
DeleteGroupLocal(g) == Begins("delete", g, FALSE, "unroute")

(* Effects of the sync path, which may name a group without a record.      *)
InboundEffects(g) == g \notin gcLeft /\ Begins("inbound", g, FALSE, "engine")

(* record_local_app_event_projection before the send.                      *)
ProjectsLocally ==
    /\ At({"message"}, "project")
    /\ \/ /\ gcRow' = [gcRow EXCEPT ![gcCmd.g] = "shown"] /\ GcGo("sync")
          /\ UNCHANGED gcCount
       \/ GcFault /\ GcReturn /\ UNCHANGED gcRow
    /\ UNCHANGED <<gcEngine, gcMem, gcDisk, gcLeft, gcRoutes, gcSubs, gcArch,
                   gcLoose>>

(* Mutant: the error returns before the row is retracted.                  *)
SendErrorReturns == GcReturn /\ UNCHANGED gcRow

(* The command's error path: a message's row is retracted with             *)
(* invalidate_timeline_app_event, whose own failure is only logged.        *)
SendError ==
    /\ GcReturn
    /\ IF gcCmd.kind # "message" THEN UNCHANGED gcRow
       ELSE \E row \in {"retracted", "unretracted"} :
              gcRow' = [gcRow EXCEPT ![gcCmd.g] = row]

(* sync_runtime_groups before the engine call.                             *)
SyncsGroups ==
    /\ gcCmd.at = "sync"
    /\ \/ gcSubs' = gcRoutes /\ GcGo("engine") /\ UNCHANGED <<gcRow, gcCount>>
       \/ GcFault /\ SendError /\ UNCHANGED gcSubs
    /\ UNCHANGED <<gcEngine, gcMem, gcDisk, gcLeft, gcRoutes, gcArch, gcLoose>>

(* Mutant: any unreached endpoint fails the command.                       *)
FailIfAnyFailure(o) == o # "confirmed"

(* fail_if_publish_failed: a confirmed but partial publish is a success.   *)
FailIfPublishFailed(o) == o \in {"rolledback", "unresolved"}

(* The engine call: it commits and publishes, or its pending state is      *)
(* rolled back; a message has no pending state.                            *)
EngineSends ==
    /\ gcCmd.at = "engine"
    /\ \E o \in CASE gcCmd.kind \in {"message", "leave", "decline"} ->
                       {"confirmed", "unresolved"}
                  [] gcCmd.kind = "inbound" -> {"confirmed"}
                  [] OTHER -> {"confirmed", "partial", "rolledback"} :
         /\ gcEngine' = [gcEngine EXCEPT ![gcCmd.g] =
                IF /\ o \in {"confirmed", "partial"}
                   /\ gcCmd.kind \in {"create", "commit", "converge", "inbound"}
                THEN @ + 1 ELSE @]
         /\ IF FailIfPublishFailed(o) THEN GcFault /\ SendError
            ELSE /\ GcGo(IF gcCmd.kind = "message" THEN "reproject"
                         ELSE IF gcCmd.kind \in {"leave", "decline"} THEN "save"
                         ELSE "refresh")
                 /\ IF o = "partial" THEN GcFault ELSE UNCHANGED gcCount
                 /\ UNCHANGED gcRow
    /\ UNCHANGED <<gcMem, gcDisk, gcLeft, gcRoutes, gcSubs, gcArch, gcLoose>>

(* refresh_group, add_group: the record follows the engine; a new one is   *)
(* accepted when created here and pending when joined; new routes are      *)
(* synced, which can fail.                                                 *)
RefreshesGroup ==
    /\ gcCmd.at = "refresh"
    /\ gcMem' = [gcMem EXCEPT ![gcCmd.g] =
           [@ EXCEPT !.ver = gcEngine[gcCmd.g],
                     !.pend = IF gcMem[gcCmd.g].ver = 0
                              THEN gcCmd.kind = "inbound" /\ gcEngine[gcCmd.g] = 1
                              ELSE @]]
    /\ gcRoutes' = gcRoutes \cup {gcCmd.g}
    /\ gcLeft' = gcLeft \ {gcCmd.g}
    /\ \/ /\ gcSubs' = IF gcCmd.g \in gcRoutes THEN gcSubs ELSE gcRoutes'
          /\ GcGo("save") /\ UNCHANGED gcCount
       \/ /\ gcCmd.g \notin gcRoutes /\ GcFault /\ GcReturn /\ UNCHANGED gcSubs
    /\ gcLoose' = gcLoose \ {gcCmd.g}
    /\ UNCHANGED <<gcEngine, gcDisk, gcRow, gcArch>>

(* The row gets its transport id.                                          *)
Reprojects ==
    /\ At({"message"}, "reproject")
    /\ \/ /\ gcRow' = [gcRow EXCEPT ![gcCmd.g] = "sent"] /\ GcGo("save")
          /\ UNCHANGED gcCount
       \/ /\ GcFault /\ GcReturn
          /\ gcRow' = [gcRow EXCEPT ![gcCmd.g] = "unmarked"]
    /\ UNCHANGED <<gcEngine, gcMem, gcDisk, gcLeft, gcRoutes, gcSubs, gcArch,
                   gcLoose>>

(* set_group_archived and set_group_invite_confirmation change the record  *)
(* in memory.                                                              *)
MarksRecord ==
    /\ gcCmd.at = "mark" /\ GcGo("save")
    /\ gcMem' = [gcMem EXCEPT ![gcCmd.g] =
           [@ EXCEPT !.arch = IF gcCmd.kind = "archive" THEN gcCmd.arch
                              ELSE gcCmd.kind = "decline",
                     !.pend = IF gcCmd.kind = "archive" THEN @ ELSE FALSE]]
    /\ UNCHANGED <<gcEngine, gcDisk, gcLeft, gcRoutes, gcSubs, gcRow, gcArch,
                   gcLoose, gcCount>>

(* Mutant: the failed toggle stays in memory.                              *)
KeepToggle(mem) == mem

(* set_group_archived takes its flag back when the save fails; the invite  *)
(* confirmation does not.                                                  *)
AfterFailedSave(mem) ==
    IF gcCmd.kind = "archive" THEN [mem EXCEPT ![gcCmd.g].arch = gcCmd.was.arch]
    ELSE mem

(* What the caller is told of the archived flag.                           *)
Told(ok) ==
    gcArch' = CASE gcCmd.kind = "archive" /\ ok -> [gcArch EXCEPT ![gcCmd.g] = gcCmd.arch]
                [] gcCmd.kind \in {"accept", "decline"} ->
                     [gcArch EXCEPT ![gcCmd.g] = gcMem[gcCmd.g].arch]
                [] OTHER -> gcArch

SavesState ==
    /\ gcCmd.at = "save"
    /\ \/ /\ gcDisk' = gcMem /\ Told(TRUE)
          /\ IF gcCmd.kind \in {"leave", "decline"} /\ gcCmd.g \notin gcLeft
             THEN GcGo("left") ELSE GcReturn
          /\ UNCHANGED <<gcMem, gcCount>>
       \/ /\ GcFault /\ GcReturn /\ Told(FALSE)
          /\ gcMem' = AfterFailedSave(gcMem)
          /\ UNCHANGED gcDisk
    /\ UNCHANGED <<gcEngine, gcLeft, gcRoutes, gcSubs, gcRow, gcLoose>>

(* set_group_self_membership; a declined invite is then archived.          *)
RecordsLeft ==
    /\ gcCmd.at = "left"
    /\ \/ /\ gcLeft' = gcLeft \cup {gcCmd.g} /\ UNCHANGED gcCount
          /\ IF gcCmd.kind = "decline" THEN GcGo("mark") ELSE GcReturn
       \/ GcFault /\ GcReturn /\ UNCHANGED gcLeft
    /\ UNCHANGED <<gcEngine, gcMem, gcDisk, gcRoutes, gcSubs, gcRow, gcArch,
                   gcLoose>>

(* delete_group_local: out of memory and routing, and the transport is     *)
(* synced before the rows are wiped.                                       *)
Unroutes ==
    /\ At({"delete"}, "unroute")
    /\ gcMem' = [gcMem EXCEPT ![gcCmd.g] = NoRecord]
    /\ gcRoutes' = gcRoutes \ {gcCmd.g}
    /\ \/ GcGo("wipe") /\ gcSubs' = gcRoutes' /\ UNCHANGED gcCount
       \/ GcFault /\ GcGo("restore") /\ UNCHANGED gcSubs
    /\ UNCHANGED <<gcEngine, gcDisk, gcLeft, gcRow, gcArch, gcLoose>>

WipesRows ==
    /\ At({"delete"}, "wipe")
    /\ \/ /\ gcDisk' = [gcDisk EXCEPT ![gcCmd.g] = NoRecord]
          /\ gcRow' = [gcRow EXCEPT ![gcCmd.g] = "none"]
          /\ gcArch' = [gcArch EXCEPT ![gcCmd.g] = FALSE]
          /\ gcLoose' = gcLoose \cup {gcCmd.g}
          /\ GcReturn /\ UNCHANGED gcCount
       \/ /\ GcFault /\ GcGo("restore")
          /\ UNCHANGED <<gcDisk, gcRow, gcArch, gcLoose>>
    /\ UNCHANGED <<gcEngine, gcMem, gcLeft, gcRoutes, gcSubs>>

(* Mutant: the record comes back, the route does not.                      *)
RecordOnlyBack == gcRoutes

(* refresh_routing over the restored records.                              *)
RoutesBack == Known([gcMem EXCEPT ![gcCmd.g] = gcCmd.was])

(* A failure puts record and route back and syncs, which may fail as well. *)
RestoresGroup ==
    /\ At({"delete"}, "restore") /\ GcReturn
    /\ gcMem' = [gcMem EXCEPT ![gcCmd.g] = gcCmd.was]
    /\ gcRoutes' = RoutesBack
    /\ \/ gcSubs' = gcRoutes' /\ UNCHANGED gcCount
       \/ GcFault /\ UNCHANGED gcSubs
    /\ UNCHANGED <<gcEngine, gcDisk, gcLeft, gcRow, gcArch, gcLoose>>

(* The process dies and the account is opened again: records, routes and   *)
(* subscriptions come from disk.                                           *)
GcCrash ==
    /\ gcCount.crashes < GcMaxCrashes
    /\ gcCount' = [gcCount EXCEPT !.crashes = @ + 1]
    /\ gcMem' = gcDisk /\ gcRoutes' = Known(gcDisk) /\ gcSubs' = gcRoutes'
    /\ gcCmd' = NoCommand
    /\ gcArch' = [g \in GcGroups |-> gcDisk[g].arch]
    /\ gcRow' = [g \in GcGroups |-> "none"]
    /\ gcLoose' = gcLoose \cup {g \in GcGroups : gcEngine[g] # gcDisk[g].ver}
    /\ UNCHANGED <<gcEngine, gcDisk, gcLeft>>

GcNext ==
    \/ \E g \in GcGroups :
         \/ CreateGroup(g) \/ InviteMembers(g) \/ RemoveMembers(g)
         \/ UpdateAdminPolicy(g) \/ UpdateComponents(g) \/ UpdateGroupImage(g)
         \/ UpdateGroupProfile(g) \/ RetryGroupConvergence(g)
         \/ LeaveGroup(g) \/ DeclineInvite(g) \/ SendAppEvent(g)
         \/ TargetedEvent(g) \/ AgentEvent(g) \/ UploadMedia(g)
         \/ AcceptInvite(g) \/ DeleteGroupLocal(g) \/ InboundEffects(g)
         \/ \E arch \in BOOLEAN : SetGroupArchived(g, arch)
    \/ ProjectsLocally \/ SyncsGroups \/ EngineSends \/ RefreshesGroup
    \/ Reprojects \/ MarksRecord \/ SavesState \/ RecordsLeft
    \/ Unroutes \/ WipesRows \/ RestoresGroup \/ GcCrash

GcTypeOK ==
    /\ gcLeft \subseteq GcGroups /\ gcSubs \subseteq GcGroups
    /\ gcRow \in [GcGroups -> {"none", "shown", "sent", "unmarked", "retracted",
                             "unretracted"}]
    /\ gcCmd.kind \in GcKinds \cup {"none"}

(* Whatever failed on the way, a command that has returned leaves the      *)
(* client coherent: the routing table is exactly the records in memory;    *)
(* every group that this process confirmed with the engine has a record of *)
(* its current version, also when the publish was only partial; a toggle   *)
(* of the archived flag that was reported as failed is not in memory, so   *)
(* no later save can apply it; a message whose send failed has been        *)
(* retracted, or that was tried (fail_if_publish_failed,                   *)
(* delete_group_local, set_group_archived, local_publish_failed).          *)
CommandsLeaveCoherent ==
    gcCmd = NoCommand =>
        /\ gcRoutes = Known(gcMem)
        /\ \A g \in GcGroups \ gcLoose : /\ gcMem[g].ver = gcEngine[g]
                                        /\ gcMem[g].arch = gcArch[g]
        /\ \A g \in GcGroups : gcRow[g] # "shown"
=============================================================================
