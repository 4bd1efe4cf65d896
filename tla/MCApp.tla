------------------------------- MODULE MCApp --------------------------------
(***************************************************************************)
(* The components of the account database, of the application client of    *)
(* the engine's group membership, the sharing of media and the Markdown    *)
(* parser, for TLC.  They share no variable that more than one of them     *)
(* changes here, so one run checks them side by side: focus names the      *)
(* component that takes steps in a behaviour, and the others keep their    *)
(* initial state.  The chat list works on the tables of the timeline.      *)
(***************************************************************************)
EXTENDS Projections, PushNotifications, AccountStore, AccountDatabase,
        AccountWorker, ClientSync, OutboundQueue, GroupMembership,
        GroupPolicy, MediaSharing, MarkdownBlocks, MarkdownInlines

VARIABLE focus

allVars == <<clVars, ptVars, pjVars, scVars, mgVars, ntVars, awVars, csVars,
             oqVars, gmVars, gpVars, mdVars, mbVars, miVars, focus>>

Event(g, i, k, sender, at, refs) ==
  [group |-> g, id |-> i, kind |-> k, sender |-> sender, at |-> at, refs |-> refs,
   quote |-> Null, stream |-> (k = "start"), body |-> "text", mention |-> FALSE,
   source |-> i + 10, origin |-> Null, inv |-> FALSE]

\* A stream start with a reply, a reaction that is retargeted, its retraction,
\* a delete of the start, two system rows of one commit, and in another group
\* an event with the id of the start and the source of the reply.
TimelineInputs ==
  {Event("g", 3, "start", "al", 2, <<>>),
   Event("g", 2, "chat", "bo", 2, <<3>>),
   Event("g", 4, "reaction", "bo", 2, <<3>>),
   Event("g", 4, "reaction", "bo", 2, <<2>>),
   Event("g", 5, "delete", "bo", 3, <<4>>),
   Event("g", 1, "delete", "al", 1, <<3>>),
   [Event("g", 6, "system", "al", 3, <<>>) EXCEPT !.origin = 9, !.source = Null],
   [Event("h", 3, "chat", "al", 2, <<>>) EXCEPT !.source = 12]}

ChatInputs ==
  {[Event("g", 3, "chat", "al", 2, <<>>) EXCEPT !.mention = TRUE],
   Event("g", 1, "chat", "al", 3, <<>>)}

WorkerCommands == {[id |-> 1, kind |-> "commit"], [id |-> 2, kind |-> "catchUp"], [id |-> 3, kind |-> "read"]}

RelayMessages ==
  {[id |-> "b", at |-> 9, effect |-> "publish"], [id |-> "c", at |-> 3, effect |-> "hold"],
   [id |-> "d", at |-> 3, effect |-> "message"]}

Intents == {[id |-> 1, kind |-> "app"], [id |-> 2, kind |-> "commit"]}

\* Lines that open, continue and fail containers, and lines of every kind of leaf.
MarkdownPrefixes ==
    {<<>>, <<">", " ">>, <<"-", " ">>, <<" ", " ">>, <<">", " ", "-", " ">>, <<"-", " ", ">", " ">>,
     <<"-", " ", "-", " ">>, <<" ", " ", " ", " ">>, <<"2.", " ">>, <<"*", " ">>}
MarkdownLines ==
    [containers |-> { pre \o body : pre \in MarkdownPrefixes, body \in {<<"text">>, <<"fence">>, <<>>} },
     leaves |-> { pre \o body : pre \in {<<>>, <<">", " ">>},
                  body \in {<<>>} \cup { <<b>> : b \in {"text", "math", "head", "under", "rule", "row",
                                                       "delim", "def", "task"} } }]

\* Texts around one kind of delimiter each, with the caps that matter for it.
Family(alphabet, length, cap) == [alphabet |-> alphabet, length |-> length, cap |-> cap]
InlineFamilies ==
    [runs     |-> Family({"a", "*", " "}, 5, 4),
     words    |-> Family({"a", "*", "_"}, 5, 4),
     nested   |-> Family({"a", "*"}, 8, 3),
     strikes  |-> Family({"a", "~", " "}, 5, 3),
     links    |-> Family({"a", "*", "[", "]", "(x)"}, 4, 2),
     images   |-> Family({"[", "![", "]", "(x)"}, 4, 3),
     chains   |-> Family({"[", "]", "(x)"}, 6, 3),
     labels   |-> Family({"r", "[", "]"}, 5, 3),
     code     |-> Family({"a", "tick", "*", "esc"}, 4, 3),
     math     |-> Family({"$", " ", "esc", "tick"}, 4, 3),
     breaks   |-> Family({"a", " ", "nl", "esc"}, 4, 3),
     urls     |-> Family({"u", "a", "*", "(", ")", " "}, 4, 3),
     mentions |-> Family({"a", " ", "@", "npub", "note", "nostr:"}, 4, 3)]


\* Two messages, reactions to each, a deletion, an invite and a change of state.
BusEvent(kind, id, self, target) ==
    [kind |-> kind, id |-> id, self |-> self, target |-> target, mentions |-> kind = "chat"]
BusEvents ==
    {BusEvent("chat", "m1", TRUE, "none"), BusEvent("chat", "m2", FALSE, "none"),
     BusEvent("reaction", "r1", FALSE, "m1"), BusEvent("reaction", "r2", FALSE, "m2"),
     BusEvent("delete", "d1", TRUE, "m1"), BusEvent("join", "g", FALSE, "none"),
     BusEvent("state", "g", FALSE, "none")}
TokenRecord(m, l, s, h) == [member |-> m, leaf |-> l, server |-> s, hint |-> h]
TokenRecords ==
    {TokenRecord("me", 0, "s1", "h1"), TokenRecord("bo", 1, "s1", "none"), TokenRecord("bo", 2, "s1", "h2"),
     TokenRecord("bo", 1, "s2", "h1"), TokenRecord("cy", 3, "s2", "none")}
PushServers == <<"s1", "s2">>

\* An account of the old build with something in every table.
OldAccounts ==
    {[groups |-> [g1 |-> [archived |-> TRUE, extras |-> {"agent"}]], seen |-> <<"e1", "e2", "e3">>,
      messages |-> {"m1", "unnamed"}, settings |-> [local |-> FALSE, push |-> TRUE], tokens |-> {"t1"}]}
KnownRecords == {[archived |-> FALSE, extras |-> {}], [archived |-> TRUE, extras |-> {"avatar", "media"}]}

\* The last migrations; a new file, one of the build that numbered the avatars 9, and a current one.
Migration(v, n, a, g) == [version |-> v, name |-> n, adds |-> a, guarded |-> g]
WholePlan ==
    <<Migration(8, "invalidation", {"invalidation"}, FALSE), Migration(9, "epoch", {"event", "timeline"}, FALSE),
      Migration(10, "secrets", {"secrets"}, FALSE), Migration(11, "avatar", {"avatar"}, TRUE)>>
BuildPlans == [new1 |-> WholePlan, new2 |-> WholePlan, old |-> SubSeq(WholePlan, 1, 3)]
FoundFiles ==
    {[applied |-> <<>>, columns |-> {}],
     [applied |-> (8 :> "invalidation") @@ (9 :> "avatar9"), columns |-> {"invalidation", "avatar"}],
     [applied |-> [v \in 8 .. 11 |-> WholePlan[v - 7].name], columns |-> UNION { WholePlan[i].adds : i \in 1 .. 4 }]}
RenamedMigration == [version |-> 9, legacy |-> "avatar9", name |-> "epoch", adds |-> {"event", "timeline"}]

AllCapabilities == {"x", "k", "s", "role"}

\* b lacks the default component, or the role; c has no valid proof then.
Casts ==
  {[a |-> [caps |-> AllCapabilities, proof |-> TRUE],
    b |-> [caps |-> AllCapabilities \ {lacks}, proof |-> TRUE],
    c |-> [caps |-> AllCapabilities, proof |-> lacks = "k"]] : lacks \in {"k", "role"}}

CreateRequests ==
  {[invitees |-> {}, admins |-> {}, features |-> {}, stream |-> "roles"],
   [invitees |-> {}, admins |-> {}, features |-> {}, stream |-> "malformed"],
   [invitees |-> {"b"}, admins |-> {}, features |-> {"x"}, stream |-> "missing"],
   [invitees |-> {"b", "c"}, admins |-> {}, features |-> {}, stream |-> "roles"]}

ComponentEdits ==
  {[name |-> "n1", admins |-> {"a", "b"}], [name |-> "toolong"], [admins |-> {"a", "c"}], [admins |-> {}],
   [avatar |-> "empty", retention |-> "off"], [avatar |-> "partial"]}

NewPackages == {[caps |-> {"s", "role"}, proof |-> TRUE]}

\* Blob servers, and behaviours around late and held messages, changed endpoints,
\* tags of other builds, group images, and messages with several files.
BlobHosts == [h \in {"a", "a2", "b", "loop"} |->
  [class |-> CASE h = "loop" -> "loopback" [] h = "a2" -> "hidden" [] OTHER -> "public",
   domain |-> IF h = "a2" THEN "a" ELSE h]]
Endpoint(kind, host) == [kind |-> kind, host |-> host, form |-> "raw"]
FirstPolicy == NewPolicy(<<Endpoint("blossom", "a")>>)
NoMedia == [syncs |-> {}, names |-> {}, named |-> {"a"}, held |-> {FALSE}, endpoints |-> {}, foreign |-> {},
            image |-> FALSE, others |-> FALSE, uploads |-> 1]
ForeignTag(kind, host, names) ==
  [locators |-> <<[kind |-> kind, host |-> host, hash |-> 1]>>, cipher |-> <<1>>,
   plain |-> <<1>>, name |-> names, type |-> <<"image/jpeg">>]
MediaPlans ==
  {NoMedia,
   [NoMedia EXCEPT !.syncs = {"s", "r"}, !.names = {" a "}, !.held = BOOLEAN, !.others = TRUE],
   [NoMedia EXCEPT !.names = {"a"}, !.named = {"b"},
      !.endpoints = {<<Endpoint("blossom", "loop"), Endpoint("blossom", "a2"), Endpoint("blossom", "b"),
                       Endpoint("blossom", "b")>>,
                     <<Endpoint("ipfs", "a")>>}],
   [NoMedia EXCEPT !.names = {"a"}, !.others = TRUE,
      !.foreign = {ForeignTag("blossom", "loop", <<"a">>), ForeignTag("blossom", "b", <<"a", "c">>),
                   ForeignTag("ipfs", "b", <<"a">>)}],
   [NoMedia EXCEPT !.image = TRUE, !.others = TRUE],
   [NoMedia EXCEPT !.names = {"a"}, !.others = TRUE, !.uploads = 2]}
Init ==
  /\ focus \in {"timeline", "chats", "tokens", "store", "shared", "migrate",
                 "notify", "worker", "sync", "queue", "membership", "policy",
                 "media", "blocks", "inlines"}
  /\ PtInit /\ ScInit /\ AwInit /\ OqInit
  /\ IF focus = "chats" THEN ClInit
     ELSE /\ TlInit
          /\ accountGroups = <<>> /\ readState = <<>> /\ chatRows = <<>> /\ mentionsVersion = 0
          /\ stale = FALSE /\ warmed = FALSE /\ worker = Idle /\ reader = "idle" /\ unsettled = {}
  /\ PjInit /\ (focus # "store" => pjLegacy = NoLegacy)
  /\ MgInit /\ (focus # "migrate" => mgApplied = <<>>)
  /\ CsInit /\ (focus # "sync" => csDisk.cursor = NoCursor)
  /\ NtInit /\ (focus # "notify" => ntRole = "wakes" /\ ntEnabled)
  /\ MbInit /\ (focus # "blocks" => mbFamily = "leaves")
  /\ MiInit /\ (focus # "inlines" => miFamily = "runs" /\ miRaw = <<>>)
  /\ GpInit /\ (focus # "policy" => gpPackage["b"].caps = AllCapabilities \ {"k"})
  /\ MdInit /\ (focus # "media" => mdPlan = NoMedia)
  /\ GmInit /\ (focus # "membership" => gmMe.up /\ gmChain[1].admin)

TimelineSteps ==
  /\ focus = "timeline" /\ TlNext /\ UNCHANGED <<clDb, clMem, unsettled>>
  /\ UNCHANGED <<ptVars, pjVars, scVars, mgVars, ntVars, awVars, csVars,
                 oqVars, gmVars, gpVars, mdVars, mbVars, miVars>>
ChatSteps ==
  /\ focus = "chats" /\ ClNext
  /\ UNCHANGED <<ptVars, pjVars, scVars, mgVars, ntVars, awVars, csVars,
                 oqVars, gmVars, gpVars, mdVars, mbVars, miVars>>
TokenSteps ==
  /\ focus = "tokens" /\ PtNext
  /\ UNCHANGED <<clVars, pjVars, scVars, mgVars, ntVars, awVars, csVars,
                 oqVars, gmVars, gpVars, mdVars, mbVars, miVars>>
StoreSteps ==
  /\ focus = "store" /\ PjNext
  /\ UNCHANGED <<clVars, ptVars, scVars, mgVars, ntVars, awVars, csVars,
                 oqVars, gmVars, gpVars, mdVars, mbVars, miVars>>
ConnectionSteps ==
  /\ focus = "shared" /\ ScNext
  /\ UNCHANGED <<clVars, ptVars, pjVars, mgVars, ntVars, awVars, csVars,
                 oqVars, gmVars, gpVars, mdVars, mbVars, miVars>>
MigrationSteps ==
  /\ focus = "migrate" /\ MgNext
  /\ UNCHANGED <<clVars, ptVars, pjVars, scVars, ntVars, awVars, csVars,
                 oqVars, gmVars, gpVars, mdVars, mbVars, miVars>>
NotifySteps ==
  /\ focus = "notify" /\ NtNext
  /\ UNCHANGED <<clVars, ptVars, pjVars, scVars, mgVars, awVars, csVars,
                 oqVars, gmVars, gpVars, mdVars, mbVars, miVars>>
WorkerSteps ==
  /\ focus = "worker" /\ AwNext
  /\ UNCHANGED <<clVars, ptVars, pjVars, scVars, mgVars, ntVars, csVars,
                 oqVars, gmVars, gpVars, mdVars, mbVars, miVars>>
SyncSteps ==
  /\ focus = "sync" /\ CsNext
  /\ UNCHANGED <<clVars, ptVars, pjVars, scVars, mgVars, ntVars, awVars,
                 oqVars, gmVars, gpVars, mdVars, mbVars, miVars>>
QueueSteps ==
  /\ focus = "queue" /\ OqNext
  /\ UNCHANGED <<clVars, ptVars, pjVars, scVars, mgVars, ntVars, awVars,
                 csVars, gmVars, gpVars, mdVars, mbVars, miVars>>
MembershipSteps ==
  /\ focus = "membership" /\ GmNext
  /\ UNCHANGED <<clVars, ptVars, pjVars, scVars, mgVars, ntVars, awVars,
                 csVars, oqVars, gpVars, mdVars, mbVars, miVars>>
PolicySteps ==
  /\ focus = "policy" /\ GpNext
  /\ UNCHANGED <<clVars, ptVars, pjVars, scVars, mgVars, ntVars, awVars,
                 csVars, oqVars, gmVars, mdVars, mbVars, miVars>>
MediaSteps ==
  /\ focus = "media" /\ MdNext
  /\ UNCHANGED <<clVars, ptVars, pjVars, scVars, mgVars, ntVars, awVars,
                 csVars, oqVars, gmVars, gpVars, mbVars, miVars>>
BlockSteps ==
  /\ focus = "blocks" /\ MbNext
  /\ UNCHANGED <<clVars, ptVars, pjVars, scVars, mgVars, ntVars, awVars,
                 csVars, oqVars, gmVars, gpVars, mdVars, miVars>>
InlineSteps ==
  /\ focus = "inlines" /\ MiNext
  /\ UNCHANGED <<clVars, ptVars, pjVars, scVars, mgVars, ntVars, awVars,
                 csVars, oqVars, gmVars, gpVars, mdVars, mbVars>>

Next ==
  /\ UNCHANGED focus
  /\ \/ TimelineSteps \/ ChatSteps \/ TokenSteps \/ StoreSteps
     \/ ConnectionSteps \/ MigrationSteps \/ NotifySteps \/ WorkerSteps
     \/ SyncSteps \/ QueueSteps \/ MembershipSteps \/ PolicySteps
     \/ MediaSteps \/ BlockSteps \/ InlineSteps

\* The component that takes steps keeps its type.
AppTypeOK ==
  /\ focus \in {"timeline", "chats"} => TlTypeOK
  /\ focus \in {"timeline", "chats"} => ClTypeOK
  /\ focus = "tokens" => PtTypeOK
  /\ focus = "store" => PjTypeOK
  /\ focus = "shared" => ScTypeOK
  /\ focus = "migrate" => MgTypeOK
  /\ focus = "notify" => NtTypeOK
  /\ focus = "worker" => AwTypeOK
  /\ focus = "sync" => CsTypeOK
  /\ focus = "queue" => OqTypeOK
  /\ focus = "membership" => GmTypeOK
  /\ focus = "policy" => GpTypeOK
  /\ focus = "media" => MdTypeOK
  /\ focus = "blocks" => MbTypeOK
  /\ focus = "inlines" => MiTypeOK

\* The account database: its schema is the build's, its transactions are
\* whole and keep to themselves, it holds what was saved and imported, and
\* the tables kept event by event are those a rebuild would give.
StorageSound ==
  /\ focus \in {"timeline", "chats"} => TimelineIsRebuild
  /\ focus \in {"timeline", "chats"} => ChatRowsCurrent
  /\ focus = "store" => AccountHoldsChanges
  /\ focus = "store" => SeenReadBack
  /\ focus = "shared" => TransactionsIsolated
  /\ focus = "shared" => TransactionsAtomic
  /\ focus = "shared" => NoWaiterForgotten
  /\ focus = "migrate" => OpenedMigrated
  /\ focus = "migrate" => AppliedInOrder

\* Push tokens settle by their owners' stamps, the right devices are woken,
\* and a woken device shows what it should and no more.
NotificationsSound ==
  /\ focus = "tokens" => NewestRecordWins
  /\ focus = "notify" => CollectionExact
  /\ focus = "notify" => NotificationsDiscreet
  /\ focus = "notify" => TriggersExact

\* A worker runs what it was given, in order, and its client passes over no
\* message.
WorkerSound ==
  /\ focus = "worker" => CommandsInOrder
  /\ focus = "sync" => NothingSkipped

\* A leave request lasts, gates what is sent, and goes on through epochs,
\* restarts and failures; whoever is in a group supports it, admins are
\* members, no engine refuses what another sends, and all tell the same of a
\* commit.
MembershipSound ==
  /\ focus = "membership" => LeavingHolds
  /\ focus = "membership" => LeaveIsUnderWay
  /\ focus = "policy" => MembersSupportGroup
  /\ focus = "policy" => FeatureStatusHonest
  /\ focus = "policy" => AdminsAreMembers
  /\ focus = "policy" => NothingRefused
  /\ focus = "policy" => RecordAgrees
  /\ focus = "policy" => ChangesAgree

\* A parsed message holds its text, once and in order, and nests no deeper
\* than the caps; the files of a message are where it says, can be read by
\* those who took it in time, and are asked for only where the build may.
ContentSound ==
  /\ focus = "blocks" => BlocksKeepLines
  /\ focus = "blocks" => BlocksNestBounded
  /\ focus = "inlines" => InlinesKeepText
  /\ focus = "inlines" => InlinesWellNested
  /\ focus = "inlines" => BracketChainExact
  /\ focus = "inlines" => BottomsOnlyOptimise
  /\ focus = "inlines" => MathGivesUpSoundly
  /\ focus = "inlines" => MentionsStandAlone
  /\ focus = "media" => MediaStaysReadable
  /\ focus = "media" => DownloadsOpen
  /\ focus = "media" => SentIsAccepted
  /\ focus = "media" => SentIsStored
  /\ focus = "media" => PoliciesDecode
  /\ focus = "media" => OnlyUsableHosts
  /\ focus = "media" => ImageStored

\* Every step tells subscribers of what it changed, and drops no queued
\* intent.
StepsSound == [][ChangesCoverDifferences /\ QueueSurvives]_allVars

\* Every command of a worker is answered, and every scheduled group gets its
\* pass.
WorkerProgress ==
  /\ focus = "worker" => WorkCompletes

Spec ==
  /\ Init /\ [][Next]_allVars
  /\ AwFairness
=============================================================================
