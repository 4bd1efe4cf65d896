------------------------------ MODULE MCAgent -------------------------------
(***************************************************************************)
(* The agent side for TLC: the live preview of a reply and its broker, the *)
(* agent connector's inbound stream, catch-up driver, sends, streams and   *)
(* invite policy, the Hermes inbound loop and replies, the OpenClaw reply  *)
(* sink, and the control socket with its clients.  They share no variable, *)
(* so one run checks them side by side: focus names the component that     *)
(* takes steps in a behaviour, and the others keep their initial state.    *)
(***************************************************************************)
EXTENDS LivePreview, AgentInbound, AgentConnector, HermesAdapter, ReplySink,
        ControlSocket

VARIABLE focus

agentVars == <<lpVars, aiVars, cdVars, asVars, stVars, ivVars, hiVars, hrVars,
               rsVars, cxVars, focus>>

\* Texts of a reply: one extends the other.
ReplyTexts == {<<1>>, <<1, 2>>}

\* Calls of the clients of the control socket.
CxBoot == [impl |-> "bootstrap", op |-> "list", token |-> TRUE, size |-> 1, label |-> "agent",
           account |-> "any", publish |-> TRUE, create |-> TRUE]
CxCall(impl, op) == [CxBoot EXCEPT !.impl = impl, !.op = op, !.label = "other"]
QuietPlan == [servers |-> {1, 2}, home |-> {"other"}, calls |-> <<CxCall("hermes", "send")>>]
ControlPlans ==
  {QuietPlan,
   [servers |-> {1}, home |-> {}, calls |-> <<CxBoot, CxBoot>>],
   [servers |-> {1}, home |-> {"other", "third"},
    calls |-> <<CxCall("openclaw", "subscribe"), CxBoot>>],
   [servers |-> {1}, home |-> {"other"},
    calls |-> <<[CxCall("openclaw", "preview") EXCEPT !.token = FALSE],
                [CxBoot EXCEPT !.account = "other", !.publish = FALSE]>>],
   [servers |-> {1}, home |-> {"other"},
    calls |-> <<[CxCall("hermes", "send") EXCEPT !.size = 3], [CxBoot EXCEPT !.size = 3]>>],
   [servers |-> {1}, home |-> {},
    calls |-> <<[CxCall("openclaw", "send") EXCEPT !.size = 2], [CxBoot EXCEPT !.create = FALSE]>>]}

Init ==
  /\ focus \in {"preview", "inbound", "catchUp", "sends", "streams",
                 "invites", "hermes", "replies", "sink", "socket"}
  /\ LpInit /\ AiInit /\ CdInit /\ AsInit /\ StInit /\ IvInit /\ HiInit
  /\ HrInit /\ RsInit /\ CxInit
  /\ focus # "preview" => ~lpReplay
  /\ focus # "invites" => ivAllowed = {}
  /\ focus # "hermes" => ~hiDebounce
  /\ focus # "sink" => rsMode = "off"
  /\ focus # "socket" => cxPlan = QuietPlan

PreviewSteps ==
  /\ focus = "preview" /\ LpNext
  /\ UNCHANGED <<aiVars, cdVars, asVars, stVars, ivVars, hiVars, hrVars,
                 rsVars, cxVars>>
InboundSteps ==
  /\ focus = "inbound" /\ AiNext
  /\ UNCHANGED <<lpVars, cdVars, asVars, stVars, ivVars, hiVars, hrVars,
                 rsVars, cxVars>>
CatchUpSteps ==
  /\ focus = "catchUp" /\ CdNext
  /\ UNCHANGED <<lpVars, aiVars, asVars, stVars, ivVars, hiVars, hrVars,
                 rsVars, cxVars>>
SendSteps ==
  /\ focus = "sends" /\ AsNext
  /\ UNCHANGED <<lpVars, aiVars, cdVars, stVars, ivVars, hiVars, hrVars,
                 rsVars, cxVars>>
StreamSteps ==
  /\ focus = "streams" /\ StNext
  /\ UNCHANGED <<lpVars, aiVars, cdVars, asVars, ivVars, hiVars, hrVars,
                 rsVars, cxVars>>
InviteSteps ==
  /\ focus = "invites" /\ IvNext
  /\ UNCHANGED <<lpVars, aiVars, cdVars, asVars, stVars, hiVars, hrVars,
                 rsVars, cxVars>>
HermesSteps ==
  /\ focus = "hermes" /\ HiNext
  /\ UNCHANGED <<lpVars, aiVars, cdVars, asVars, stVars, ivVars, hrVars,
                 rsVars, cxVars>>
ReplySteps ==
  /\ focus = "replies" /\ HrNext
  /\ UNCHANGED <<lpVars, aiVars, cdVars, asVars, stVars, ivVars, hiVars,
                 rsVars, cxVars>>
SinkSteps ==
  /\ focus = "sink" /\ RsNext
  /\ UNCHANGED <<lpVars, aiVars, cdVars, asVars, stVars, ivVars, hiVars,
                 hrVars, cxVars>>
SocketSteps ==
  /\ focus = "socket" /\ CxNext
  /\ UNCHANGED <<lpVars, aiVars, cdVars, asVars, stVars, ivVars, hiVars,
                 hrVars, rsVars>>

Next ==
  /\ UNCHANGED focus
  /\ \/ PreviewSteps \/ InboundSteps \/ CatchUpSteps \/ SendSteps
     \/ StreamSteps \/ InviteSteps \/ HermesSteps \/ ReplySteps
     \/ SinkSteps \/ SocketSteps

\* The component that takes steps keeps its type.
AgentTypeOK ==
  /\ focus = "preview" => LpTypeOK
  /\ focus = "inbound" => AiTypeOK
  /\ focus = "catchUp" => CdTypeOK
  /\ focus = "sends" => AsTypeOK
  /\ focus = "streams" => StTypeOK
  /\ focus = "invites" => IvTypeOK
  /\ focus = "hermes" => HiTypeOK
  /\ focus = "replies" => HrTypeOK
  /\ focus = "sink" => RsTypeOK
  /\ focus = "socket" => CxTypeOK

\* The connector writes no event to a subscription twice while its cursor
\* holds it, runs one catch-up loop at a time and answers a repeated send
\* with the message of that very send.  One connector serves the control
\* socket, once its accounts are ready; a bootstrap that reports success left
\* one usable account, a request has an effect only if it was authorised, and
\* a subscriber that is ready misses nothing.
ConnectorSound ==
  /\ focus = "inbound" => NotWrittenTwice
  /\ focus = "catchUp" => OneCatchUpLoop
  /\ focus = "sends" => AnsweredWithOwnMessage
  /\ focus = "socket" => OneServer
  /\ focus = "socket" => ReadyWhenServing
  /\ focus = "socket" => BootstrapTrue
  /\ focus = "socket" => NoSecondAccount
  /\ focus = "socket" => KeysMatchRecords
  /\ focus = "socket" => EffectsAllowed
  /\ focus = "socket" => ReadySeesAll

\* The adapters hand on each turn once and in order, prompt a group once, and
\* post the reply of a turn; the Hermes adapter reports truly what it posted,
\* posts it once, and keeps one preview open at most.
AdaptersSound ==
  /\ focus = "hermes" => TurnsOnceInOrder
  /\ focus = "hermes" => OnePrompt
  /\ focus = "sink" => ReplyPosted
  /\ focus = "replies" => RepliesPosted
  /\ focus = "replies" => ToolEventsOnce
  /\ focus = "replies" => OnePreviewOpen

\* Stream sessions settle, invites are decided, and one slow group does not
\* hold up the others.
AgentProgress ==
  /\ focus = "streams" => StreamsSettle
  /\ focus = "invites" => InvitesDecided
  /\ focus = "hermes" => OtherGroupsFlow

Spec ==
  /\ Init /\ [][Next]_agentVars
  /\ StFairness
  /\ IvFairness
  /\ HiFairness /\ WF_hiVars(focus = "hermes" /\ Subscribe)
=============================================================================
