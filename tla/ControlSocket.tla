--------------------------- MODULE ControlSocket ---------------------------
(***************************************************************************)
(* The control socket of the agent connector: how a connector takes the    *)
(* socket path and makes its accounts ready (crates/agent-connector:       *)
(* socket.rs, lib.rs), how it serves one request per connection            *)
(* (connection.rs, account.rs, messaging.rs over crates/agent-control),    *)
(* and the three clients of it: the bootstrap command (bootstrap.rs), the  *)
(* Hermes adapter (adapter.py) and the OpenClaw plugin (client.ts).        *)
(*                                                                         *)
(* A connection carries one request.  A client may give up on it at any    *)
(* time; the connector does not notice and carries the request out.        *)
(***************************************************************************)
EXTENDS Naturals, FiniteSets, Sequences

CONSTANTS
  CxConnectors,  \* connector processes started on the same home
  CxPlans,       \* the connectors started, the labels of the home, the clients' calls
  CxRelays,      \* are relays configured for the connector
  CxCap,         \* MAX_AGENT_CONTROL_FRAME_BYTES
  CxEvents,      \* bound: runtime events
  CxFaults       \* bound: failures and crashes

VARIABLES
  cxPath,     \* the socket file: nobody's, or the connector that bound it
  cxConn,     \* connectors: how far each has come
  cxHome,     \* label -> account, as the records say
  cxSecrets,  \* label -> the key stored for it
  cxReady,    \* accounts with relay lists, accounts with a key package
  cxPlan,     \* the plan of this behaviour
  cxClient,   \* clients: where they are and what they were told
  cxReq,      \* the request of each client, as the connector holds it
  cxRun,      \* requests whose effect took place
  cxEvent,    \* runtime events so far
  cxRaced,    \* two starts, or two creations, overlapped
  cxFaults

cxVars == <<cxPath, cxConn, cxHome, cxSecrets, cxReady, cxPlan, cxClient, cxReq,
            cxRun, cxEvent, cxRaced, cxFaults>>

cxStore == <<cxHome, cxSecrets, cxReady>>
cxCalls == <<cxPlan, cxClient, cxReq, cxRun, cxEvent>>

NoConn == 0
Plan(i) == cxPlan.calls[i]
Calling == DOMAIN cxPlan.calls
CxFault == cxFaults < CxFaults /\ cxFaults' = cxFaults + 1
Listening(c) == cxConn[c].at \in {"starting", "lists", "package", "serving"}
CxNoRequest == [st |-> "none", to |-> NoConn, op |-> "none", answer |-> "none", from |-> 0, list |-> {}]

(***************************************************************************)
(* Starting a connector.                                                   *)
(***************************************************************************)
CxTo(c, at) == cxConn' = [cxConn EXCEPT ![c].at = at]

Starting(c) == cxConn[c].at \in {"probe", "remove", "rebind"}

\* serve_socket: the path is free, or somebody's.
BindSocket(c) ==
  /\ cxConn[c].at \in {"off", "dead"}
  /\ IF cxPath = NoConn
     THEN cxPath' = c /\ CxTo(c, "starting")
     ELSE CxTo(c, "probe") /\ UNCHANGED cxPath
  /\ cxRaced' = [cxRaced EXCEPT !.starts = @ \/ \E d \in CxConnectors \ {c} : Starting(d)]
  /\ UNCHANGED <<cxStore, cxCalls, cxFaults>>

\* remove_stale_socket: a socket that answers is in use, one that refuses is stale.
StaleAny == TRUE
Stale == cxPath = NoConn \/ ~Listening(cxPath)

ProbeSocket(c) ==
  /\ cxConn[c].at = "probe"
  /\ CxTo(c, IF cxPath = NoConn THEN "rebind" ELSE IF Stale THEN "remove" ELSE "dead")
  /\ UNCHANGED <<cxPath, cxStore, cxCalls, cxRaced, cxFaults>>

\* The file is removed by its path, whoever bound it by now.
RemoveSocket(c) ==
  /\ cxConn[c].at = "remove"
  /\ cxPath' = NoConn /\ CxTo(c, "rebind")
  /\ UNCHANGED <<cxStore, cxCalls, cxRaced, cxFaults>>

RebindSocket(c) ==
  /\ cxConn[c].at = "rebind"
  /\ IF cxPath = NoConn THEN cxPath' = c /\ CxTo(c, "starting")
                        ELSE CxTo(c, "dead") /\ UNCHANGED cxPath
  /\ UNCHANGED <<cxStore, cxCalls, cxRaced, cxFaults>>

\* start: the runtime and the workers, then ensure_agent_accounts_ready over the
\* accounts listed at that moment.
StartRuntime(c) ==
  /\ cxConn[c].at = "starting"
  /\ cxConn' = [cxConn EXCEPT ![c].at = "lists", ![c].todo = DOMAIN cxHome,
                                 ![c].all = DOMAIN cxHome]
  /\ UNCHANGED <<cxPath, cxStore, cxCalls, cxRaced, cxFaults>>

\* ensure_agent_account_relay_lists, for the next account.
EnsureLists(c, a) ==
  /\ cxConn[c].at = "lists" /\ a \in cxConn[c].todo
  /\ cxReady' = [cxReady EXCEPT !.lists = @ \cup (IF CxRelays THEN {a} ELSE {})]
  /\ cxConn' = [cxConn EXCEPT ![c].at = "package", ![c].todo = @ \ {a}, ![c].now = a]
  /\ UNCHANGED <<cxPath, cxHome, cxSecrets, cxCalls, cxRaced, cxFaults>>

\* ... and its key package, unless it has one.
EnsurePackage(c) ==
  /\ cxConn[c].at = "package"
  /\ cxReady' = [cxReady EXCEPT !.packages = @ \cup {cxConn[c].now}]
  /\ CxTo(c, "lists")
  /\ UNCHANGED <<cxPath, cxHome, cxSecrets, cxCalls, cxRaced, cxFaults>>

ServeEarly(c) == cxConn[c].at = "lists"
ServeReady(c) == cxConn[c].at = "lists" /\ cxConn[c].todo = {}

Serve(c) ==
  /\ ServeReady(c)
  /\ CxTo(c, "serving")
  /\ UNCHANGED <<cxPath, cxStore, cxCalls, cxRaced, cxFaults>>

\* What a connector that ends leaves its connections in: closed, unless answered.
Closed(c) ==
  [i \in Calling |->
    IF cxReq[i].to = c /\ cxReq[i].st # "answered" THEN [cxReq[i] EXCEPT !.st = "closed"]
                                                   ELSE cxReq[i]]

\* A step of the start fails, or the process is killed.  The socket file stays.
ConnectorEnds(c) ==
  /\ Listening(c) /\ CxFault
  /\ CxTo(c, "dead") /\ cxReq' = Closed(c)
  /\ UNCHANGED <<cxPath, cxStore, cxPlan, cxClient, cxRun, cxEvent, cxRaced>>

(***************************************************************************)
(* A client sends its request.                                             *)
(***************************************************************************)
ClientTo(i, at, told) == cxClient' = [cxClient EXCEPT ![i].at = at, ![i].told = told]

\* wait_for_socket of the bootstrap command: the path exists, or the wait is over.
MayConnect(i) == Plan(i).impl = "bootstrap" => cxPath # NoConn

SocketNotFound(i) ==
  /\ cxClient[i].at = "idle" /\ ~MayConnect(i)
  /\ ClientTo(i, "done", "nosocket")
  /\ UNCHANGED <<cxPath, cxConn, cxStore, cxPlan, cxReq, cxRun, cxEvent, cxRaced, cxFaults>>

\* The Hermes and the OpenClaw client check the length of a frame before it is sent.
FrameTooLarge(i) == Plan(i).impl # "bootstrap" /\ Plan(i).size > CxCap

\* What a client is told when nobody listens: Hermes connects outside its try.
RefusedConnect(i) ==
  CASE Plan(i).impl = "openclaw" -> "retry"
    [] Plan(i).impl = "hermes" -> "oserror"
    [] OTHER -> "failed"

CxRequest(i) ==
  /\ cxClient[i].at = "idle" /\ MayConnect(i)
  /\ IF cxPath = NoConn \/ ~Listening(cxPath)
     THEN ClientTo(i, "done", RefusedConnect(i)) /\ UNCHANGED cxReq
     ELSE IF FrameTooLarge(i)
     THEN ClientTo(i, "done", "toolarge") /\ UNCHANGED cxReq
     ELSE /\ ClientTo(i, "waiting", "none")
          /\ cxReq' = [cxReq EXCEPT ![i] = [CxNoRequest EXCEPT !.st = "queued", !.to = cxPath,
                                                             !.op = cxClient[i].op]]
  /\ UNCHANGED <<cxPath, cxConn, cxStore, cxPlan, cxRun, cxEvent, cxRaced, cxFaults>>

(***************************************************************************)
(* The connector serves it.                                                *)
(***************************************************************************)
CxAnswer(i, a) == cxReq' = [cxReq EXCEPT ![i].st = "answered", ![i].answer = a]

CxHeld(i, st) == cxReq[i].st = st /\ cxConn[cxReq[i].to].at = "serving"

\* read_frame stops at the limit, one byte past the largest frame.
ReadsFrame(i) == Plan(i).size <= CxCap

\* authorize_control_request: the token where one is required, else the same user.
AnyCaller(i) == TRUE
Authorized(i) == Plan(i).token

\* stream_inbound_events subscribes to the runtime before it acknowledges.
AckFirst(i) == [cxReq EXCEPT ![i].st = "answered", ![i].answer = "ack", ![i].from = CxEvents + 1]
SubscribeThenAck(i) == [cxReq EXCEPT ![i].st = "subscribed", ![i].from = cxEvent]

HandleConnection(i) ==
  /\ CxHeld(i, "queued")
  /\ CASE ~ReadsFrame(i) -> cxReq' = [cxReq EXCEPT ![i].st = "closed"]
       [] ReadsFrame(i) /\ ~Authorized(i) -> CxAnswer(i, "unauthorized")
       [] OTHER ->
            CASE cxReq[i].op = "subscribe" -> cxReq' = SubscribeThenAck(i)
              [] cxReq[i].op = "list" ->
                   cxReq' = [cxReq EXCEPT ![i].st = "answered", ![i].answer = "ok",
                                          ![i].list = DOMAIN cxHome]
              [] OTHER -> cxReq' = [cxReq EXCEPT ![i].st = "running"]
  /\ UNCHANGED <<cxPath, cxConn, cxStore, cxPlan, cxClient, cxRun, cxEvent, cxRaced, cxFaults>>

AckInbound(i) ==
  /\ CxHeld(i, "subscribed")
  /\ CxAnswer(i, "ack")
  /\ UNCHANGED <<cxPath, cxConn, cxStore, cxPlan, cxClient, cxRun, cxEvent, cxRaced, cxFaults>>

\* send_*_response and the like: the account is looked up, and the runtime called.
SendResponse(i) ==
  /\ CxHeld(i, "running") /\ cxReq[i].op \in {"send", "preview"}
  /\ IF Plan(i).label \in DOMAIN cxHome
     THEN CxAnswer(i, "ok") /\ cxRun' = cxRun \cup {i}
     ELSE CxAnswer(i, "error") /\ UNCHANGED cxRun
  /\ UNCHANGED <<cxPath, cxConn, cxStore, cxPlan, cxClient, cxEvent, cxRaced, cxFaults>>

\* The call into the runtime fails, before or after it had its effect.
RuntimeFails(i, ran) ==
  /\ CxHeld(i, "running") /\ cxReq[i].op \in {"send", "preview", "publish"} /\ CxFault
  /\ CxAnswer(i, "error")
  /\ cxRun' = IF ran THEN cxRun \cup {i} ELSE cxRun
  /\ UNCHANGED <<cxPath, cxConn, cxStore, cxPlan, cxClient, cxEvent, cxRaced>>

PublishKeyPackage(i) ==
  /\ CxHeld(i, "running") /\ cxReq[i].op = "publish"
  /\ cxReady' = [cxReady EXCEPT !.packages = @ \cup {cxClient[i].account}]
  /\ CxAnswer(i, "ok") /\ cxRun' = cxRun \cup {i}
  /\ UNCHANGED <<cxPath, cxConn, cxHome, cxSecrets, cxPlan, cxClient, cxEvent, cxRaced, cxFaults>>

(***************************************************************************)
(* create_account_response: write_signing_account_for_label is a check,    *)
(* then the secret, then the record, and nothing serialises two of them.   *)
(***************************************************************************)
LabelTaken(a) == a \in DOMAIN cxHome \cup DOMAIN cxSecrets

CreateChecks(i) ==
  /\ CxHeld(i, "running") /\ cxReq[i].op = "create"
  /\ IF LabelTaken(Plan(i).label) THEN CxAnswer(i, "error")
                                    ELSE cxReq' = [cxReq EXCEPT ![i].st = "checked"]
  /\ cxRaced' = [cxRaced EXCEPT !.creates =
                   @ \/ \E j \in Calling \ {i} : cxReq[j].st \in {"checked", "secret"}]
  /\ UNCHANGED <<cxPath, cxConn, cxStore, cxPlan, cxClient, cxRun, cxEvent, cxFaults>>

Put(f, a, v) == [x \in DOMAIN f \cup {a} |-> IF x = a THEN v ELSE f[x]]
Without(f, a) == [x \in DOMAIN f \ {a} |-> f[x]]

WriteSecret(i) ==
  /\ CxHeld(i, "checked")
  /\ cxSecrets' = Put(cxSecrets, Plan(i).label, i)
  /\ cxReq' = [cxReq EXCEPT ![i].st = "secret"]
  /\ UNCHANGED <<cxPath, cxConn, cxHome, cxReady, cxPlan, cxClient, cxRun, cxEvent, cxRaced, cxFaults>>

WriteRecord(i) ==
  /\ CxHeld(i, "secret")
  /\ cxHome' = Put(cxHome, Plan(i).label, i)
  /\ cxRun' = cxRun \cup {i}
  /\ IF Plan(i).publish THEN cxReq' = [cxReq EXCEPT ![i].st = "created"] ELSE CxAnswer(i, "ok")
  /\ UNCHANGED <<cxPath, cxConn, cxSecrets, cxReady, cxPlan, cxClient, cxEvent, cxRaced, cxFaults>>

KeepSecret(i) == cxSecrets
RemoveSecret(i) == Without(cxSecrets, Plan(i).label)

RecordFails(i) ==
  /\ CxHeld(i, "secret") /\ CxFault
  /\ cxSecrets' = RemoveSecret(i)
  /\ CxAnswer(i, "error")
  /\ UNCHANGED <<cxPath, cxConn, cxHome, cxReady, cxPlan, cxClient, cxRun, cxEvent, cxRaced>>

\* The account stays when its key package cannot be published.
PublishCreated(i) ==
  /\ CxHeld(i, "created")
  /\ \/ /\ cxReady' = [cxReady EXCEPT !.packages = @ \cup {Plan(i).label}]
        /\ CxAnswer(i, "ok") /\ UNCHANGED cxFaults
     \/ CxFault /\ CxAnswer(i, "error") /\ UNCHANGED cxReady
  /\ UNCHANGED <<cxPath, cxConn, cxHome, cxSecrets, cxPlan, cxClient, cxRun, cxEvent, cxRaced>>

\* handle_request: the first step of each kind of request that is not answered at once.
HandleRequest(i) ==
  \/ SendResponse(i) \/ PublishKeyPackage(i) \/ CreateChecks(i)
  \/ \E ran \in BOOLEAN : RuntimeFails(i, ran)

(***************************************************************************)
(* The client takes the answer.                                            *)
(***************************************************************************)
\* select_account of the bootstrap command: by id, by label, or the only one there
\* is; none is an account to create.
SelectByLabel(i, list) == IF Plan(i).label \in list THEN Plan(i).label ELSE "create"
SelectAccount(i, list) ==
  CASE Plan(i).account # "any" -> IF Plan(i).account \in list THEN Plan(i).account ELSE "error"
    [] Plan(i).account = "any" /\ Plan(i).label \in list -> Plan(i).label
    [] OTHER -> CASE Cardinality(list) = 1 -> CHOOSE a \in list : TRUE
                  [] Cardinality(list) > 1 -> "error"
                  [] OTHER -> IF Plan(i).create THEN "create" ELSE "error"

\* bootstrap_agent_account, after its first request.
AfterListSkips(i, account) ==
  cxClient' =
    [cxClient EXCEPT ![i] =
      CASE account = "error" -> [@ EXCEPT !.at = "done", !.told = "failed"]
        [] account = "create" -> [@ EXCEPT !.at = "idle", !.op = "create", !.account = Plan(i).label]
        [] OTHER -> [@ EXCEPT !.at = "done", !.told = "ok", !.account = account]]
AfterList(i, account) ==
  cxClient' =
    [cxClient EXCEPT ![i] =
      CASE account = "error" -> [@ EXCEPT !.at = "done", !.told = "failed"]
        [] account = "create" -> [@ EXCEPT !.at = "idle", !.op = "create", !.account = Plan(i).label]
        [] OTHER -> IF Plan(i).publish
                    THEN [@ EXCEPT !.at = "idle", !.op = "publish", !.account = account]
                    ELSE [@ EXCEPT !.at = "done", !.told = "ok", !.account = account]]

\* raise_if_error: an error the connector reports is never retryable, a connection
\* that ends without an answer is.
ToldOf(i) ==
  CASE cxReq[i].st = "closed" -> IF Plan(i).impl = "bootstrap" THEN "failed" ELSE "retry"
    [] cxReq[i].st # "closed" /\ cxReq[i].answer \in {"unauthorized", "error"} -> "refused"
    [] OTHER -> "ok"

TakeAnswer(i) ==
  /\ cxClient[i].at = "waiting" /\ cxReq[i].st \in {"answered", "closed"}
  /\ CASE ToldOf(i) = "ok" /\ cxReq[i].op = "list" -> AfterList(i, SelectAccount(i, cxReq[i].list))
       [] ToldOf(i) = "ok" /\ cxReq[i].op = "subscribe" ->
            cxClient' = [cxClient EXCEPT ![i].at = "subscribed", ![i].since = cxEvent]
       [] OTHER -> ClientTo(i, "done", ToldOf(i))
  /\ UNCHANGED <<cxPath, cxConn, cxStore, cxPlan, cxReq, cxRun, cxEvent, cxRaced, cxFaults>>

\* The timer of a request runs out.  The connector does not learn of it.
TimesOut(i) ==
  /\ cxClient[i].at = "waiting" /\ CxFault
  /\ ClientTo(i, "done", IF Plan(i).impl = "bootstrap" THEN "failed" ELSE "retry")
  /\ UNCHANGED <<cxPath, cxConn, cxStore, cxPlan, cxReq, cxRun, cxEvent, cxRaced>>

\* A subscription ends when the client aborts it or the connector is gone.
CxStreamEnds(i) ==
  /\ cxClient[i].at = "subscribed"
  /\ ClientTo(i, "done", "ended")
  /\ cxReq' = [cxReq EXCEPT ![i].st = "closed"]
  /\ UNCHANGED <<cxPath, cxConn, cxStore, cxPlan, cxRun, cxEvent, cxRaced, cxFaults>>

CxRuntimeEvent ==
  /\ cxEvent < CxEvents /\ cxEvent' = cxEvent + 1
  /\ \E c \in CxConnectors : cxConn[c].at = "serving"
  /\ UNCHANGED <<cxPath, cxConn, cxStore, cxPlan, cxClient, cxReq, cxRun, cxRaced, cxFaults>>

(***************************************************************************)
FirstOp(p) == IF p.impl = "bootstrap" THEN "list" ELSE p.op

CxInit ==
  /\ cxPlan \in CxPlans
  /\ cxHome = [a \in cxPlan.home |-> 0] /\ cxSecrets = [a \in cxPlan.home |-> 0]
  /\ cxPath = NoConn
  /\ cxConn = [c \in CxConnectors |-> [at |-> "off", todo |-> {}, all |-> {}, now |-> ""]]
  /\ cxReady = [lists |-> {}, packages |-> {}]
  /\ cxClient = [i \in Calling |-> [at |-> "idle", told |-> "none", op |-> FirstOp(Plan(i)),
                                      account |-> "none", since |-> 0]]
  /\ cxReq = [i \in Calling |-> CxNoRequest]
  /\ cxRun = {} /\ cxEvent = 0 /\ cxFaults = 0
  /\ cxRaced = [starts |-> FALSE, creates |-> FALSE]

CxNext ==
  \/ \E c \in cxPlan.servers :
       \/ BindSocket(c) \/ ProbeSocket(c) \/ RemoveSocket(c) \/ RebindSocket(c)
       \/ StartRuntime(c) \/ EnsurePackage(c) \/ Serve(c) \/ ConnectorEnds(c)
       \/ \E a \in DOMAIN cxHome : EnsureLists(c, a)
  \/ \E i \in Calling :
       \/ SocketNotFound(i) \/ CxRequest(i) \/ TakeAnswer(i) \/ TimesOut(i) \/ CxStreamEnds(i)
       \/ HandleConnection(i) \/ AckInbound(i) \/ HandleRequest(i)
       \/ WriteSecret(i) \/ WriteRecord(i) \/ RecordFails(i) \/ PublishCreated(i)
  \/ CxRuntimeEvent

CxSpec == CxInit /\ [][CxNext]_cxVars

CxTypeOK ==
  /\ cxPath \in {NoConn} \cup CxConnectors
  /\ \A c \in CxConnectors : cxConn[c].at \in {"off", "probe", "remove", "rebind", "starting",
                                               "lists", "package", "serving", "dead"}
  /\ \A a \in DOMAIN cxHome : cxHome[a] \in {0} \cup Calling
  /\ cxReady.packages \subseteq DOMAIN cxHome
  /\ cxRun \subseteq Calling
  /\ cxEvent \in 0..CxEvents /\ cxFaults \in 0..CxFaults

(***************************************************************************)
(* Unless two connectors start at the same time, one that listens is the   *)
(* one the socket path leads to: nobody takes the path from it, and there  *)
(* is at most one (remove_stale_socket).                                   *)
(***************************************************************************)
OneServer == ~cxRaced.starts => \A c \in CxConnectors : Listening(c) => cxPath = c

(***************************************************************************)
(* A connector accepts requests only once every account it found at its    *)
(* start has its relay lists and a key package (start, serve_socket).      *)
(***************************************************************************)
ReadyWhenServing ==
  \A c \in CxConnectors : cxConn[c].at = "serving" =>
    /\ cxConn[c].all \subseteq cxReady.packages
    /\ CxRelays => cxConn[c].all \subseteq cxReady.lists

(***************************************************************************)
(* A bootstrap that reports success names an account that is there, with a *)
(* key package if it was to publish one, whatever failed before            *)
(* (bootstrap_agent_account).                                              *)
(***************************************************************************)
BootstrapTrue ==
  \A i \in Calling :
    Plan(i).impl = "bootstrap" /\ cxClient[i].told = "ok" =>
      /\ cxClient[i].account \in DOMAIN cxHome
      /\ Plan(i).publish => cxClient[i].account \in cxReady.packages

(***************************************************************************)
(* Bootstraps with one label, run again or at once, never add an account   *)
(* to a home that has one (select_account, write_signing_account).         *)
(***************************************************************************)
NoSecondAccount ==
  (\E a \in DOMAIN cxHome : cxHome[a] # 0) => Cardinality(DOMAIN cxHome) = 1

(***************************************************************************)
(* The key stored for a label is the key of its record, unless two         *)
(* creations overlapped; and a creation that failed left neither.          *)
(***************************************************************************)
KeysMatchRecords ==
  ~cxRaced.creates =>
    /\ \A a \in DOMAIN cxHome : a \in DOMAIN cxSecrets /\ cxSecrets[a] = cxHome[a]
    /\ \A i \in Calling : cxReq[i].st = "answered" /\ cxReq[i].answer = "error" =>
         \A a \in DOMAIN cxSecrets : cxSecrets[a] = i => a \in DOMAIN cxHome

(***************************************************************************)
(* Only an authorised request of a frame within the limit has an effect,   *)
(* and a client told that it may retry is one that got no answer.          *)
(***************************************************************************)
EffectsAllowed ==
  /\ \A i \in cxRun : Plan(i).token /\ Plan(i).size <= CxCap
  /\ \A i \in Calling : cxClient[i].told = "ok" /\ cxClient[i].op \in {"send", "create"} => i \in cxRun

(***************************************************************************)
(* From the moment a subscriber is ready, every event of the runtime is    *)
(* one its subscription was there for (stream_inbound_events).             *)
(***************************************************************************)
ReadySeesAll ==
  \A i \in Calling : cxClient[i].at = "subscribed" => cxReq[i].from <= cxClient[i].since

=============================================================================
