----------------------------- MODULE DaemonHost -----------------------------
(***************************************************************************)
(* The background daemon of the command line (crates/cli/src/daemon:       *)
(* mod.rs, lifecycle.rs, runtime_host.rs): its socket and pid files, the   *)
(* tasks that serve one connection each, the lock on the hosted            *)
(* application runtime, and the shutdown that aborts the tasks.  What a    *)
(* command does with the runtime is in the modules of the runtime.         *)
(***************************************************************************)
EXTENDS Integers, FiniteSets

CONSTANTS DhConns,       \* connections that are open at the same time
          DhMaxRequests, \* bound: requests made
          DhMaxFaults    \* bound: failures and crashes

VARIABLES dhServer,   \* "down", "spawned", "bound", "boot", "serving", "aborting"
          dhSocket,   \* the socket file: "none", "live", "stale"
          dhPid,      \* the pid file, likewise
          dhConn,     \* per connection its request and how far it got
          dhLock,     \* holder of the workers lock
          dhHost,     \* the hosted runtime: 0, or its number
          dhBridge,   \* the runtime whose events the bridge task forwards, or 0
          dhLive,     \* runtimes that are open: neither shut down nor dropped
          dhStop,     \* a shutdown request has been sent to the accept loop
          dhRequests, dhFaults

dhVars == <<dhServer, dhSocket, dhPid, dhConn, dhLock, dhHost, dhBridge,
            dhLive, dhStop, dhRequests, dhFaults>>

dhFiles == <<dhServer, dhSocket, dhPid>>
dhRuntime == <<dhHost, dhBridge, dhLive>>

Nobody == 0
Main == 1     \* the task that runs the server, as a holder of the lock

(* The requests that are told apart: status, stop, a subscription or a     *)
(* watch, and commands to execute.                                         *)
DhKinds == {"status", "stop", "watch", "group", "login", "send", "sync",
            "accounts", "compose", "reset"}

(* blocked_daemon_execute_command: commands the daemon must not run.       *)
Blocked(k) == k = "reset"

(* app_runtime_account_setup_request and is_hosted_runtime_command: what   *)
(* the hosted runtime does itself.                                         *)
SetsUpAccount(k) == k = "login"
IsHosted(k) == k = "group"

(* app_runtime_refresh_after_execute, for a command that ran in a session  *)
(* of its own.                                                             *)
RefreshAfter(k) == CASE k = "send" -> "catch_up"
                     [] k = "sync" -> "restart"
                     [] OTHER -> "none"

NoRequest == [kind |-> "status", at |-> "over"]

DhInit == /\ dhServer = "down" /\ dhSocket = "none" /\ dhPid = "none"
          /\ dhConn = [c \in DhConns |-> NoRequest]
          /\ dhLock = Nobody /\ dhHost = 0 /\ dhBridge = 0 /\ dhLive = {}
          /\ dhStop = FALSE /\ dhRequests = 0 /\ dhFaults = 0

DhFault == dhFaults < DhMaxFaults /\ dhFaults' = dhFaults + 1

ConnTo(c, at) == dhConn' = [dhConn EXCEPT ![c].at = at]

(* start_daemon: a daemon that answers a status is left alone; else one is *)
(* spawned, and polled until it answers.                                   *)
SpawnsDaemon ==
    /\ dhServer = "down" /\ dhRequests < DhMaxRequests
    /\ dhServer' = "spawned"
    /\ UNCHANGED <<dhSocket, dhPid, dhConn, dhLock, dhRuntime, dhStop,
                   dhRequests, dhFaults>>

(* remove_stale_socket: a file whose daemon answers the ping is an error,  *)
(* another one is removed.                                                 *)
StaleSocket == dhSocket # "live"

(* run_server up to the bound socket.                                      *)
BindsSocket ==
    /\ dhServer = "spawned" /\ StaleSocket
    /\ dhServer' = "bound" /\ dhSocket' = "live" /\ dhPid' = "none"
    /\ UNCHANGED <<dhConn, dhLock, dhRuntime, dhStop, dhRequests, dhFaults>>

(* The pid file is written and the runtime brought up before the accept    *)
(* loop starts.                                                            *)
WritesPid ==
    /\ dhServer = "bound"
    /\ dhServer' = "boot" /\ dhPid' = "live" /\ dhLock' = Main
    /\ UNCHANGED <<dhSocket, dhConn, dhRuntime, dhStop, dhRequests, dhFaults>>

(* Without a relay in any of the options the server ends there, with its   *)
(* files in place.                                                         *)
NoRelay ==
    /\ dhServer = "boot" /\ dhLive = {} /\ DhFault
    /\ dhServer' = "down" /\ dhSocket' = "stale" /\ dhPid' = "stale"
    /\ dhLock' = Nobody
    /\ UNCHANGED <<dhConn, dhRuntime, dhStop, dhRequests>>

NextRuntime == CHOOSE r \in 1 .. DhMaxRequests + DhMaxFaults + 1 :
                   r \notin dhLive \cup {dhBridge}

(* open_app_runtime: an error is recorded and the host stays empty.        *)
OpensRuntime(done) ==
    \/ /\ dhLive' = dhLive \cup {NextRuntime}
       /\ UNCHANGED <<dhHost, dhBridge, dhFaults>>
    \/ DhFault /\ done /\ UNCHANGED dhRuntime

(* runtime.start: it is hosted and bridged, or dropped with its workers.   *)
StartsRuntime(r) ==
    \/ dhHost' = r /\ dhBridge' = r /\ UNCHANGED <<dhLive, dhFaults>>
    \/ /\ DhFault /\ dhLive' = dhLive \ {r}
       /\ UNCHANGED <<dhHost, dhBridge>>

(* The runtime that is open and not hosted yet.                            *)
Opening == CHOOSE r \in dhLive : r # dhHost

(* The bridge is started again when its task has ended.                    *)
Rebridges == dhBridge' = dhHost /\ UNCHANGED <<dhHost, dhLive, dhFaults>>

BootOpens ==
    /\ dhServer = "boot" /\ dhLive = {}
    /\ OpensRuntime(dhLock' = Nobody /\ dhServer' = "serving")
    /\ IF dhLive' = {} THEN TRUE ELSE UNCHANGED <<dhLock, dhServer>>
    /\ UNCHANGED <<dhSocket, dhPid, dhConn, dhStop, dhRequests>>

BootStarts ==
    /\ dhServer = "boot" /\ dhLive # {}
    /\ StartsRuntime(Opening)
    /\ dhServer' = "serving" /\ dhLock' = Nobody
    /\ UNCHANGED <<dhSocket, dhPid, dhConn, dhStop, dhRequests>>

(* A connection is accepted, its task spawned and its request read.        *)
Accepts(c, k) ==
    /\ dhServer = "serving" /\ dhConn[c].at = "over"
    /\ dhRequests < DhMaxRequests /\ dhRequests' = dhRequests + 1
    /\ dhConn' = [dhConn EXCEPT ![c] = [kind |-> k, at |-> "asked"]]
    /\ UNCHANGED <<dhFiles, dhLock, dhRuntime, dhStop, dhFaults>>

(* The peer is another user, the request is malformed, too large or late:  *)
(* an error is the answer.                                                 *)
RefusesRequest(c) ==
    /\ dhConn[c].at = "asked" /\ DhFault /\ ConnTo(c, "over")
    /\ UNCHANGED <<dhFiles, dhLock, dhRuntime, dhStop, dhRequests>>

(* The answer to a blocked command.                                        *)
RefusesCommand(c) ==
    /\ Blocked(dhConn[c].kind) /\ dhConn[c].at = "asked" /\ ConnTo(c, "over")
    /\ UNCHANGED <<dhFiles, dhLock, dhRuntime, dhStop, dhRequests, dhFaults>>

(* daemon_status_output tries the lock and does without what it guards.    *)
AnswersStatus(c) ==
    /\ dhConn[c] = [kind |-> "status", at |-> "asked"]
    /\ ConnTo(c, "over")
    /\ UNCHANGED <<dhFiles, dhLock, dhRuntime, dhStop, dhRequests, dhFaults>>

(* Shutdown is answered first, then the accept loop is told.               *)
AnswersStop(c) ==
    /\ dhConn[c] = [kind |-> "stop", at |-> "asked"]
    /\ ConnTo(c, "over") /\ dhStop' = TRUE
    /\ UNCHANGED <<dhFiles, dhLock, dhRuntime, dhRequests, dhFaults>>

(* run_cli_local opens its own session; only a success refreshes.          *)
RunsLocally(c) ==
    /\ dhConn[c].kind \in {"send", "sync", "accounts"} /\ dhConn[c].at = "asked"
    /\ \/ /\ ConnTo(c, IF RefreshAfter(dhConn[c].kind) = "none" THEN "over"
                       ELSE "refresh")
          /\ UNCHANGED dhFaults
       \/ ConnTo(c, "over") /\ DhFault
    /\ UNCHANGED <<dhFiles, dhLock, dhRuntime, dhStop, dhRequests>>

NeedsLock(c) ==
    \/ /\ dhConn[c].at = "asked"
       /\ \/ dhConn[c].kind \in {"watch", "compose"}
          \/ SetsUpAccount(dhConn[c].kind) \/ IsHosted(dhConn[c].kind)
    \/ dhConn[c].at \in {"refresh", "again"}

(* refresh_app_runtime: a restart needs no reconcile when there is a       *)
(* runtime to restart the account of.                                      *)
LockedAt(c) == CASE dhConn[c].at = "again" -> "last"
                 [] /\ dhConn[c].at # "again" /\ dhHost # 0
                    /\ RefreshAfter(dhConn[c].kind) = "restart" -> "held"
                 [] OTHER -> "locked"

\* Seeded bug: the host is reconciled without its lock.
SkipsLock(c) ==
    /\ NeedsLock(c) /\ ConnTo(c, LockedAt(c))
    /\ UNCHANGED <<dhFiles, dhLock, dhRuntime, dhStop, dhRequests, dhFaults>>

TakesLock(c) ==
    /\ NeedsLock(c) /\ dhLock = Nobody /\ dhLock' = c
    /\ ConnTo(c, LockedAt(c))
    /\ UNCHANGED <<dhFiles, dhRuntime, dhStop, dhRequests, dhFaults>>

(* reconcile_app_runtime under the lock: a runtime is opened and started   *)
(* when there is none, else its accounts are reconciled.                   *)
AfterReconcile(c) == IF dhConn[c].at = "last" THEN "free" ELSE "held"

ReconcileOpens(c) ==
    /\ dhConn[c].at \in {"locked", "last"} /\ dhHost = 0
    /\ OpensRuntime(ConnTo(c, "free"))
    /\ IF dhLive' = dhLive THEN TRUE ELSE ConnTo(c, "opening")
    /\ UNCHANGED <<dhFiles, dhLock, dhStop, dhRequests>>

ReconcileStarts(c) ==
    /\ dhConn[c].at = "opening"
    /\ StartsRuntime(Opening)
    /\ ConnTo(c, IF dhHost' = 0 \/ RefreshAfter(dhConn[c].kind) = "restart" THEN "free" ELSE "held")
    /\ UNCHANGED <<dhFiles, dhLock, dhStop, dhRequests>>

ReconcileAccounts(c) ==
    /\ dhConn[c].at \in {"locked", "last"} /\ dhHost # 0
    /\ Rebridges
    /\ ConnTo(c, AfterReconcile(c))
    /\ UNCHANGED <<dhFiles, dhLock, dhStop, dhRequests>>

\* Seeded bug: the command runs with the lock still held.
KeepsLock(c) ==
    /\ dhConn[c].at = "held"
    /\ ConnTo(c, "running") /\ UNCHANGED dhLock
    /\ UNCHANGED <<dhFiles, dhRuntime, dhStop, dhRequests, dhFaults>>

(* The handle is cloned and the lock released before the command talks to  *)
(* relays; the compose requests keep it, and some need no runtime.         *)
ClonesRuntime(c) ==
    /\ \/ dhConn[c].at = "held"
       \/ dhConn[c] = [kind |-> "compose", at |-> "locked"]
    /\ IF dhConn[c].kind = "compose" THEN ConnTo(c, "composing") /\ UNCHANGED dhLock
       ELSE ConnTo(c, "running") /\ dhLock' = Nobody
    /\ UNCHANGED <<dhFiles, dhRuntime, dhStop, dhRequests, dhFaults>>

(* Nothing is left to do for this request (there is no runtime, or the     *)
(* refresh was all).                                                       *)
ReleasesLock(c) ==
    /\ dhConn[c].at \in {"free", "composing"}
    /\ dhLock' = Nobody /\ ConnTo(c, "over")
    /\ UNCHANGED <<dhFiles, dhRuntime, dhStop, dhRequests, dhFaults>>

(* A command, a catch-up or a restart ends, with an output either way; a   *)
(* sync whose account cannot be resolved reconciles instead.               *)
CommandEnds(c) ==
    /\ dhConn[c].at = "running"
    /\ \/ ConnTo(c, "over")
       \/ RefreshAfter(dhConn[c].kind) = "restart" /\ ConnTo(c, "again")
    /\ UNCHANGED <<dhFiles, dhLock, dhRuntime, dhStop, dhRequests, dhFaults>>

(* The bridge task of the hosted runtime ends.                             *)
BridgeEnds ==
    /\ dhServer = "serving" /\ dhBridge # 0 /\ DhFault /\ dhBridge' = 0
    /\ UNCHANGED <<dhFiles, dhConn, dhLock, dhHost, dhLive, dhStop, dhRequests>>

LeavesLoop ==
    /\ dhServer = "serving" /\ dhStop
    /\ dhServer' = "aborting"
    /\ UNCHANGED <<dhSocket, dhPid, dhConn, dhLock, dhRuntime, dhStop,
                   dhRequests, dhFaults>>

(* Every task is aborted at its await and joined: its guard of the lock    *)
(* and a runtime that it was starting are dropped.                         *)
AbortsTask(c) ==
    /\ dhServer = "aborting" /\ dhConn[c].at # "over"
    /\ ConnTo(c, "over")
    /\ dhLock' = IF dhLock = c THEN Nobody ELSE dhLock
    /\ dhLive' = IF dhConn[c].at = "opening" THEN dhLive \ {Opening} ELSE dhLive
    /\ UNCHANGED <<dhFiles, dhHost, dhBridge, dhStop, dhRequests, dhFaults>>

TasksJoined == \A c \in DhConns : dhConn[c].at = "over"

(* The lock is taken, the runtime shut down, the files removed.            *)
ShutsDown ==
    /\ dhServer = "aborting" /\ TasksJoined /\ dhLock = Nobody
    /\ dhLive' = dhLive \ {dhHost} /\ dhHost' = 0 /\ dhBridge' = 0
    /\ dhServer' = "down" /\ dhSocket' = "none" /\ dhPid' = "none"
    /\ dhStop' = FALSE
    /\ UNCHANGED <<dhConn, dhLock, dhRequests, dhFaults>>

(* The process is killed, or ends when accept fails: its files stay.       *)
Stale(file) == IF file = "live" THEN "stale" ELSE file

DaemonDies ==
    /\ dhServer # "down" /\ DhFault
    /\ dhServer' = "down" /\ dhSocket' = Stale(dhSocket) /\ dhPid' = Stale(dhPid)
    /\ dhConn' = [c \in DhConns |-> NoRequest] /\ dhLock' = Nobody
    /\ dhHost' = 0 /\ dhBridge' = 0 /\ dhLive' = {} /\ dhStop' = FALSE
    /\ UNCHANGED dhRequests

ServerSteps == \/ SpawnsDaemon \/ BindsSocket \/ WritesPid \/ NoRelay \/ BootOpens \/ BootStarts
               \/ BridgeEnds \/ LeavesLoop \/ ShutsDown \/ DaemonDies

UnderLock(c) == \/ ReconcileOpens(c) \/ ReconcileStarts(c) \/ ReconcileAccounts(c)
                \/ ClonesRuntime(c) \/ ReleasesLock(c)

DhNext == \/ ServerSteps
          \/ \E c \in DhConns :
                \/ \E k \in DhKinds : Accepts(c, k)
                \/ RefusesRequest(c) \/ RefusesCommand(c) \/ AnswersStatus(c) \/ AnswersStop(c)
                \/ RunsLocally(c) \/ TakesLock(c) \/ UnderLock(c)
                \/ CommandEnds(c) \/ AbortsTask(c)

(* The scheduler runs every task, the lock is fair and what runs under it  *)
(* ends, compose requests included.  Nothing is assumed of a command that  *)
(* runs off the lock: it may never end.                                    *)
DhFairness ==
    /\ WF_dhVars(LeavesLoop \/ ShutsDown)
    /\ \A c \in DhConns :
          /\ WF_dhVars(RefusesCommand(c) \/ AnswersStatus(c) \/ AnswersStop(c)
                       \/ UnderLock(c) \/ AbortsTask(c))
          /\ SF_dhVars(TakesLock(c))

DhTypeOK ==
    /\ dhServer \in {"down", "spawned", "bound", "boot", "serving", "aborting"}
    /\ dhSocket \in {"none", "live", "stale"} /\ dhPid \in {"none", "live", "stale"}
    /\ dhConn \in [DhConns -> [kind : DhKinds,
                               at : {"over", "asked", "refresh", "again", "locked",
                                     "last", "opening", "held", "free", "running",
                                     "composing"}]]
    /\ dhLock \in {Nobody, Main} \cup DhConns
    /\ dhHost \in Nat /\ dhBridge \in Nat /\ dhLive \subseteq Nat
    /\ dhStop \in BOOLEAN /\ dhRequests \in Nat /\ dhFaults \in Nat

UnderWay == dhServer = "boot" \/ \E c \in DhConns : dhConn[c].at = "opening"

(* At most one application runtime is open at any time, the hosted one     *)
(* unless a reconcile is starting it, its events are forwarded by its own  *)
(* bridge, and a daemon that is down leaves none behind; after a shutdown  *)
(* it leaves no file either (run_server, reconcile_app_runtime).           *)
OneRuntime ==
    /\ Cardinality(dhLive) <= 1
    /\ ~UnderWay => dhLive = {dhHost} \ {0}
    /\ dhBridge \in {0, dhHost}
    /\ dhServer = "down" => /\ dhHost = 0 /\ dhSocket # "live" /\ dhPid # "live"
                            /\ dhFaults = 0 => dhSocket = "none" /\ dhPid = "none"

(* One command that never ends blocks nobody: every other request gets the *)
(* lock or its answer, and a stop takes the daemon down with commands      *)
(* still in relay I/O (the workers lock covers only the reconcile).        *)
CommandsDoNotBlock ==
    /\ \A c \in DhConns :
          dhConn[c].at = "asked" /\ dhConn[c].kind \notin {"send", "sync", "accounts"}
              ~> dhConn[c].at \in {"running", "over"}
    /\ dhStop ~> dhServer = "down"
=============================================================================
