----------------------------- MODULE MCPlatform -----------------------------
(***************************************************************************)
(* The application runtime and its relay side for TLC: account management, *)
(* subscriptions of the user interface, group commands, the relay pool,    *)
(* the delivery of relay events and the user directory.  They share no     *)
(* variable, so one run checks them side by side: focus names the          *)
(* component that takes steps in a behaviour, and the others keep their    *)
(* initial state.                                                          *)
(***************************************************************************)
EXTENDS RuntimeWorkers, Subscriptions, GroupCommands, RelayTransport,
        Directory, DaemonHost, DaemonFeeds, TerminalUi

VARIABLE focus

platformVars == <<raVars, suVars, gcVars, roVars, rpVars, dyVars, wcVars,
                  dhVars, dsVars, duVars, tuVars, tcVars, focus>>

TuFirst0 == <<"A", "B">>
TuMember0 == [a \in {"A", "B"} |-> IF a = "A" THEN {"g1", "g2", "g3"} ELSE {"g1", "g3"}]
TuIndex0 == [g \in {"g1", "g2", "g3"} |-> IF g = "g1" THEN 1 ELSE IF g = "g2" THEN 2 ELSE 3]
TuStored0 == [g \in {"g1", "g2", "g3"} |-> IF g = "g1" THEN {1} ELSE {}]

Init ==
  /\ focus \in {"accounts", "subscriptions", "commands", "pool", "plane",
                 "directory", "fetches", "calls", "daemon", "compose",
                 "watches", "stream", "tui", "composer"}
  /\ RaInit /\ SuInit /\ GcInit /\ RoInit /\ RpInit /\ DyInit /\ WcInit
  /\ DhInit /\ DsInit /\ DuInit /\ TuInit /\ TcInit
  /\ focus # "subscriptions" => suKind = "messages"
  /\ focus # "stream" => duKind = "messages"

AccountSteps ==
  /\ focus = "accounts" /\ RaNext
  /\ UNCHANGED <<suVars, gcVars, roVars, rpVars, dyVars, wcVars, dhVars,
                 dsVars, duVars, tuVars, tcVars>>
SubscriptionSteps ==
  /\ focus = "subscriptions" /\ SuNext
  /\ UNCHANGED <<raVars, gcVars, roVars, rpVars, dyVars, wcVars, dhVars,
                 dsVars, duVars, tuVars, tcVars>>
CommandSteps ==
  /\ focus = "commands" /\ GcNext
  /\ UNCHANGED <<raVars, suVars, roVars, rpVars, dyVars, wcVars, dhVars,
                 dsVars, duVars, tuVars, tcVars>>
PoolSteps ==
  /\ focus = "pool" /\ RoNext
  /\ UNCHANGED <<raVars, suVars, gcVars, rpVars, dyVars, wcVars, dhVars,
                 dsVars, duVars, tuVars, tcVars>>
PlaneSteps ==
  /\ focus = "plane" /\ RpNext
  /\ UNCHANGED <<raVars, suVars, gcVars, roVars, dyVars, wcVars, dhVars,
                 dsVars, duVars, tuVars, tcVars>>
DirectorySteps ==
  /\ focus = "directory" /\ DySyncNext
  /\ UNCHANGED <<raVars, suVars, gcVars, roVars, rpVars, wcVars, dhVars,
                 dsVars, duVars, tuVars, tcVars>>
FetchSteps ==
  /\ focus = "fetches" /\ DyFetchNext
  /\ UNCHANGED <<raVars, suVars, gcVars, roVars, rpVars, wcVars, dhVars,
                 dsVars, duVars, tuVars, tcVars>>
CallSteps ==
  /\ focus = "calls" /\ WcNext
  /\ UNCHANGED <<raVars, suVars, gcVars, roVars, rpVars, dyVars, dhVars,
                 dsVars, duVars, tuVars, tcVars>>
DaemonSteps ==
  /\ focus = "daemon" /\ DhNext
  /\ UNCHANGED <<raVars, suVars, gcVars, roVars, rpVars, dyVars, wcVars,
                 dsVars, duVars, tuVars, tcVars>>
ComposeSteps ==
  /\ focus = "compose" /\ DsComposeNext
  /\ UNCHANGED <<raVars, suVars, gcVars, roVars, rpVars, dyVars, wcVars,
                 dhVars, duVars, tuVars, tcVars>>
WatchSteps ==
  /\ focus = "watches" /\ DsWatchNext
  /\ UNCHANGED <<raVars, suVars, gcVars, roVars, rpVars, dyVars, wcVars,
                 dhVars, duVars, tuVars, tcVars>>
StreamSteps ==
  /\ focus = "stream" /\ DuNext
  /\ UNCHANGED <<raVars, suVars, gcVars, roVars, rpVars, dyVars, wcVars,
                 dhVars, dsVars, tuVars, tcVars>>
TuiSteps ==
  /\ focus = "tui" /\ TuNext
  /\ UNCHANGED <<raVars, suVars, gcVars, roVars, rpVars, dyVars, wcVars,
                 dhVars, dsVars, duVars, tcVars>>
ComposerSteps ==
  /\ focus = "composer" /\ TcNext
  /\ UNCHANGED <<raVars, suVars, gcVars, roVars, rpVars, dyVars, wcVars,
                 dhVars, dsVars, duVars, tuVars>>

Next ==
  /\ UNCHANGED focus
  /\ \/ AccountSteps \/ SubscriptionSteps \/ CommandSteps \/ PoolSteps
     \/ PlaneSteps \/ DirectorySteps \/ FetchSteps \/ CallSteps
     \/ DaemonSteps \/ ComposeSteps \/ WatchSteps \/ StreamSteps
     \/ TuiSteps \/ ComposerSteps

\* The component that takes steps keeps its type.
PlatformTypeOK ==
  /\ focus = "accounts" => RaTypeOK
  /\ focus = "subscriptions" => SuTypeOK
  /\ focus = "commands" => GcTypeOK
  /\ focus = "pool" => RoTypeOK
  /\ focus = "plane" => RpTypeOK
  /\ focus \in {"directory", "fetches"} => DyTypeOK
  /\ focus = "calls" => WcTypeOK
  /\ focus = "daemon" => DhTypeOK
  /\ focus \in {"compose", "watches"} => DsTypeOK
  /\ focus = "stream" => DuTypeOK
  /\ focus = "tui" => TuTypeOK
  /\ focus = "composer" => TcTypeOK

\* The runtime's calls keep their word across restarts, failures and
\* shutdown: account management, group commands, and the calls a worker
\* answers.
RuntimeSound ==
  /\ focus = "accounts" => ShutdownQuiet
  /\ focus = "commands" => CommandsLeaveCoherent
  /\ focus = "calls" => CallsReportTruly

\* The command line.  Its daemon: one runtime under its lock, sessions and
\* watches accounted for, and subscriptions that send everything once.  Its
\* terminal interface: what is shown belongs together and misses nothing, and
\* a composed stream says what was typed.
CommandLineSound ==
  /\ focus = "daemon" => OneRuntime
  /\ focus \in {"compose", "watches"} => SessionsAccounted
  /\ focus \in {"compose", "watches"} => WatchesReported
  /\ focus = "stream" => SubscriptionExact
  /\ focus = "stream" => ForwardsInOrder
  /\ focus = "tui" => PaneConsistent
  /\ focus = "tui" => NothingMissed
  /\ focus = "composer" => DraftIntact
  /\ focus = "composer" => DraftStaysDraft
  /\ focus = "composer" => PreviewsSound

\* A stalled account does not starve the others, and a command that never
\* ends blocks no other request of the daemon.
PlatformProgress ==
  /\ focus = "plane" => OthersStillFed
  /\ focus = "daemon" => CommandsDoNotBlock

Spec ==
  /\ Init /\ [][Next]_platformVars
  /\ RpFairness
  /\ DhFairness
=============================================================================
