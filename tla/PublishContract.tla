--------------------------- MODULE PublishContract ---------------------------
(***************************************************************************)
(* What the engine promises about its own commits: one is staged at a      *)
(* time, it is applied only after a relay holds it, and until then it can  *)
(* only be discarded.  Handlers, storage, crashes and recovery are absent. *)
(***************************************************************************)
EXTENDS Naturals

CONSTANTS Own, NoCommit

VARIABLES
    epoch,     \* MLS epoch of the device
    staged,    \* the own commit awaiting its publish outcome, or NoCommit
    accepted,  \* own commits a relay holds
    applied    \* own commits merged into local state

contractVars == <<epoch, staged, accepted, applied>>

ContractInit ==
    /\ epoch = 0
    /\ staged = NoCommit
    /\ accepted = {}
    /\ applied = {}

Stage(c) ==
    /\ staged = NoCommit
    /\ c \in Own \ applied
    /\ staged' = c
    /\ UNCHANGED <<epoch, accepted, applied>>

Accept ==
    /\ staged # NoCommit
    /\ accepted' = accepted \cup {staged}
    /\ UNCHANGED <<epoch, staged, applied>>

Apply ==
    /\ staged \in accepted
    /\ applied' = applied \cup {staged}
    /\ staged' = NoCommit
    /\ epoch' = epoch + 1
    /\ UNCHANGED accepted

Discard ==
    /\ staged # NoCommit
    /\ staged' = NoCommit
    /\ UNCHANGED <<epoch, accepted, applied>>

\* Another member's commit ends the epoch the staged commit was built for.
Supersede ==
    /\ epoch' = epoch + 1
    /\ staged' = NoCommit
    /\ UNCHANGED <<accepted, applied>>

ContractNext == (\E c \in Own : Stage(c)) \/ Accept \/ Apply \/ Discard \/ Supersede

Contract == ContractInit /\ [][ContractNext]_contractVars
=============================================================================
