-------------------------- MODULE Canonicalization --------------------------
(***************************************************************************)
(* Convergence at one client: the commits and application messages it has  *)
(* received, and the passes that replay them from a retained anchor,       *)
(* select a branch (BranchSelection) and apply it                          *)
(* (crates/cgka-engine/src: distributed_convergence.rs,                    *)
(* openmls_projection.rs, canonicalization.rs and the part of              *)
(* message_processor/ingest.rs that routes a peeled message).              *)
(*                                                                         *)
(* The client made none of the commits itself; its own commits, the fork   *)
(* recovery they need and the messages it cannot peel yet are the subject  *)
(* of module Convergence.  A group state is the path of commits that leads *)
(* to it from the state the client joined in, so its epoch is the length   *)
(* of the path.  A commit is a number, which is also the order of its      *)
(* digest; Branch[c] is the path ending in c.  An application message is a *)
(* record [at, sender, id]: encrypted in the state `at` by `sender`.       *)
(***************************************************************************)
EXTENDS BranchSelection, Sequences

CONSTANTS
    Commits,        \* commit numbers
    Branch,         \* commit -> the path of commits that ends in it
    Priority,       \* commit -> 0 (privileged) or 1 (ordinary)
    Committer,      \* commit -> rank of its committer's identity
    Apps,           \* the application messages that exist
    PastLimit,      \* app_message_past_epoch_limit
    MaxPast,        \* past epochs OpenMLS keeps message secrets for
    Sealed,         \* the transport seals a message to the state it is sent in
    MaxCrashes      \* bound: crashes in the middle of an ingest

ASSUME TreeAssumption ==
    /\ Commits \subseteq Nat
    /\ Branch \in [Commits -> Seq(Commits)]
    /\ \A c \in Commits : Len(Branch[c]) > 0 /\ Branch[c][Len(Branch[c])] = c
    /\ \A c \in Commits : \A i \in DOMAIN Branch[c] :
           Branch[Branch[c][i]] = SubSeq(Branch[c], 1, i)

ASSUME InputAssumption ==
    /\ Priority \in [Commits -> {0, 1}]
    /\ Committer \in [Commits -> Nat]
    /\ \A a \in Apps : a.at = << >> \/ \E c \in Commits : a.at = Branch[c]
    /\ PastLimit \in Nat /\ MaxPast \in Nat /\ MaxCrashes \in Nat
    /\ Sealed \in BOOLEAN

VARIABLES
    rows,       \* commit -> the state of its message row
    mail,       \* application message -> the state of its message row
    path,       \* the canonical group state
    anchors,    \* epoch -> the group state retained for it
    halted,     \* the group is Unrecoverable
    crashes     \* crashes so far

vars == << rows, mail, path, anchors, halted, crashes >>

States == {"None", "Created", "Retryable", "Processed", "Failed", "EpochInvalidated"}

\* The group state s is t or an ancestor of t.
IsPrefix(s, t) == Len(s) <= Len(t) /\ SubSeq(s, 1, Len(s)) = SubSeq(t, 1, Len(s))

IsStrictPrefix(s, t) == IsPrefix(s, t) /\ s # t

Tip == Len(path)

Source(c) == Len(Branch[c]) - 1

Epoch(a) == Len(a.at)

Init ==
    /\ rows = [c \in Commits |-> "None"]
    /\ mail = [a \in Apps |-> "None"]
    /\ path = << >>
    /\ anchors = [e \in {} |-> << >>]
    /\ halted = FALSE
    /\ crashes = 0

-----------------------------------------------------------------------------
(* Retained anchors.                                                       *)

RetainTooFew(A, p) ==
    [e \in {f \in DOMAIN A : f + MaxRewind > Len(p)} \union {Len(p)} |->
        IF e = Len(p) THEN p ELSE A[e]]

RetainOld(A, p) ==
    [e \in {f \in DOMAIN A : f >= Minus(Len(p), MaxRewind)} \union {Len(p)} |->
        IF e \in DOMAIN A THEN A[e] ELSE p]

\* retain_current_group_epoch_snapshot, with the pruning it ends in.
Retain(A, p) ==
    [e \in {f \in DOMAIN A : f >= Minus(Len(p), MaxRewind)} \union {Len(p)} |->
        IF e = Len(p) THEN p ELSE A[e]]

-----------------------------------------------------------------------------
(* One message arrives.                                                    *)

\* A sealed message is opened with the exporter secret of the state it was
\* sent in: the live one, or that of an earlier epoch that is retained.
\* Until then it waits outside of this module.
Peels(state) ==
    Sealed => \/ state = path
              \/ Len(state) < Tip /\ Len(state) \in DOMAIN anchors /\ anchors[Len(state)] = state

Base(c) == SubSeq(Branch[c], 1, Source(c))

\* commit_should_enter_convergence, for a client that made no commit.
EntersConvergence(c) ==
    \/ Source(c) >= Tip
    \/ Minus(Tip, Source(c)) <= MaxRewind /\ Source(c) \in DOMAIN anchors

\* ingest_group_message of a commit: buffered for convergence, or of an
\* epoch that is over (WrongEpoch).
IngestCommit(c) ==
    /\ ~halted
    /\ rows[c] = "None"
    /\ Peels(Base(c))
    /\ rows' = [rows EXCEPT ![c] = IF EntersConvergence(c) THEN "Created" ELSE "Failed"]
    /\ UNCHANGED << mail, path, anchors, halted, crashes >>

\* What processing an application message in the canonical state gives.
Outcome(a) ==
    IF Epoch(a) > Tip THEN "Created"
    ELSE IF Minus(Tip, Epoch(a)) > MaxPast THEN "Failed"
    ELSE IF IsPrefix(a.at, path) THEN "Processed"
    ELSE "Retryable"

\* ingest_group_message of an application message: a future one is buffered,
\* any other is processed at once; one of another branch does not decrypt.
IngestApp(a) ==
    /\ ~halted
    /\ mail[a] = "None"
    /\ Peels(a.at)
    /\ mail' = [mail EXCEPT ![a] = Outcome(a)]
    /\ UNCHANGED << rows, path, anchors, halted, crashes >>

\* The process dies after the row of the message is written as Created and
\* before it is processed.
CrashInIngest(a) ==
    /\ ~halted
    /\ crashes < MaxCrashes
    /\ mail[a] = "None"
    /\ Epoch(a) <= Tip
    /\ Peels(a.at)
    /\ mail' = [mail EXCEPT ![a] = "Created"]
    /\ crashes' = crashes + 1
    /\ UNCHANGED << rows, path, anchors, halted >>

-----------------------------------------------------------------------------
(* One convergence pass, its quiescence window over.                       *)

\* retained_anchor_epoch.
Horizon == Minus(Tip, MaxRewind)

\* unresolved_commit_state, and not older than the retained anchor.
Unresolved == {c \in Commits : rows[c] = "Created" /\ Source(c) >= Horizon}

Stale == {c \in Commits : rows[c] = "Created" /\ Source(c) < Horizon}

\* The application messages that are inputs of a pass.
Pending ==
    {a \in Apps : mail[a] \in {"Created", "Retryable"} /\ Epoch(a) >= Horizon}

\* has_unresolved_convergence_inputs.
HasUnresolved == Unresolved # {} \/ Pending # {}

Late == {c \in Unresolved : Source(c) < Tip}

\* historical_replay_start_epoch, or the current epoch.
Start == IF Late = {} THEN Tip ELSE Min({Source(c) : c \in Late})

\* The commits a pass replays: a historical one also replays what is applied.
Replayable ==
    IF Late = {} THEN Unresolved
    ELSE {c \in Commits : rows[c] \in {"Created", "Processed"} /\ Source(c) >= Horizon}

AnchorMissing == Late # {} /\ Start \notin DOMAIN anchors

\* The state the replay starts in.
Anchor == IF Late = {} THEN path ELSE anchors[Start]

\* Parentage is found by replaying: a commit extends a path that reaches the
\* state it was made in.
Reached ==
    LET held == Replayable
        from == Anchor
    IN  {c \in held :
            /\ IsStrictPrefix(from, Branch[c])
            /\ \A i \in Len(from) + 1 .. Len(Branch[c]) : Branch[c][i] \in held}

\* build_stored_openmls_candidate_paths keeps the paths nothing extends.
Contenders ==
    IF AnchorMissing THEN {}
    ELSE LET reached == Reached
         IN  {c \in reached : \A d \in reached : IsPrefix(Branch[c], Branch[d]) => d = c}

\* The commits of the path to c that come after the start of the replay.
Suffix(c) == {Branch[c][i] : i \in Start + 1 .. Len(Branch[c])}

\* A candidate replays its application messages after its commits.
DecryptsOn(a, c) ==
    IsPrefix(a.at, Branch[c]) /\ Minus(Len(Branch[c]), Epoch(a)) <= MaxPast

AppExpired(tip, a) == Minus(tip, Epoch(a)) > PastLimit

\* attach_app_witnesses: the window is measured from the candidate's own tip.
Witnesses(c) ==
    {[epoch |-> Epoch(a), sender |-> a.sender, id |-> a.id] :
        a \in {b \in Pending : DecryptsOn(b, c) /\ ~AppExpired(Len(Branch[c]), b)}}

\* materialize_openmls_candidate_paths.
Candidate(c) ==
    [fork |-> Start, tip |-> Len(Branch[c]), priority |-> Priority[c],
     committer |-> Committer[c], digest |-> c, witnesses |-> Witnesses(c)]

Candidates == {Candidate(c) : c \in Contenders}

\* handle_app_message, and the row state its disposition is stored as.
\* `won` holds the tip of the selected branch, if there is one.
Disposition(a, won, all, tip) ==
    IF AppExpired(Tip, a) THEN "EpochInvalidated"
    ELSE IF \E c \in won : DecryptsOn(a, c) THEN "Processed"
    ELSE IF (\A c \in all : ~DecryptsOn(a, c)) /\ Epoch(a) > tip THEN "Retryable"
    ELSE "EpochInvalidated"

CommitDispositionOpenKept(c, won, all) ==
    IF c \in Stale THEN "EpochInvalidated"
    ELSE IF \E w \in won : c \in Suffix(w) THEN "Processed"
    ELSE IF won # {} /\ rows[c] = "Processed" /\ (\E d \in all : c \in Suffix(d))
         THEN "EpochInvalidated"
    ELSE rows[c]

CommitDispositionLosersKept(c, won, all) ==
    IF c \in Stale THEN "EpochInvalidated"
    ELSE IF \E w \in won : c \in Suffix(w) THEN "Processed"
    ELSE rows[c]

\* The commits that lose are those of every other candidate; a commit the
\* winner shares is accepted.
CommitDisposition(c, won, all) ==
    IF c \in Stale THEN "EpochInvalidated"
    ELSE IF \E w \in won : c \in Suffix(w) THEN "Processed"
    ELSE IF won # {} /\ (\E d \in all : c \in Suffix(d)) THEN "EpochInvalidated"
    ELSE rows[c]

\* apply_openmls_canonicalization_result: dispositions, the group state and
\* the anchors of its epochs.
Apply(won, all, to) ==
    /\ rows' = [c \in Commits |-> CommitDisposition(c, won, all)]
    /\ mail' = [a \in Apps |-> IF a \in Pending THEN Disposition(a, won, all, Len(to))
                              ELSE mail[a]]
    /\ path' = to
    /\ anchors' = IF won = {} THEN anchors
                  ELSE Retain(IF Start = Tip THEN Retain(anchors, path) ELSE anchors, to)
    /\ UNCHANGED << halted, crashes >>

\* converge_stored_openmls_messages selects a branch and moves to it ...
ConvergeSelect ==
    /\ ~halted /\ HasUnresolved /\ ~AnchorMissing
    /\ LET all == Contenders
           best == Selected(Tip, {Candidate(c) : c \in all})
       IN  \E c \in all : Candidate(c) \in best /\ Apply({c}, all, Branch[c])

\* ... or there is none and it only settles what it can ...
ConvergeNone ==
    /\ ~halted /\ HasUnresolved /\ ~AnchorMissing
    /\ LET all == Contenders
       IN  Selected(Tip, {Candidate(c) : c \in all}) = {} /\ Apply({}, all, path)

\* ... or the state to replay from is gone: Unrecoverable.
ConvergeHalt ==
    /\ ~halted /\ HasUnresolved /\ AnchorMissing
    /\ halted' = TRUE
    /\ UNCHANGED << rows, mail, path, anchors, crashes >>

Converge == ConvergeSelect \/ ConvergeNone \/ ConvergeHalt

Next ==
    \/ \E c \in Commits : IngestCommit(c)
    \/ \E a \in Apps : IngestApp(a) \/ CrashInIngest(a)
    \/ Converge

Spec == Init /\ [][Next]_vars

\* The application calls advance_convergence from a timer for as long as a
\* group has unresolved input.
FairSpec == Spec /\ WF_vars(Converge)

-----------------------------------------------------------------------------
(* Properties.                                                             *)

\* Row states, paths and anchors have their types.
TypeOK ==
    /\ rows \in [Commits -> States]
    /\ mail \in [Apps -> States]
    /\ path \in Seq(Commits)
    /\ DOMAIN anchors \subseteq Nat /\ \A e \in DOMAIN anchors : anchors[e] \in Seq(Commits)
    /\ halted \in BOOLEAN
    /\ crashes \in 0 .. MaxCrashes

\* The commits applied to the group are exactly the commits whose rows say
\* so: a pass that switches branches (apply_openmls_canonicalization_result)
\* accepts all of the new path and withdraws all of the old one.
PathProcessed ==
    \A c \in Commits : rows[c] = "Processed" <=> c \in {path[i] : i \in DOMAIN path}

\* The anchor of an epoch that is over is the state the client went through
\* in that epoch, so that a late commit is replayed on its real parent
\* (retain_current_group_epoch_snapshot writes it under the epoch's name).
AnchorsOnPath ==
    \A e \in DOMAIN anchors : e <= Tip => anchors[e] = SubSeq(path, 1, e)

\* Every epoch the client went through inside the rollback horizon is
\* retained, except the one it is in.
HorizonRetained ==
    \A e \in Horizon .. Tip - 1 : e \in DOMAIN anchors

\* The three belong together: what the rows call processed is the path, the
\* kept states are states of that path, and those in reach of a rewind are
\* still kept (apply_openmls_canonicalization_result, retain and prune).
PathAnchored == PathProcessed /\ AnchorsOnPath /\ HorizonRetained

\* Whenever there is a candidate inside the horizon, exactly one is selected:
\* the order of iteration in max_by decides nothing.
OneWinner ==
    ~halted /\ HasUnresolved /\ ~AnchorMissing /\ Contenders # {}
        => Cardinality(Selected(Tip, Candidates)) = 1

\* Application traffic wins at most max_witness_override_depth commits: the
\* selected branch is never more than that shorter than another candidate,
\* and if it is shorter at all then enough distinct senders witness it.
OverrideBounded ==
    [][\A w, c \in Contenders :
          path' # path /\ path' = Branch[w] =>
              /\ Len(Branch[w]) + Override >= Len(Branch[c])
              /\ Len(Branch[w]) < Len(Branch[c]) => QuorumMet(Witnesses(w))]_vars

\* One sender alone never overrides commit depth, however much it sends.
OneSenderNeverOverrides ==
    [][\A w, c \in Contenders :
          /\ path' # path /\ path' = Branch[w]
          /\ Cardinality({a.sender : a \in Pending}) <= 1
          => Len(Branch[w]) >= Len(Branch[c])]_vars

\* A pass never moves the client to an earlier epoch: what it already applied
\* is one of the branches a late commit has to win against.
EpochNeverRegresses == [][Len(path') >= Len(path)]_vars

\* A commit buffered for convergence is resolved: applied or dropped.
CommitsSettle == \A c \in Commits : rows[c] = "Created" ~> rows[c] # "Created"
=============================================================================
