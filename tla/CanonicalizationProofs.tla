----------------------- MODULE CanonicalizationProofs -----------------------
(***************************************************************************)
(* What holds of every pass of module Canonicalization: its types, the     *)
(* bound on what application traffic can outweigh, and that exactly one    *)
(* branch wins.  These need that an anchor is filed under the epoch of the *)
(* state it holds, which makes the depth of a candidate the length it      *)
(* adds.  Where the transport seals every message to the state it is sent  *)
(* in, also that rows, path and kept states agree, that no pass returns to *)
(* an earlier epoch and that the group never becomes Unrecoverable.        *)
(***************************************************************************)
EXTENDS Canonicalization, BranchSelectionProofs, SequenceTheorems

\* retain_current_group_epoch_snapshot files a state under its own epoch.
AnchorsFiled ==
    \A e \in DOMAIN anchors : e \in Nat /\ anchors[e] \in Seq(Commits) /\ Len(anchors[e]) = e

\* The inductive invariant: types, and anchors filed under their epochs.
Inv == TypeOK /\ AnchorsFiled

\* What makes a function on epochs a set of retained anchors.
Filed(A) ==
    \A e \in DOMAIN A : e \in Nat /\ A[e] \in Seq(Commits) /\ Len(A[e]) = e

\* Retaining the current state keeps every anchor under its epoch.
LEMMA RetainFiled ==
    ASSUME NEW A, Filed(A), NEW p \in Seq(Commits)
    PROVE  Filed(Retain(A, p))
BY DEF Filed, Retain

\* No anchor is retained at first and every row is absent.
LEMMA InitInv == Init => Inv
<1>. SUFFICES ASSUME Init PROVE Inv
    BY Zenon
<1>1. DOMAIN anchors = {}
    BY Zenon DEF Init
<1>2. rows \in [Commits -> States] /\ mail \in [Apps -> States]
    BY Zenon DEF Init, States
<1>3. path \in Seq(Commits)
    BY Zenon, EmptySeq DEF Init
<1>4. halted \in BOOLEAN
    BY Zenon DEF Init
<1>5. crashes \in 0 .. MaxCrashes
    BY InputAssumption DEF Init
<1>. QED
    BY Zenon, <1>1, <1>2, <1>3, <1>4, <1>5 DEF Inv, TypeOK, AnchorsFiled

\* Ingesting a commit writes one row.
LEMMA IngestCommitInv ==
    ASSUME Inv, NEW c \in Commits, IngestCommit(c)
    PROVE  Inv'
BY Zenon DEF Inv, TypeOK, AnchorsFiled, IngestCommit, States

\* Ingesting an application message writes one row.
LEMMA IngestAppInv ==
    ASSUME Inv, NEW a \in Apps, IngestApp(a)
    PROVE  Inv'
BY Zenon DEF Outcome, States, Inv, TypeOK, AnchorsFiled, IngestApp

\* A crash in the middle of an ingest leaves a row behind and is counted.
LEMMA CrashInIngestInv ==
    ASSUME Inv, NEW a \in Apps, CrashInIngest(a)
    PROVE  Inv'
BY InputAssumption DEF Inv, TypeOK, AnchorsFiled, CrashInIngest, States

\* Applying the outcome of a pass stores dispositions and retains states
\* under their epochs.
LEMMA ApplyInv ==
    ASSUME Inv, NEW won, NEW all, NEW to \in Seq(Commits), Apply(won, all, to)
    PROVE  Inv'
<1>1. \A c \in Commits : CommitDisposition(c, won, all) \in States
    BY Zenon DEF CommitDisposition, States, Inv, TypeOK
<1>2. \A a \in Apps : Disposition(a, won, all, Len(to)) \in States
    BY Zenon DEF Disposition, States
<1>3. rows' \in [Commits -> States]
    BY Zenon, <1>1 DEF Apply
<1>4. mail' \in [Apps -> States]
    BY Zenon, <1>2 DEF Apply, Inv, TypeOK
<1>5. Filed(anchors')
  <2>1. Filed(anchors) /\ path \in Seq(Commits)
      BY Zenon DEF Inv, AnchorsFiled, Filed, TypeOK
  <2>2. Filed(Retain(anchors, path))
      BY Zenon, <2>1, RetainFiled
  <2>3. Filed(Retain(anchors, to)) /\ Filed(Retain(Retain(anchors, path), to))
      BY Zenon, <2>1, <2>2, RetainFiled
  <2>. QED
      BY Zenon, <2>1, <2>3 DEF Apply
<1>6. path' \in Seq(Commits) /\ halted' \in BOOLEAN /\ crashes' \in 0 .. MaxCrashes
    BY Zenon DEF Apply, Inv, TypeOK
<1>. QED
    BY Zenon, <1>3, <1>4, <1>5, <1>6 DEF Inv, TypeOK, AnchorsFiled, Filed

\* Every step keeps the types and the filing of anchors.
LEMMA NextInv == Inv /\ [Next]_vars => Inv'
<1>. SUFFICES ASSUME Inv, [Next]_vars PROVE Inv'
    BY Zenon
<1>1. CASE \E c \in Commits : IngestCommit(c)
    BY Zenon, <1>1, IngestCommitInv
<1>2. CASE \E a \in Apps : IngestApp(a) \/ CrashInIngest(a)
    BY Zenon, <1>2, IngestAppInv, CrashInIngestInv
<1>3. CASE ConvergeSelect
    BY Zenon, <1>3, ApplyInv, TreeAssumption DEF ConvergeSelect, Contenders, Reached,
       Replayable, Unresolved
<1>4. CASE ConvergeNone
    BY Zenon, <1>4, ApplyInv DEF ConvergeNone, Inv, TypeOK
<1>5. CASE ConvergeHalt
    BY Zenon, <1>5 DEF ConvergeHalt, Inv, TypeOK, AnchorsFiled
<1>6. CASE UNCHANGED vars
    BY Zenon, <1>6 DEF vars, Inv, TypeOK, AnchorsFiled
<1>. QED
    BY Zenon, <1>1, <1>2, <1>3, <1>4, <1>5, <1>6 DEF Next, Converge

\* The types of rows, anchors and the group state hold in every execution.
THEOREM TypeCorrect == Spec => []TypeOK
<1>1. Inv => TypeOK
    BY Zenon DEF Inv
<1>. QED
    BY InitInv, NextInv, <1>1, PTL DEF Spec

-----------------------------------------------------------------------------
(* Only a selecting pass changes the canonical state.                      *)

\* A step that moves the group state is a pass that selects the branch it
\* moves to; commits are told apart by their branches.
LEMMA MoveSelects ==
    ASSUME Inv, [Next]_vars, path' # path, NEW w \in Contenders, path' = Branch[w]
    PROVE  /\ ~AnchorMissing
           /\ Candidate(w) \in Selected(Tip, {Candidate(c) : c \in Contenders})
<1>1. ConvergeSelect
    BY Zenon DEF Next, Converge, vars, IngestCommit, IngestApp, CrashInIngest,
             ConvergeNone, ConvergeHalt, Apply
<1>2. PICK c \in Contenders :
          /\ Candidate(c) \in Selected(Tip, {Candidate(d) : d \in Contenders})
          /\ Apply({c}, Contenders, Branch[c])
    BY ZenonT(30), <1>1 DEF ConvergeSelect
<1>3. c \in Commits /\ w \in Commits
    BY Zenon DEF Contenders, Reached, Replayable, Unresolved
<1>4. Branch[c] = Branch[w]
    BY Zenon, <1>2 DEF Apply
<1>5. c = w
    BY ZenonT(30), <1>3, <1>4, TreeAssumption
<1>. QED
    BY Zenon, <1>1, <1>2, <1>5 DEF ConvergeSelect

\* The replay of a contender starts at its fork epoch: its depth as a
\* candidate is the number of commits it adds to the anchor.
LEMMA ContenderDepth ==
    ASSUME Inv, ~AnchorMissing, NEW c \in Contenders
    PROVE  /\ Start \in Nat
           /\ Len(Branch[c]) \in Nat /\ Len(Branch[c]) >= Start
           /\ Depth(Candidate(c)) = Len(Branch[c]) - Start
BY TreeAssumption DEF Contenders, Reached, Replayable, Unresolved, Anchor, Start,
   Tip, Inv, TypeOK, AnchorMissing, AnchorsFiled, IsStrictPrefix, IsPrefix,
   Candidate, Depth, Minus

\* The branch a pass selects obeys the bound against every other contender.
LEMMA SelectedBounded ==
    ASSUME Inv, ~AnchorMissing, NEW w \in Contenders, NEW c \in Contenders,
           Candidate(w) \in Selected(Tip, {Candidate(d) : d \in Contenders})
    PROVE  /\ Len(Branch[w]) + Override >= Len(Branch[c])
           /\ Len(Branch[w]) < Len(Branch[c]) => QuorumMet(Witnesses(w))
<1>. DEFINE C == {Candidate(d) : d \in Contenders}
<1>1. /\ Start \in Nat /\ Len(Branch[w]) \in Nat /\ Len(Branch[c]) \in Nat
      /\ Len(Branch[w]) >= Start /\ Len(Branch[c]) >= Start
      /\ Depth(Candidate(w)) = Len(Branch[w]) - Start
      /\ Depth(Candidate(c)) = Len(Branch[c]) - Start
    BY Zenon, ContenderDepth
<1>2. Candidate(c) \in C /\ Eligible(Tip, Candidate(c))
    BY Zenon DEF Selected, Candidate, Eligible
<1>3. Depth(Candidate(w)) \in Nat /\ Depth(Candidate(c)) \in Nat
    BY <1>1
<1>4. /\ Depth(Candidate(w)) + Override >= Depth(Candidate(c))
      /\ Depth(Candidate(w)) < Depth(Candidate(c)) => QuorumMet(Candidate(w).witnesses)
    BY Zenon, <1>2, <1>3, SelectedOverrideBounded
<1>5. Candidate(w).witnesses = Witnesses(w)
    BY Zenon DEF Candidate
<1>. QED
    BY <1>1, <1>4, <1>5, PolicyAssumption

\* A step that moves the group to a contender obeys the bound.
LEMMA MoveBounded ==
    ASSUME Inv, [Next]_vars, NEW w \in Contenders, NEW c \in Contenders,
           path' # path, path' = Branch[w]
    PROVE  /\ Len(Branch[w]) + Override >= Len(Branch[c])
           /\ Len(Branch[w]) < Len(Branch[c]) => QuorumMet(Witnesses(w))
BY ZenonT(30), MoveSelects, SelectedBounded

\* Application traffic wins at most max_witness_override_depth commits, and
\* any at all only with a quorum of distinct senders, in every execution and
\* for every tree of commits and every policy.
THEOREM OverrideBoundedHolds == Spec => OverrideBounded
<1>1. Inv /\ [Next]_vars =>
        [\A w, c \in Contenders :
            path' # path /\ path' = Branch[w] =>
                /\ Len(Branch[w]) + Override >= Len(Branch[c])
                /\ Len(Branch[w]) < Len(Branch[c]) => QuorumMet(Witnesses(w))]_vars
    BY Zenon, MoveBounded
<1>. QED
    BY InitInv, NextInv, <1>1, PTL DEF Spec, OverrideBounded

\* With a single sender no witness quorum of two or more is met.
LEMMA QuorumNeedsTwo ==
    ASSUME QuorumSenders >= 2, IsFiniteSet({a.sender : a \in Apps}),
           Cardinality({a.sender : a \in Pending}) <= 1, NEW w
    PROVE  ~QuorumMet(Witnesses(w))
<1>. SUFFICES ASSUME QuorumMet(Witnesses(w)) PROVE FALSE
    BY Zenon
<1>. DEFINE All == {a.sender : a \in Pending}
            Full == {e \in WitnessedEpochs(Witnesses(w)) :
                        Cardinality(Senders(Witnesses(w), e)) >= QuorumSenders}
<1>1. Full # {}
  <2>1. Cardinality(Full) >= QuorumEpochs /\ QuorumEpochs # 0
      BY Zenon DEF QuorumMet
  <2>2. Cardinality({}) = 0
      BY Zenon, FS_EmptySet
  <2>. HIDE DEF Full
  <2>. QED
      BY <2>1, <2>2, PolicyAssumption
<1>2. PICK e \in Full : TRUE
    BY Zenon, <1>1
<1>3. Cardinality(Senders(Witnesses(w), e)) >= 2
    BY <1>2, FS_Subset, FS_CardinalityType, PolicyAssumption DEF Senders, Witnesses,
       Pending
<1>4. Senders(Witnesses(w), e) \subseteq All
    BY DEF Senders, Witnesses
<1>5. IsFiniteSet(All)
    BY FS_Subset DEF Pending
<1>6. Cardinality(Senders(Witnesses(w), e)) <= Cardinality(All)
    BY Zenon, <1>4, <1>5, FS_Subset
<1>7. Cardinality(Senders(Witnesses(w), e)) \in Nat /\ Cardinality(All) \in Nat
    BY Zenon, <1>4, <1>5, FS_Subset, FS_CardinalityType
<1>. QED
    BY <1>3, <1>6, <1>7

\* With a policy that asks for two senders an epoch or more, one sender alone
\* never overrides commit depth, in every execution.
THEOREM OneSenderHolds ==
    ASSUME QuorumSenders >= 2, IsFiniteSet({a.sender : a \in Apps})
    PROVE  Spec => OneSenderNeverOverrides
<1>1. ASSUME Inv, [Next]_vars, NEW w \in Contenders, NEW c \in Contenders,
             path' # path, path' = Branch[w],
             Cardinality({a.sender : a \in Pending}) <= 1
      PROVE  Len(Branch[w]) >= Len(Branch[c])
    BY <1>1, MoveBounded, MoveSelects, ContenderDepth, QuorumNeedsTwo
<1>2. Inv /\ [Next]_vars =>
        [\A w, c \in Contenders :
            /\ path' # path /\ path' = Branch[w]
            /\ Cardinality({a.sender : a \in Pending}) <= 1
            => Len(Branch[w]) >= Len(Branch[c])]_vars
    BY Zenon, <1>1
<1>. QED
    BY InitInv, NextInv, <1>2, PTL DEF Spec, OneSenderNeverOverrides

-----------------------------------------------------------------------------
(* A pass has exactly one winner.                                          *)

\* The replay starts inside the rollback horizon.
LEMMA StartInHorizon ==
    ASSUME Inv
    PROVE  /\ Start \in Nat /\ Start <= Tip /\ Minus(Tip, Start) <= MaxRewind
           /\ Late # {} => /\ Start < Tip
                           /\ \A c \in Late : Start <= Source(c)
<1>1. Tip \in Nat
    BY DEF Tip, Inv, TypeOK
<1>2. CASE Late = {}
    BY <1>1, <1>2, PolicyAssumption DEF Start, Minus
<1>3. CASE Late # {}
  <2>. DEFINE X == {Source(c) : c \in Late}
  <2>1. \A c \in Late : Source(c) \in Nat /\ Source(c) < Tip /\ Source(c) >= Horizon
      BY TreeAssumption DEF Late, Unresolved, Source
  <2>2. X \in SUBSET Nat /\ X # {}
      BY Zenon, <1>3, <2>1
  <2>3. Start \in X /\ \A m \in X : Start <= m
    <3>. HIDE DEF X
    <3>1. Min(X) \in X /\ \A m \in X : Min(X) <= m
        BY Zenon, <2>2, MinLeast
    <3>. QED
        BY ZenonT(30), <1>3, <3>1 DEF Start, X
  <2>. QED
      BY <1>1, <1>3, <2>1, <2>3, PolicyAssumption DEF Horizon, Minus
<1>. QED
    BY Zenon, <1>2, <1>3

\* The score of a contender is a score: finitely many application messages
\* give a number of witnesses.
LEMMA ContenderScore ==
    ASSUME Inv, IsFiniteSet(Apps), ~AnchorMissing, NEW c \in Contenders
    PROVE  Score(Candidate(c)) \in Scores /\ Candidate(c).digest = c /\ c \in Commits
<1>1. c \in Commits /\ c \in Nat
    BY ZenonT(30), TreeAssumption DEF Contenders, Reached, Replayable, Unresolved
<1>2. Depth(Candidate(c)) \in Nat
    BY ContenderDepth
<1>3. Boost(Candidate(c).witnesses) \in Nat
    BY BoostBounded, PolicyAssumption
<1>4. WitnessScore(Candidate(c).witnesses) \in Nat
  <2>. DEFINE Seen == {b \in Pending : DecryptsOn(b, c) /\ ~AppExpired(Len(Branch[c]), b)}
              f == [a \in Seen |-> [epoch |-> Epoch(a), sender |-> a.sender, id |-> a.id]]
  <2>1. IsFiniteSet(Seen)
      BY Zenon, FS_Subset DEF Pending
  <2>2. f \in Surjection(Seen, Witnesses(c))
      BY Zenon DEF Surjection, Witnesses
  <2>3. IsFiniteSet(Witnesses(c))
      BY Zenon, <2>1, <2>2, FS_Surjection
  <2>. QED
      BY Zenon, <2>3, WitnessScoreNat DEF Candidate
<1>5. /\ Candidate(c).priority \in Int /\ Candidate(c).committer \in Int
      /\ Candidate(c).digest = c
    BY <1>1, InputAssumption DEF Candidate
<1>6. Score(Candidate(c)) \in Scores
    BY <1>1, <1>2, <1>3, <1>4, <1>5 DEF Score, Scores
<1>. QED
    BY Zenon, <1>1, <1>5, <1>6

\* With finitely many commits and messages, the pass of any state that Inv
\* describes has one winner as soon as it has a contender.
LEMMA InvOneWinner ==
    ASSUME Inv, IsFiniteSet(Commits), IsFiniteSet(Apps) PROVE OneWinner
<1>. SUFFICES ASSUME ~AnchorMissing, Contenders # {}
              PROVE  Cardinality(Selected(Tip, Candidates)) = 1
    BY Zenon DEF OneWinner
<1>1. IsFiniteSet(Candidates)
  <2>. DEFINE f == [c \in Contenders |-> Candidate(c)]
  <2>1. f \in Surjection(Contenders, Candidates)
      BY Zenon DEF Surjection, Candidates
  <2>2. Contenders \subseteq Commits
      BY Zenon DEF Contenders, Reached, Replayable, Unresolved
  <2>. QED
      BY Zenon, <2>1, <2>2, FS_Subset, FS_Surjection
<1>2. \A b \in Candidates : /\ Score(b) \in Scores /\ b.digest \in Int
                            /\ Eligible(Tip, b) /\ b = Candidate(b.digest)
  <2>. SUFFICES ASSUME NEW c \in Contenders
                PROVE  LET b == Candidate(c)
                       IN  /\ Score(b) \in Scores /\ b.digest \in Int
                           /\ Eligible(Tip, b) /\ b = Candidate(b.digest)
      BY Zenon DEF Candidates
  <2>1. Score(Candidate(c)) \in Scores /\ Candidate(c).digest = c /\ c \in Nat
      BY ZenonT(30), ContenderScore, TreeAssumption
  <2>2. Eligible(Tip, Candidate(c))
      BY Zenon, StartInHorizon DEF Eligible, Candidate
  <2>. QED
      BY <2>1, <2>2
<1>3. Selected(Tip, Candidates) # {}
  <2>1. Candidates # {}
      BY Zenon DEF Candidates
  <2>. QED
      BY Zenon, <1>1, <1>2, <2>1, SelectedExists
<1>4. \A b, d \in Selected(Tip, Candidates) : b = d
    BY <1>2, SelectedUnique DEF Selected
<1>5. PICK b : Selected(Tip, Candidates) = {b}
    BY Zenon, <1>3, <1>4
<1>. QED
    BY ZenonT(30), <1>5, FS_Singleton

\* Whatever arrives and in whatever order, a pass with a contender selects
\* exactly one branch.
THEOREM OneWinnerHolds ==
    ASSUME IsFiniteSet(Commits), IsFiniteSet(Apps) PROVE Spec => []OneWinner
<1>1. Inv => OneWinner
    BY Zenon, InvOneWinner
<1>. QED
    BY InitInv, NextInv, <1>1, PTL DEF Spec

-----------------------------------------------------------------------------
(* A client whose transport seals messages to the state they are sent in.  *)

\* The canonical state is a state of the tree of commits.
OnTree == path = << >> \/ path = Branch[path[Tip]]

\* The kept states are states the client went through, the present one
\* included once it has moved.
Anchored ==
    /\ \A e \in DOMAIN anchors : e <= Tip /\ \A i \in 1 .. e : anchors[e][i] = path[i]
    /\ Tip > 0 => Tip \in DOMAIN anchors

\* A commit that waits for a pass was made in a state the client went through
\* and can still replay from.
WaitingOnPath ==
    \A c \in Commits : rows[c] = "Created" =>
        /\ Source(c) >= Horizon /\ Source(c) <= Tip
        /\ \A i \in 1 .. Source(c) : Branch[c][i] = path[i]

\* No application message waits: what can be opened can be processed.
NoMailWaits == \A a \in Apps : mail[a] \notin {"Created", "Retryable"}

\* What a client with a sealing transport and no crash in an ingest keeps.
SealedInv ==
    /\ Inv
    /\ PathProcessed /\ HorizonRetained
    /\ OnTree /\ Anchored /\ WaitingOnPath /\ NoMailWaits

\* What a pass and a commit compare branches by.
LEMMA PrefixPoints ==
    ASSUME NEW s \in Seq(Commits), NEW t \in Seq(Commits)
    PROVE  IsPrefix(s, t) <=> Len(s) <= Len(t) /\ \A i \in 1 .. Len(s) : s[i] = t[i]
BY SeqEqual DEF IsPrefix

\* A commit stands at the end of its branch, at one place in every branch.
LEMMA BranchPoints ==
    ASSUME NEW c \in Commits
    PROVE  /\ Branch[c] \in Seq(Commits) /\ Source(c) \in Nat
           /\ Len(Branch[c]) = Source(c) + 1 /\ Branch[c][Source(c) + 1] = c
           /\ \A i \in 1 .. Source(c) + 1 :
                /\ Branch[c][i] \in Commits
                /\ Len(Branch[Branch[c][i]]) = i
                /\ \A j \in 1 .. i : Branch[Branch[c][i]][j] = Branch[c][j]
<1>1. /\ Branch[c] \in Seq(Commits) /\ Len(Branch[c]) > 0
      /\ Branch[c][Len(Branch[c])] = c
      /\ \A i \in DOMAIN Branch[c] : Branch[Branch[c][i]] = SubSeq(Branch[c], 1, i)
    BY Zenon, TreeAssumption
<1>2. DOMAIN Branch[c] = 1 .. Len(Branch[c]) /\ Len(Branch[c]) \in Nat
    BY <1>1
<1>3. ASSUME NEW i \in 1 .. Len(Branch[c])
      PROVE  /\ Branch[c][i] \in Commits
             /\ Len(Branch[Branch[c][i]]) = i
             /\ \A j \in 1 .. i : Branch[Branch[c][i]][j] = Branch[c][j]
  <2>1. Branch[Branch[c][i]] = SubSeq(Branch[c], 1, i)
      BY Zenon, <1>1, <1>2
  <2>2. /\ Len(SubSeq(Branch[c], 1, i)) = i
        /\ \A j \in 1 .. i : SubSeq(Branch[c], 1, i)[j] = Branch[c][j]
      BY <1>1, <1>2
  <2>. QED
      BY <1>1, <2>1, <2>2
<1>. QED
    BY <1>1, <1>2, <1>3 DEF Source

\* The commits of the path stand where their branches end.
LEMMA PathPoints ==
    ASSUME SealedInv
    PROVE  /\ path \in Seq(Commits) /\ Tip \in Nat
           /\ \A i \in 1 .. Tip :
                /\ path[i] \in Commits /\ Len(Branch[path[i]]) = i
                /\ \A j \in 1 .. i : Branch[path[i]][j] = path[j]
<1>1. path \in Seq(Commits) /\ Tip \in Nat
    BY DEF SealedInv, Inv, TypeOK, Tip
<1>2. CASE Tip = 0
    BY <1>1, <1>2
<1>3. CASE Tip # 0
  <2>1. path[Tip] \in Commits /\ path = Branch[path[Tip]]
      BY <1>1, <1>3 DEF SealedInv, OnTree, Tip
  <2>2. Source(path[Tip]) + 1 = Tip
      BY Zenon, <1>1, <2>1, BranchPoints DEF Tip
  <2>3. \A i \in 1 .. Tip :
            /\ path[i] \in Commits /\ Len(Branch[path[i]]) = i
            /\ \A j \in 1 .. i : Branch[path[i]][j] = path[j]
    <3>1. \A c \in Commits : path = Branch[c] /\ Tip = Source(c) + 1 =>
              \A i \in 1 .. Tip :
                  /\ path[i] \in Commits /\ Len(Branch[path[i]]) = i
                  /\ \A j \in 1 .. i : Branch[path[i]][j] = path[j]
        BY BranchPoints
    <3>. QED
        BY Zenon, <2>1, <2>2, <3>1
  <2>. QED
      BY Zenon, <1>1, <2>3
<1>. QED
    BY Zenon, <1>2, <1>3, <1>1

\* Nothing waits beyond the horizon, no message waits, and the state to
\* replay from is kept.
LEMMA SealedReplays ==
    ASSUME SealedInv
    PROVE  /\ Stale = {} /\ Pending = {} /\ ~AnchorMissing
           /\ Unresolved = {c \in Commits : rows[c] = "Created"}
           /\ Start \in Nat /\ Start <= Tip
           /\ Anchor \in Seq(Commits) /\ Len(Anchor) = Start
           /\ \A i \in 1 .. Start : Anchor[i] = path[i]
           /\ \A c \in Unresolved : Start <= Source(c)
<1>. USE DEF SealedInv
<1>1. Tip \in Nat /\ Horizon \in Nat /\ \A c \in Commits : Source(c) \in Nat
    BY PathPoints, BranchPoints, PolicyAssumption DEF Horizon, Minus
<1>2. Stale = {} /\ Unresolved = {c \in Commits : rows[c] = "Created"}
    BY <1>1 DEF Stale, Unresolved, WaitingOnPath
<1>3. Pending = {}
    BY Zenon DEF Pending, NoMailWaits
<1>4. /\ Start \in Nat /\ Start <= Tip /\ Minus(Tip, Start) <= MaxRewind
      /\ Late # {} => Start < Tip /\ \A c \in Late : Start <= Source(c)
    BY Zenon, StartInHorizon
<1>5. Late # {} => Start \in DOMAIN anchors
    BY <1>1, <1>4, PolicyAssumption DEF HorizonRetained, Horizon, Minus
<1>6. /\ Anchor \in Seq(Commits) /\ Len(Anchor) = Start
      /\ \A i \in 1 .. Start : Anchor[i] = path[i]
  <2>1. CASE Late = {}
      BY Zenon, <2>1 DEF Anchor, Start, Tip, Inv, TypeOK
  <2>2. CASE Late # {}
      BY Zenon, <2>2, <1>5 DEF Anchor, Inv, AnchorsFiled, Anchored
  <2>. QED
      BY Zenon, <2>1, <2>2
<1>7. \A c \in Unresolved : Start <= Source(c)
    BY <1>1, <1>4 DEF Start, Late, Unresolved
<1>. QED
    BY Zenon, <1>2, <1>3, <1>4, <1>5, <1>6, <1>7 DEF AnchorMissing

\* A pass replays the commits that wait and the applied commits after its
\* start, all of them on their real parents.
LEMMA SealedReach ==
    ASSUME SealedInv
    PROVE  /\ Unresolved \subseteq Reached
           /\ \A i \in Start + 1 .. Tip : path[i] \in Reached
           /\ \A d \in Reached :
                d \in Unresolved \/ \E i \in Start + 1 .. Tip : d = path[i]
<1>. USE DEF SealedInv
<1>1. /\ path \in Seq(Commits) /\ Tip \in Nat
      /\ \A i \in 1 .. Tip : /\ path[i] \in Commits /\ Len(Branch[path[i]]) = i
                             /\ \A j \in 1 .. i : Branch[path[i]][j] = path[j]
    BY Zenon, PathPoints
<1>2. /\ Start \in Nat /\ Start <= Tip /\ Anchor \in Seq(Commits) /\ Len(Anchor) = Start
      /\ \A i \in 1 .. Start : Anchor[i] = path[i]
      /\ \A c \in Unresolved : Start <= Source(c)
      /\ Unresolved = {c \in Commits : rows[c] = "Created"}
    BY Zenon, SealedReplays
<1>3. Unresolved \subseteq Replayable
    BY Zenon DEF Replayable, Unresolved
<1>4. \A i \in Start + 1 .. Tip : path[i] \in Replayable
  <2>1. CASE Late = {}
      BY <1>1, <2>1 DEF Start
  <2>2. CASE Late # {}
    <3>. SUFFICES ASSUME NEW i \in Start + 1 .. Tip PROVE path[i] \in Replayable
        BY Zenon
    <3>1. path[i] \in Commits /\ Source(path[i]) = i - 1
        BY <1>1, <1>2 DEF Source
    <3>2. rows[path[i]] = "Processed"
        BY <1>1, <1>2, <3>1 DEF PathProcessed, Tip
    <3>3. Horizon <= Start
        BY <1>1, <1>2, StartInHorizon, PolicyAssumption DEF Horizon, Minus
    <3>4. Horizon \in Nat
        BY <1>1, PolicyAssumption DEF Horizon, Minus
    <3>. QED
        BY <1>1, <1>2, <2>2, <3>1, <3>2, <3>3, <3>4 DEF Replayable
  <2>. QED
      BY Zenon, <2>1, <2>2
<1>5. ASSUME NEW c \in Commits, Len(Branch[c]) > Start,
             \A i \in 1 .. Start : Branch[c][i] = path[i],
             \A i \in Start + 1 .. Len(Branch[c]) : Branch[c][i] \in Replayable
      PROVE  c \in Reached
  <2>1. Branch[c] \in Seq(Commits) /\ Len(Branch[c]) \in Nat
        /\ c = Branch[c][Len(Branch[c])]
      BY BranchPoints
  <2>2. c \in Replayable
      BY <1>2, <1>5, <2>1
  <2>3. IsStrictPrefix(Anchor, Branch[c])
      BY <1>2, <1>5, <2>1, PrefixPoints DEF IsStrictPrefix
  <2>. QED
      BY Zenon, <1>2, <1>5, <2>2, <2>3 DEF Reached
<1>6. ASSUME NEW c \in Unresolved PROVE c \in Reached
  <2>1. c \in Commits /\ Source(c) <= Tip /\ \A i \in 1 .. Source(c) : Branch[c][i] = path[i]
      BY Zenon, <1>2 DEF WaitingOnPath
  <2>2. /\ Source(c) \in Nat /\ Len(Branch[c]) = Source(c) + 1
        /\ Branch[c][Source(c) + 1] = c /\ Start <= Source(c)
      BY Zenon, <1>2, <2>1, BranchPoints
  <2>3. ASSUME NEW i \in Start + 1 .. Len(Branch[c]) PROVE Branch[c][i] \in Replayable
    <3>1. CASE i = Source(c) + 1
        BY <1>3, <2>2, <3>1
    <3>2. CASE i # Source(c) + 1
      <4>1. i \in 1 .. Source(c) /\ i \in Start + 1 .. Tip
          BY <1>1, <1>2, <2>1, <2>2, <3>2
      <4>. QED
          BY Zenon, <1>4, <2>1, <4>1
    <3>. QED
        BY Zenon, <3>1, <3>2
  <2>. QED
      BY <1>2, <1>5, <2>1, <2>2, <2>3
<1>7. ASSUME NEW i \in Start + 1 .. Tip PROVE path[i] \in Reached
  <2>1. /\ path[i] \in Commits /\ Len(Branch[path[i]]) = i
        /\ \A j \in 1 .. i : Branch[path[i]][j] = path[j]
      BY <1>1, <1>2
  <2>2. \A j \in Start + 1 .. i : Branch[path[i]][j] \in Replayable
      BY <1>1, <1>2, <1>4, <2>1
  <2>. QED
      BY SMTT(30), <1>2, <1>5, <2>1, <2>2
<1>8. ASSUME NEW d \in Reached, d \notin Unresolved
      PROVE  \E i \in Start + 1 .. Tip : d = path[i]
  <2>1. d \in Commits /\ rows[d] = "Processed" /\ IsStrictPrefix(Anchor, Branch[d])
      BY Zenon, <1>2, <1>8 DEF Reached, Replayable
  <2>2. PICK i \in 1 .. Tip : d = path[i]
      BY <1>1, <2>1 DEF PathProcessed, Tip
  <2>3. /\ Branch[d] \in Seq(Commits) /\ Len(Branch[d]) = i
        /\ \A j \in 1 .. i : Branch[d][j] = path[j]
      BY ZenonT(30), <1>1, <2>1, <2>2, BranchPoints
  <2>4. i > Start
    <3>1. Start <= i /\ Anchor # Branch[d]
        BY Zenon, <1>2, <2>1, <2>3, PrefixPoints DEF IsStrictPrefix
    <3>2. ASSUME i = Start PROVE FALSE
        BY <1>2, <2>3, <3>1, <3>2, SeqEqual
    <3>. QED
        BY <1>2, <3>1, <3>2
  <2>. QED
      BY <1>2, <2>2, <2>4
<1>. QED
    BY Zenon, <1>6, <1>7, <1>8

\* The branches a pass compares are those of the commits that wait and, if
\* none of these extends it, the path itself; one of them is at least the
\* path.
LEMMA SealedContenders ==
    ASSUME SealedInv, HasUnresolved
    PROVE  /\ Unresolved \subseteq Contenders
           /\ \A w \in Contenders :
                /\ w \in Commits /\ Source(w) >= Start /\ Source(w) <= Tip
                /\ \A i \in 1 .. Source(w) : Branch[w][i] = path[i]
           /\ \E b \in Contenders :
                /\ Len(Branch[b]) >= Tip /\ \A i \in 1 .. Tip : Branch[b][i] = path[i]
<1>. USE DEF SealedInv
<1>1. /\ path \in Seq(Commits) /\ Tip \in Nat
      /\ \A i \in 1 .. Tip : /\ path[i] \in Commits /\ Len(Branch[path[i]]) = i
                             /\ \A j \in 1 .. i : Branch[path[i]][j] = path[j]
    BY Zenon, PathPoints
<1>2. /\ Start \in Nat /\ Start <= Tip /\ ~AnchorMissing /\ Pending = {}
      /\ \A c \in Unresolved : Start <= Source(c)
      /\ Unresolved = {c \in Commits : rows[c] = "Created"}
    BY Zenon, SealedReplays
<1>3. /\ Unresolved \subseteq Reached
      /\ \A i \in Start + 1 .. Tip : path[i] \in Reached
      /\ \A d \in Reached :
            d \in Unresolved \/ \E i \in Start + 1 .. Tip : d = path[i]
    BY Zenon, SealedReach
<1>4. \A c \in Unresolved : /\ c \in Commits /\ Source(c) \in Nat /\ Source(c) <= Tip
                            /\ Len(Branch[c]) = Source(c) + 1
                            /\ \A i \in 1 .. Source(c) : Branch[c][i] = path[i]
    BY Zenon, <1>2, BranchPoints DEF WaitingOnPath
<1>5. \A c \in Unresolved : \A i \in 1 .. Tip : c # path[i]
    BY <1>1, <1>2 DEF PathProcessed, Tip
<1>6. Contenders = {c \in Reached : \A d \in Reached : IsPrefix(Branch[c], Branch[d]) => d = c}
    BY Zenon, <1>2 DEF Contenders
<1>7. ASSUME NEW c \in Unresolved PROVE c \in Contenders
  <2>. SUFFICES ASSUME NEW d \in Reached, IsPrefix(Branch[c], Branch[d]), d # c
                PROVE  FALSE
      BY ZenonT(30), <1>3, <1>6
  <2>. DEFINE n == Source(c) + 1
  <2>1. /\ Branch[c] \in Seq(Commits) /\ Len(Branch[c]) = n /\ n \in Nat /\ n >= 1
        /\ Branch[c][n] = c /\ d \in Commits /\ Branch[d] \in Seq(Commits)
    <3>1. c \in Commits /\ Source(c) \in Nat /\ Len(Branch[c]) = n
        BY Zenon, <1>4
    <3>2. d \in Commits
        BY Zenon DEF Reached, Replayable, Unresolved
    <3>. QED
        BY <3>1, <3>2, BranchPoints
  <2>2. n <= Len(Branch[d]) /\ Branch[d][n] = c
      BY <2>1, PrefixPoints
  <2>3. CASE d \in Unresolved
    <3>1. Len(Branch[d]) = Source(d) + 1 /\ Branch[d][Source(d) + 1] = d
        BY Zenon, <2>1, BranchPoints
    <3>2. n <= Source(d)
        BY SMTT(30), <1>4, <2>1, <2>2, <2>3, <3>1
    <3>. QED
        BY <1>1, <1>4, <1>5, <2>1, <2>2, <2>3, <3>2
  <2>4. CASE \E i \in Start + 1 .. Tip : d = path[i]
      BY SMTT(30), <2>4, <1>1, <1>2, <2>1, <2>2, <1>5
  <2>. QED
      BY Zenon, <1>3, <2>3, <2>4
<1>8. ASSUME NEW w \in Contenders
      PROVE  /\ w \in Commits /\ Source(w) >= Start /\ Source(w) <= Tip
             /\ \A i \in 1 .. Source(w) : Branch[w][i] = path[i]
    BY <1>3, <1>6, <1>2, <1>4, <1>1 DEF Source
<1>9. \E b \in Contenders :
         Len(Branch[b]) >= Tip /\ \A i \in 1 .. Tip : Branch[b][i] = path[i]
  <2>1. CASE \E c \in Unresolved : Source(c) = Tip
      BY <2>1, <1>1, <1>4, <1>7
  <2>2. CASE \A c \in Unresolved : Source(c) # Tip
    <3>1. PICK c \in Unresolved : Source(c) < Tip
        BY SMTT(30), <1>1, <1>2, <1>4, <2>2 DEF HasUnresolved
    <3>2. Start < Tip
        BY SMTT(30), <1>1, <1>2, <1>4, <3>1
    <3>. DEFINE b == path[Tip]
    <3>3. /\ b \in Reached /\ b \in Commits /\ Len(Branch[b]) = Tip
          /\ \A i \in 1 .. Tip : Branch[b][i] = path[i]
        BY <1>1, <1>2, <1>3, <3>2
    <3>4. ASSUME NEW d \in Reached, IsPrefix(Branch[b], Branch[d]) PROVE d = b
      <4>1. d \in Commits /\ Branch[d] \in Seq(Commits) /\ Branch[b] \in Seq(Commits)
          BY Zenon, <3>3, BranchPoints DEF Reached, Replayable, Unresolved
      <4>2. Tip <= Len(Branch[d]) /\ \A i \in 1 .. Tip : Branch[b][i] = Branch[d][i]
          BY SMTT(30), <3>3, <3>4, <4>1, PrefixPoints
      <4>3. CASE d \in Unresolved
        <5>1. Len(Branch[d]) = Tip
            BY <1>1, <1>4, <2>2, <4>2, <4>3
        <5>2. Branch[d][Len(Branch[d])] = d
            BY Zenon, <4>1, TreeAssumption
        <5>. QED
            BY SMTT(30), <1>1, <1>2, <3>2, <3>3, <4>2, <5>1, <5>2
      <4>4. CASE \E i \in Start + 1 .. Tip : d = path[i]
          BY <1>1, <1>2, <4>2, <4>4
      <4>. QED
          BY Zenon, <1>3, <4>3, <4>4
    <3>5. b \in Contenders
        BY Zenon, <1>6, <3>3, <3>4
    <3>. QED
        BY <1>1, <3>3, <3>5
  <2>. QED
      BY Zenon, <2>1, <2>2
<1>. QED
    BY Zenon, <1>7, <1>8, <1>9

\* Without an application message that waits there is no witness quorum.
LEMMA NoMailNoQuorum ==
    ASSUME Pending = {}, NEW w PROVE ~QuorumMet(Witnesses(w))
BY FS_EmptySet, PolicyAssumption DEF Witnesses, WitnessedEpochs, QuorumMet

\* The selected branch replaces at most the last commit of the path.
LEMMA SealedWinner ==
    ASSUME SealedInv, HasUnresolved, NEW w \in Contenders,
           Candidate(w) \in Selected(Tip, {Candidate(d) : d \in Contenders})
    PROVE  /\ w \in Commits /\ Source(w) >= Start /\ Source(w) <= Tip
           /\ Len(Branch[w]) >= Tip
           /\ \A i \in 1 .. Source(w) : Branch[w][i] = path[i]
<1>1. /\ w \in Commits /\ Source(w) >= Start /\ Source(w) <= Tip
      /\ \A i \in 1 .. Source(w) : Branch[w][i] = path[i]
    BY Zenon, SealedContenders
<1>2. PICK b \in Contenders : Len(Branch[b]) >= Tip
    BY Zenon, SealedContenders
<1>3. Pending = {} /\ ~AnchorMissing /\ Inv
    BY Zenon, SealedReplays DEF SealedInv
<1>4. ~(Len(Branch[w]) < Len(Branch[b]))
    BY Zenon, <1>3, NoMailNoQuorum, SelectedBounded
<1>5. b \in Commits
    BY Zenon, SealedContenders
<1>6. Len(Branch[b]) \in Nat /\ Len(Branch[w]) \in Nat /\ Tip \in Nat
    BY SMTT(30), <1>1, <1>5, BranchPoints, PathPoints
<1>. QED
    BY <1>1, <1>2, <1>4, <1>6

\* After a pass no commit waits, and the commits of the new path are the ones
\* whose rows say processed.
LEMMA SealedRows ==
    ASSUME SealedInv, HasUnresolved, NEW w \in Contenders,
           Candidate(w) \in Selected(Tip, {Candidate(d) : d \in Contenders}),
           NEW x \in Commits
    PROVE  /\ CommitDisposition(x, {w}, Contenders) # "Created"
           /\ CommitDisposition(x, {w}, Contenders) = "Processed"
                <=> \E i \in 1 .. Len(Branch[w]) : x = Branch[w][i]
<1>. USE DEF SealedInv
<1>1. /\ path \in Seq(Commits) /\ Tip \in Nat
      /\ \A i \in 1 .. Tip : path[i] \in Commits
    BY Zenon, PathPoints
<1>2. /\ Start \in Nat /\ Start <= Tip /\ Stale = {}
      /\ \A c \in Unresolved : Start <= Source(c)
      /\ Unresolved = {c \in Commits : rows[c] = "Created"}
    BY Zenon, SealedReplays
<1>3. /\ w \in Commits /\ Source(w) >= Start /\ Source(w) <= Tip
      /\ \A i \in 1 .. Source(w) : Branch[w][i] = path[i]
    BY Zenon, SealedWinner
<1>4. \A c \in Commits : /\ Source(c) \in Nat /\ Len(Branch[c]) = Source(c) + 1
                         /\ Branch[c][Source(c) + 1] = c
                         /\ \A i \in 1 .. Source(c) + 1 : Len(Branch[Branch[c][i]]) = i
    BY Zenon, BranchPoints
<1>5. \A d \in Contenders : d \in Commits
    BY Zenon, SealedContenders
<1>6. CASE x \in Suffix(w)
    BY <1>2, <1>6 DEF CommitDisposition, Suffix
<1>7. CASE x \notin Suffix(w) /\ \E d \in Contenders : x \in Suffix(d)
  <2>1. CommitDisposition(x, {w}, Contenders) = "EpochInvalidated"
      BY Zenon, <1>2, <1>7 DEF CommitDisposition
  <2>2. PICK d \in Contenders : \E j \in Start + 1 .. Len(Branch[d]) : x = Branch[d][j]
      BY Zenon, <1>7 DEF Suffix
  <2>3. Len(Branch[x]) > Start
      BY <1>2, <1>4, <1>5, <2>2
  <2>4. ASSUME NEW i \in 1 .. Len(Branch[w]), x = Branch[w][i] PROVE FALSE
    <3>1. Len(Branch[x]) = i
        BY Zenon, <1>3, <1>4, <2>4
    <3>. QED
        BY <1>2, <1>7, <2>3, <2>4, <3>1 DEF Suffix
  <2>. QED
      BY Zenon, <2>1, <2>4
<1>8. CASE \A d \in Contenders : x \notin Suffix(d)
  <2>1. CommitDisposition(x, {w}, Contenders) = rows[x]
      BY Zenon, <1>2, <1>8 DEF CommitDisposition
  <2>2. rows[x] # "Created"
    <3>. SUFFICES ASSUME rows[x] = "Created" PROVE FALSE
        BY Zenon
    <3>1. x \in Unresolved /\ x \in Contenders
        BY Zenon, <1>2, SealedContenders
    <3>. QED
        BY <1>2, <1>4, <1>8, <3>1 DEF Suffix
  <2>3. ASSUME rows[x] = "Processed"
        PROVE  \E i \in 1 .. Len(Branch[w]) : x = Branch[w][i]
    <3>1. PICK i \in 1 .. Tip : x = path[i]
        BY <1>1, <2>3 DEF PathProcessed, Tip
    <3>2. PICK b \in Contenders :
              Len(Branch[b]) >= Tip /\ \A j \in 1 .. Tip : Branch[b][j] = path[j]
        BY Zenon, SealedContenders
    <3>3. i <= Start
      <4>. SUFFICES ASSUME i > Start PROVE x \in Suffix(b)
          BY SMTT(30), <1>1, <1>2, <1>8, <3>2
      <4>1. Len(Branch[b]) \in Nat
          BY <1>4, <1>5, <3>2
      <4>2. i \in Start + 1 .. Len(Branch[b]) /\ Branch[b][i] = x
          BY SMTT(30), <1>1, <1>2, <3>1, <3>2, <4>1
      <4>. QED
          BY Zenon, <4>2 DEF Suffix
    <3>. QED
        BY SMTT(30), <1>2, <1>3, <1>4, <3>1, <3>3
  <2>4. ASSUME NEW i \in 1 .. Len(Branch[w]), x = Branch[w][i]
        PROVE  rows[x] = "Processed"
    <3>1. i <= Start
        BY SMTT(30), <1>2, <1>3, <1>4, <1>8, <2>4 DEF Suffix
    <3>2. x = path[i] /\ i \in 1 .. Tip
        BY SMTT(30), <1>1, <1>2, <1>3, <1>4, <2>4, <3>1
    <3>. QED
        BY <1>1, <3>2 DEF PathProcessed, Tip
  <2>. QED
      BY Zenon, <2>1, <2>2, <2>3, <2>4
<1>. QED
    BY Zenon, <1>6, <1>7, <1>8

\* A pass that selects a branch keeps the invariant.
LEMMA SealedSelect ==
    ASSUME SealedInv, Inv', ConvergeSelect
    PROVE  SealedInv' /\ Len(path') >= Len(path)
<1>. USE DEF SealedInv
<1>1. PICK w \in Contenders :
          /\ Candidate(w) \in Selected(Tip, {Candidate(d) : d \in Contenders})
          /\ Apply({w}, Contenders, Branch[w])
    BY ZenonT(30) DEF ConvergeSelect
<1>. DEFINE kept == IF Start = Tip THEN Retain(anchors, path) ELSE anchors
<1>2. HasUnresolved
    BY Zenon DEF ConvergeSelect
<1>3. /\ path' = Branch[w] /\ anchors' = Retain(kept, Branch[w])
      /\ rows' = [c \in Commits |-> CommitDisposition(c, {w}, Contenders)]
      /\ mail' = mail
    BY Zenon, SealedReplays, <1>1 DEF Inv, TypeOK, Apply
<1>4. /\ w \in Commits /\ Source(w) >= Start /\ Source(w) <= Tip
      /\ Len(Branch[w]) >= Tip
      /\ \A i \in 1 .. Source(w) : Branch[w][i] = path[i]
    BY ZenonT(30), <1>1, <1>2, SealedWinner
<1>5. /\ Source(w) \in Nat /\ Len(Branch[w]) = Source(w) + 1
      /\ Branch[w][Source(w) + 1] = w /\ Branch[w] \in Seq(Commits)
    BY Zenon, <1>4, BranchPoints
<1>6. Tip \in Nat /\ Tip' = Source(w) + 1 /\ Tip' >= Tip
    BY ZenonT(30), <1>3, <1>4, <1>5, PathPoints DEF Tip
<1>7. \A x \in Commits : /\ rows'[x] # "Created"
                         /\ rows'[x] = "Processed"
                              <=> \E i \in 1 .. Len(Branch[w]) : x = Branch[w][i]
    BY ZenonT(30), <1>1, <1>2, <1>3, SealedRows
<1>8. PathProcessed'
  <2>1. DOMAIN path' = 1 .. Len(Branch[w])
      BY <1>3, <1>5
  <2>. QED
      BY ZenonT(30), <1>3, <1>7, <2>1 DEF PathProcessed
<1>9. OnTree'
    BY ZenonT(30), <1>3, <1>5, <1>6 DEF OnTree
<1>10. WaitingOnPath'
    BY Zenon, <1>7 DEF WaitingOnPath
<1>11. NoMailWaits'
    BY ZenonT(30), <1>3 DEF NoMailWaits
<1>12. /\ DOMAIN kept \subseteq 0 .. Tip
       /\ \A e \in DOMAIN kept : \A i \in 1 .. e : kept[e][i] = path[i]
       /\ \A e \in Horizon .. Tip - 1 : e \in DOMAIN kept
       /\ Tip > 0 => Tip \in DOMAIN kept
       /\ Tip' > Tip => Tip \in DOMAIN kept
    BY SMTT(30), <1>6, PolicyAssumption, SealedReplays DEF Inv, AnchorsFiled, Anchored,
       HorizonRetained, Retain, Horizon, Tip, Minus
<1>13. /\ DOMAIN anchors' = {f \in DOMAIN kept : f >= Horizon'} \union {Tip'}
       /\ \A e \in DOMAIN anchors' : anchors'[e] = IF e = Tip' THEN path' ELSE kept[e]
    BY Zenon, <1>3 DEF Retain, Horizon, Tip
<1>. HIDE DEF kept
<1>14. Horizon \in Nat /\ Horizon' \in Nat /\ Horizon' >= Horizon
    BY SMTT(30), <1>5, <1>6, PolicyAssumption DEF Horizon, Minus
<1>15. HorizonRetained'
    BY SMTT(30), <1>4, <1>5, <1>6, <1>12, <1>14, <1>13 DEF HorizonRetained
<1>16. Anchored'
    BY SMTT(30), <1>5, <1>6, <1>13, <1>4, <1>12, <1>3 DEF Anchored
<1>17. Len(path') >= Len(path)
    BY Zenon, <1>6 DEF Tip
<1>. QED
    BY ZenonT(30), <1>8, <1>9, <1>10, <1>11, <1>15, <1>16, <1>17

\* A client that has just joined has an empty path and nothing waiting.
LEMMA SealedInit == Init => SealedInv
BY InitInv, PolicyAssumption DEF Init, Tip, PathProcessed, WaitingOnPath,
   NoMailWaits, HorizonRetained, Horizon, Minus, SealedInv, OnTree, Anchored

\* A state a sealed message is opened with is a state the client went through.
LEMMA SealedPeels ==
    ASSUME SealedInv, Sealed, NEW s \in Seq(Commits), Peels(s)
    PROVE  /\ Len(s) <= Tip /\ \A i \in 1 .. Len(s) : s[i] = path[i]
           /\ Len(s) < Tip => Len(s) \in DOMAIN anchors
<1>1. CASE s = path
    BY <1>1, PathPoints DEF Tip
<1>2. CASE Len(s) < Tip /\ Len(s) \in DOMAIN anchors /\ anchors[Len(s)] = s
    BY <1>2, PathPoints DEF SealedInv, Anchored
<1>. QED
    BY Zenon, <1>1, <1>2 DEF Peels

\* A commit that is opened waits on the path, or is of an epoch that is over.
LEMMA SealedIngestCommit ==
    ASSUME SealedInv, Sealed, Inv', NEW c \in Commits, IngestCommit(c)
    PROVE  SealedInv'
<1>. USE DEF SealedInv
<1>1. Tip \in Nat /\ Tip' = Tip /\ Horizon' = Horizon /\ Horizon \in Nat
    BY PathPoints, PolicyAssumption DEF IngestCommit, Tip, Horizon, Minus
<1>2. /\ rows[c] = "None" /\ rows \in [Commits -> States]
      /\ rows' = [rows EXCEPT ![c] = IF EntersConvergence(c) THEN "Created" ELSE "Failed"]
      /\ UNCHANGED << mail, path, anchors >> /\ Peels(Base(c))
    BY Zenon DEF IngestCommit, Inv, TypeOK
<1>3. PathProcessed'
    BY Zenon, <1>2 DEF PathProcessed
<1>4. HorizonRetained' /\ OnTree' /\ Anchored' /\ NoMailWaits'
    BY Zenon, <1>1, <1>2 DEF HorizonRetained, OnTree, Anchored, NoMailWaits
<1>5. WaitingOnPath'
  <2>1. /\ Source(c) \in Nat /\ Branch[c] \in Seq(Commits)
        /\ Len(Branch[c]) = Source(c) + 1
      BY Zenon, BranchPoints
  <2>2. /\ Base(c) \in Seq(Commits) /\ Len(Base(c)) = Source(c)
        /\ \A i \in 1 .. Source(c) : Base(c)[i] = Branch[c][i]
      BY SMTT(30), <2>1 DEF Base
  <2>3. Source(c) <= Tip /\ \A i \in 1 .. Source(c) : Branch[c][i] = path[i]
      BY Zenon, <1>2, <2>2, SealedPeels
  <2>4. EntersConvergence(c) => Source(c) >= Horizon
      BY SMTT(30), <1>1, <2>1, <2>3, PolicyAssumption DEF EntersConvergence, Horizon, Minus
  <2>. QED
      BY Zenon, <1>1, <1>2, <2>3, <2>4 DEF WaitingOnPath
<1>. QED
    BY Zenon, <1>3, <1>4, <1>5

\* An application message that is opened is processed, or too old.
LEMMA SealedIngestApp ==
    ASSUME SealedInv, Sealed, Inv', NEW a \in Apps, IngestApp(a)
    PROVE  SealedInv'
<1>. USE DEF SealedInv
<1>1. a.at \in Seq(Commits)
    BY ZenonT(30), InputAssumption, TreeAssumption, EmptySeq
<1>2. Epoch(a) \in Nat /\ Epoch(a) <= Tip /\ \A i \in 1 .. Epoch(a) : a.at[i] = path[i]
    BY <1>1, SealedPeels DEF IngestApp, Epoch
<1>3. IsPrefix(a.at, path)
    BY Zenon, <1>1, <1>2, PathPoints, PrefixPoints DEF Epoch, Tip
<1>4. Outcome(a) \in {"Failed", "Processed"}
    BY <1>2, <1>3, PathPoints DEF Outcome
<1>5. NoMailWaits'
    BY Zenon, <1>4 DEF IngestApp, NoMailWaits, Inv, TypeOK
<1>6. UNCHANGED << rows, path, anchors >>
    BY Zenon DEF IngestApp
<1>. QED
    BY SMTT(30), <1>5, <1>6 DEF PathProcessed, HorizonRetained, OnTree, Anchored,
       WaitingOnPath,
                            Horizon, Tip

\* A pass that selects nothing leaves everything as it is.
LEMMA SealedNone ==
    ASSUME SealedInv, Inv', ConvergeNone
    PROVE  SealedInv' /\ path' = path
<1>. USE DEF SealedInv
<1>1. Apply({}, Contenders, path)
    BY Zenon DEF ConvergeNone
<1>2. Stale = {} /\ Pending = {}
    BY Zenon, SealedReplays
<1>3. rows' = rows /\ mail' = mail /\ path' = path /\ anchors' = anchors
    BY Zenon, <1>2, <1>1 DEF CommitDisposition, Apply, Inv, TypeOK
<1>. QED
    BY <1>3 DEF PathProcessed, HorizonRetained, OnTree, Anchored, WaitingOnPath,
                      NoMailWaits, Horizon, Tip

\* Every step of such a client keeps the invariant and never shortens the path.
LEMMA SealedNext ==
    ASSUME Sealed, MaxCrashes = 0, SealedInv, [Next]_vars
    PROVE  SealedInv' /\ Len(path') >= Len(path)
<1>1. Inv'
    BY Zenon, NextInv DEF SealedInv
<1>2. Len(path) \in Nat
    BY Zenon, PathPoints DEF Tip
<1>3. CASE \E c \in Commits : IngestCommit(c)
  <2>1. SealedInv'
      BY Zenon, <1>1, <1>3, SealedIngestCommit
  <2>2. path' = path
      BY SMTT(30), <1>3 DEF IngestCommit
  <2>. QED
      BY <1>2, <2>1, <2>2
<1>4. CASE \E a \in Apps : IngestApp(a)
  <2>1. SealedInv'
      BY Zenon, <1>1, <1>4, SealedIngestApp
  <2>2. path' = path
      BY Zenon, <1>4 DEF IngestApp
  <2>. QED
      BY <1>2, <2>1, <2>2
<1>5. CASE \E a \in Apps : CrashInIngest(a)
    BY <1>5 DEF CrashInIngest, SealedInv, Inv, TypeOK
<1>6. CASE ConvergeSelect
    BY Zenon, <1>1, <1>6, SealedSelect
<1>7. CASE ConvergeNone
    BY SMTT(30), <1>1, <1>2, <1>7, SealedNone
<1>8. CASE ConvergeHalt \/ UNCHANGED vars
  <2>1. UNCHANGED << rows, mail, path, anchors >>
      BY Zenon, <1>8 DEF ConvergeHalt, vars
  <2>. QED
      BY <1>1, <1>2, <2>1 DEF SealedInv, PathProcessed, HorizonRetained, OnTree, Anchored,
                                    WaitingOnPath, NoMailWaits, Horizon, Tip
<1>. QED
    BY Zenon, <1>3, <1>4, <1>5, <1>6, <1>7, <1>8 DEF Next, Converge

\* The invariant says that the kept states are those of the path.
LEMMA SealedAnchored == SealedInv => PathAnchored
BY PathPoints, SeqEqual DEF SealedInv, PathAnchored, AnchorsOnPath, Anchored, Inv,
   AnchorsFiled, Tip

\* With a sealing transport and no crash in an ingest, for every tree of
\* commits and every policy: the rows, the path and the kept states agree, so
\* that a late commit is always replayed on its real parent.
THEOREM PathAnchoredHolds ==
    ASSUME Sealed, MaxCrashes = 0 PROVE Spec => []PathAnchored
<1>1. SealedInv /\ [Next]_vars => SealedInv'
    BY Zenon, SealedNext
<1>. QED
    BY SealedInit, <1>1, SealedAnchored, PTL DEF Spec

\* Under the same conditions no pass takes the client to an earlier epoch.
THEOREM EpochNeverRegressesHolds ==
    ASSUME Sealed, MaxCrashes = 0 PROVE Spec => EpochNeverRegresses
<1>1. SealedInv /\ [Next]_vars => SealedInv'
    BY Zenon, SealedNext
<1>2. SealedInv /\ [Next]_vars => [Len(path') >= Len(path)]_vars
    BY Zenon, SealedNext
<1>. QED
    BY SealedInit, <1>1, <1>2, PTL DEF Spec, EpochNeverRegresses

\* Nor does the group ever become Unrecoverable: the state to replay from is
\* always one of those kept.
THEOREM NeverHaltedHolds ==
    ASSUME Sealed, MaxCrashes = 0 PROVE Spec => []~halted
<1>1. SealedInv /\ [Next]_vars => SealedInv'
    BY Zenon, SealedNext
<1>2. Init => ~halted
    BY Zenon DEF Init
<1>3. SealedInv /\ ~halted /\ [Next]_vars => ~halted'
    BY ZenonT(30), SealedReplays DEF Next, vars, IngestCommit, IngestApp, CrashInIngest,
       Converge,
                           ConvergeSelect, ConvergeNone, ConvergeHalt, Apply
<1>. QED
    BY SealedInit, <1>1, <1>2, <1>3, PTL DEF Spec
=============================================================================
