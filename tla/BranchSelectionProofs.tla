------------------------ MODULE BranchSelectionProofs ------------------------
(***************************************************************************)
(* The comparison of branch scores is a strict total order, so that the    *)
(* selected branch does not depend on the order in which candidates are    *)
(* met, and application traffic can outweigh at most Override commits.     *)
(***************************************************************************)
EXTENDS BranchSelection, FiniteSetTheorems, WellFoundedInduction, TLAPS

\* The seven components compare_scores looks at.
Scores == [1 .. 7 -> Int]

\* A score does not beat itself.
LEMMA BeatsIrreflexive == \A s \in Scores : ~Beats(s, s)
BY DEF Beats, Scores

\* Of two scores that beat one another in a chain the first beats the last:
\* compare_scores is transitive.
THEOREM BeatsTransitive ==
    ASSUME NEW s \in Scores, NEW t \in Scores, NEW u \in Scores,
           Beats(s, t), Beats(t, u)
    PROVE  Beats(s, u)
<1>1. PICK i \in 1 .. 7 : s[i] > t[i] /\ \A k \in 1 .. i - 1 : s[k] = t[k]
      BY DEF Beats
<1>2. PICK j \in 1 .. 7 : t[j] > u[j] /\ \A k \in 1 .. j - 1 : t[k] = u[k]
      BY DEF Beats
<1>3. CASE i <= j
  <2>1. s[i] > u[i]
    <3>1. CASE i = j
          BY <1>1, <1>2, <3>1 DEF Scores
    <3>2. CASE i < j
          BY <1>1, <1>2, <3>2 DEF Scores
    <3>. QED  BY <1>3, <3>1, <3>2
  <2>2. \A k \in 1 .. i - 1 : s[k] = u[k]
        BY <1>1, <1>2, <1>3
  <2>. QED  BY <2>1, <2>2 DEF Beats
<1>4. CASE j < i
  <2>1. s[j] > u[j]
        BY <1>1, <1>2, <1>4 DEF Scores
  <2>2. \A k \in 1 .. j - 1 : s[k] = u[k]
        BY <1>1, <1>2, <1>4
  <2>. QED  BY <2>1, <2>2 DEF Beats
<1>. QED  BY <1>3, <1>4

\* Two scores that differ anywhere are ordered: with distinct tip digests
\* compare_scores never reports a tie.
THEOREM BeatsTotal ==
    ASSUME NEW s \in Scores, NEW t \in Scores, s # t
    PROVE  Beats(s, t) \/ Beats(t, s)
<1>. DEFINE D == {k \in 1 .. 7 : s[k] # t[k]}
<1>1. PICK i \in D : \A k \in D : i <= k
  <2>1. \E k \in 1 .. 7 : s[k] # t[k]
        BY DEF Scores
  <2>. QED  BY <2>1
<1>2. \A k \in 1 .. i - 1 : s[k] = t[k]
      BY <1>1
<1>3. s[i] > t[i] \/ t[i] > s[i]
      BY <1>1 DEF Scores
<1>. QED  BY <1>1, <1>2, <1>3 DEF Beats

\* At most one of two scores beats the other.
LEMMA BeatsAsymmetric ==
    ASSUME NEW s \in Scores, NEW t \in Scores, Beats(s, t)
    PROVE  ~Beats(t, s)
BY BeatsTransitive, BeatsIrreflexive

\* select_canonical_branch has at most one answer: two candidates that are
\* both selected have the same tip digest.
THEOREM SelectedUnique ==
    ASSUME NEW tip, NEW C, NEW c \in Selected(tip, C), NEW d \in Selected(tip, C),
           \A b \in C : Score(b) \in Scores /\ b.digest \in Int
    PROVE  c.digest = d.digest
<1>1. c \in C /\ d \in C /\ Eligible(tip, c) /\ Eligible(tip, d)
      BY DEF Selected
<1>2. ~Beats(Score(c), Score(d)) /\ ~Beats(Score(d), Score(c))
      BY <1>1 DEF Selected
<1>3. Score(c) = Score(d)
      BY <1>1, <1>2, BeatsTotal
<1>4. Score(c)[7] = 0 - c.digest /\ Score(d)[7] = 0 - d.digest
      BY DEF Score
<1>. QED  BY <1>1, <1>3, <1>4

\* A boost is a number of commits, at most max_witness_override_depth, and
\* zero without a quorum.
LEMMA BoostBounded ==
    ASSUME NEW W
    PROVE  Boost(W) \in 0 .. Override /\ (Boost(W) > 0 => QuorumMet(W))
BY PolicyAssumption DEF Boost

\* The selected branch is at most Override commits shorter than another
\* eligible candidate, and shorter only with a witness quorum.
THEOREM SelectedOverrideBounded ==
    ASSUME NEW tip, NEW C, NEW c \in Selected(tip, C), NEW d \in C,
           Eligible(tip, d), Depth(c) \in Nat, Depth(d) \in Nat
    PROVE  /\ Depth(c) + Override >= Depth(d)
           /\ Depth(c) < Depth(d) => QuorumMet(c.witnesses)
<1>1. ~Beats(Score(d), Score(c))
      BY DEF Selected
<1>2. /\ Score(c)[1] = Depth(c) + Boost(c.witnesses)
      /\ Score(d)[1] = Depth(d) + Boost(d.witnesses)
      BY DEF Score
<1>3. ~(Score(d)[1] > Score(c)[1])
  <2>1. \A j \in 1 .. 1 - 1 : Score(d)[j] = Score(c)[j]
        OBVIOUS
  <2>. QED  BY <1>1, <2>1 DEF Beats
<1>4. /\ Boost(c.witnesses) \in 0 .. Override /\ Boost(d.witnesses) \in 0 .. Override
      /\ Boost(c.witnesses) > 0 => QuorumMet(c.witnesses)
      BY BoostBounded
<1>5. Depth(d) + Boost(d.witnesses) <= Depth(c) + Boost(c.witnesses)
      BY <1>2, <1>3, <1>4
<1>6. Depth(c) + Override >= Depth(d)
      BY <1>4, <1>5, PolicyAssumption
<1>7. Depth(c) < Depth(d) => Boost(c.witnesses) > 0
      BY <1>4, <1>5, PolicyAssumption
<1>. QED  BY <1>4, <1>6, <1>7

-----------------------------------------------------------------------------
(* Existence.  A finite set has no infinite chain of strict subsets, which *)
(* gives least numbers and best candidates without an induction principle. *)

\* Every non-empty set of natural numbers has a least member.
LEMMA NatLeast ==
    ASSUME NEW X \in SUBSET Nat, X # {}
    PROVE  \E n \in X : \A m \in X : n <= m
<1>. DEFINE R == StrictSubsetOrdering(Nat)
            T == {0 .. n : n \in X}
<1>1. T \subseteq FiniteSubsetsOf(Nat) /\ T # {}
  <2>1. \A n \in X : IsFiniteSet(0 .. n)
        BY FS_Interval
  <2>2. \A n \in X : 0 .. n \in SUBSET Nat
        OBVIOUS
  <2>. QED  BY <2>1, <2>2, Zenon DEF FiniteSubsetsOf
<1>2. PICK U \in T : \A V \in T : ~ (<<V, U>> \in R)
      BY <1>1, WFMin, FS_StrictSubsetOrderingWellFounded, Zenon
<1>3. PICK n \in X : U = 0 .. n
      OBVIOUS
<1>4. ASSUME NEW m \in X, m < n PROVE FALSE
  <2>1. 0 .. m \subseteq 0 .. n /\ 0 .. m # 0 .. n
        BY <1>4
  <2>2. <<0 .. m, 0 .. n>> \in R
        BY <2>1 DEF StrictSubsetOrdering
  <2>. QED  BY ZenonT(30), <1>2, <1>3, <2>2
<1>. QED  BY <1>4

\* The minimum of a non-empty set of natural numbers is its least member.
LEMMA MinLeast ==
    ASSUME NEW X \in SUBSET Nat, X # {}
    PROVE  Min(X) \in X /\ \A m \in X : Min(X) <= m
BY ZenonT(30), NatLeast DEF Min

\* Among finitely many candidates one is beaten by no other.
LEMMA BestExists ==
    ASSUME NEW C, IsFiniteSet(C), C # {}, \A c \in C : Score(c) \in Scores
    PROVE  \E c \in C : \A d \in C : ~Beats(Score(d), Score(c))
<1>. DEFINE Above(c) == {d \in C : Beats(Score(d), Score(c))}
            T == {Above(c) : c \in C}
            R == StrictSubsetOrdering(C)
<1>1. T \subseteq FiniteSubsetsOf(C) /\ T # {}
  <2>1. \A c \in C : Above(c) \subseteq C /\ IsFiniteSet(Above(c))
        BY FS_Subset
  <2>. QED  BY ZenonT(30), <2>1 DEF FiniteSubsetsOf
<1>2. PICK U \in T : \A V \in T : ~ (<<V, U>> \in R)
      BY <1>1, WFMin, FS_StrictSubsetOrderingWellFounded, Zenon
<1>3. PICK c \in C : U = Above(c)
      OBVIOUS
<1>4. ASSUME NEW d \in Above(c) PROVE FALSE
  <2>1. Above(d) \subseteq Above(c)
        BY <1>4, BeatsTransitive
  <2>2. d \notin Above(d)
        BY <1>4, BeatsIrreflexive
  <2>3. <<Above(d), Above(c)>> \in R
        BY <2>1, <2>2, <1>4 DEF StrictSubsetOrdering
  <2>. QED  BY <1>2, <1>3, <1>4, <2>3
<1>. QED  BY <1>4

\* A witness score is a number: finitely many messages have finitely many
\* epochs and senders.
LEMMA WitnessScoreNat ==
    ASSUME NEW W, IsFiniteSet(W) PROVE WitnessScore(W) \in Nat
<1>. DEFINE P == {p \in WitnessedEpochs(W) \X (1 .. QuorumSenders) :
                     p[2] <= Cardinality(Senders(W, p[1]))}
<1>1. IsFiniteSet(WitnessedEpochs(W))
  <2>. DEFINE f == [w \in W |-> w.epoch]
  <2>1. f \in Surjection(W, WitnessedEpochs(W))
        BY DEF Surjection, WitnessedEpochs
  <2>. QED  BY <2>1, FS_Surjection
<1>2. IsFiniteSet(1 .. QuorumSenders)
      BY FS_Interval, PolicyAssumption
<1>3. IsFiniteSet(WitnessedEpochs(W) \X (1 .. QuorumSenders))
      BY ZenonT(30), <1>1, <1>2, FS_Product
<1>4. P \subseteq WitnessedEpochs(W) \X (1 .. QuorumSenders)
      OBVIOUS
<1>5. IsFiniteSet(P)
      BY <1>3, <1>4, FS_Subset
<1>. QED  BY <1>5, FS_CardinalityType DEF WitnessScore

\* select_canonical_branch always has an answer when a candidate is eligible.
THEOREM SelectedExists ==
    ASSUME NEW tip, NEW C, IsFiniteSet(C), \A c \in C : Score(c) \in Scores,
           \E c \in C : Eligible(tip, c)
    PROVE  Selected(tip, C) # {}
<1>. DEFINE E == {c \in C : Eligible(tip, c)}
<1>1. IsFiniteSet(E) /\ E # {} /\ \A c \in E : Score(c) \in Scores
  <2>1. E \subseteq C /\ E # {}
        OBVIOUS
  <2>. QED  BY <2>1, FS_Subset
<1>2. PICK c \in E : \A d \in E : ~Beats(Score(d), Score(c))
      BY <1>1, BestExists
<1>. QED  BY <1>2 DEF Selected
=============================================================================
