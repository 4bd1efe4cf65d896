--------------------------- MODULE BranchSelection ---------------------------
(***************************************************************************)
(* The deterministic branch-selection policy of the engine's canonicalizer *)
(* (crates/cgka-engine/src/convergence.rs).  A candidate branch is a       *)
(* record                                                                  *)
(*                                                                         *)
(*   [fork, tip, priority, committer, digest, witnesses]                   *)
(*                                                                         *)
(* of two epochs, the ordering class of its tip commit (0 privileged,      *)
(* 1 ordinary), the ranks of its committer's identity and of its digest in *)
(* their byte order, and the set of application messages [epoch, sender,   *)
(* id] that witness it.  Selecting takes the candidate whose score no      *)
(* other score beats.                                                      *)
(***************************************************************************)
EXTENDS Integers, FiniteSets, FiniteSetsExt

CONSTANTS
    MaxRewind,      \* max_rewind_commits
    QuorumSenders,  \* witness_quorum_senders_per_epoch
    QuorumEpochs,   \* witness_quorum_epochs
    Override        \* max_witness_override_depth

\* ConvergencePolicy::validate refuses any other policy.
ASSUME PolicyAssumption ==
    /\ MaxRewind \in Nat /\ QuorumSenders \in Nat /\ QuorumEpochs \in Nat
    /\ Override \in Nat /\ Override <= MaxRewind

\* u64::saturating_sub.
Minus(m, n) == IF m >= n THEN m - n ELSE 0

\* witnesses_by_epoch: the distinct senders that witness epoch e.
Senders(W, e) == {w.sender : w \in {v \in W : v.epoch = e}}

WitnessedEpochs(W) == {w.epoch : w \in W}

\* witness_quorum_met.
QuorumMet(W) ==
    /\ QuorumSenders # 0 /\ QuorumEpochs # 0
    /\ Cardinality({e \in WitnessedEpochs(W) :
                       Cardinality(Senders(W, e)) >= QuorumSenders}) >= QuorumEpochs

BoostPerSender(W) == IF QuorumMet(W) THEN Override * Cardinality(W) ELSE 0

\* witness_depth_boost.
Boost(W) == IF QuorumMet(W) THEN Override ELSE 0

\* app_witness_score: every epoch adds one for each of its senders up to the
\* quorum.
WitnessScore(W) ==
    Cardinality({p \in WitnessedEpochs(W) \X (1 .. QuorumSenders) :
                    p[2] <= Cardinality(Senders(W, p[1]))})

\* valid_commit_depth.
Depth(c) == Minus(c.tip, c.fork)

\* BranchCandidate::score.  Every component is oriented so that more is better.
Score(c) ==
    << Depth(c) + Boost(c.witnesses),
       IF QuorumMet(c.witnesses) THEN 1 ELSE 0,
       Depth(c),
       WitnessScore(c.witnesses),
       0 - c.priority,
       0 - c.committer,
       0 - c.digest >>

BeatsWithoutDigest(s, t) ==
    \E i \in 1 .. 6 : s[i] > t[i] /\ \A j \in 1 .. i - 1 : s[j] = t[j]

BeatsByKey(s, t) ==
    \E i \in 5 .. 7 : s[i] > t[i] /\ \A j \in 5 .. i - 1 : s[j] = t[j]

\* compare_scores: s is strictly better than t.
Beats(s, t) ==
    \E i \in 1 .. 7 : s[i] > t[i] /\ \A j \in 1 .. i - 1 : s[j] = t[j]

\* is_branch_eligible.
Eligible(tip, c) == Minus(tip, c.fork) <= MaxRewind

\* select_canonical_branch: the best of the eligible candidates of C.
Selected(tip, C) ==
    {c \in C : /\ Eligible(tip, c)
               /\ \A d \in C : Eligible(tip, d) => ~Beats(Score(d), Score(c))}
=============================================================================
