------------------------ MODULE MCCanonicalization ------------------------
EXTENDS Canonicalization, TLC

\* Branches 1-4, 1-6 and 2-3-5-7, 2-8 from the joined state.
TreeBranch ==
    (1 :> <<1>>) @@ (2 :> <<2>>) @@ (3 :> <<2, 3>>) @@ (4 :> <<1, 4>>)
        @@ (5 :> <<2, 3, 5>>) @@ (6 :> <<1, 6>>) @@ (7 :> <<2, 3, 5, 7>>) @@ (8 :> <<2, 8>>)
TreePriority == [c \in Commits |-> IF c = 2 THEN 0 ELSE 1]
TreeCommitter == [c \in Commits |-> c % 2]
Tree == [c \in Commits |-> TreeBranch[c]]

\* Two senders on commit 1, one of them twice, and one sender on commit 3.
TreeApps ==
    {[at |-> <<1>>, sender |-> "p", id |-> 1], [at |-> <<1>>, sender |-> "q", id |-> 2],
     [at |-> <<1>>, sender |-> "p", id |-> 3], [at |-> <<2, 3>>, sender |-> "p", id |-> 4]}
\* Two senders on commit 1, one of them twice.
WitnessApps == {a \in TreeApps : a.at = <<1>>}
=============================================================================
