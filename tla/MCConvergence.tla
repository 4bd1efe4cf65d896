---------------------------- MODULE MCConvergence ----------------------------
(* Instances of Convergence for TLC.                                       *)
EXTENDS Convergence, TLC

CONSTANTS P, Q, Z

\* Q and P race, then P and Z may; with three authors at one epoch too.
RaceAuthor == 1 :> Q @@ 2 :> P @@ 3 :> P @@ 4 :> Z

\* P makes one commit and Q two; Z only receives.
DepthAuthor == 1 :> P @@ 2 :> Q @@ 3 :> Q

\* Two commits of each of two clients.
PairAuthor == 1 :> Q @@ 2 :> P @@ 3 :> P @@ 4 :> Q
=============================================================================
