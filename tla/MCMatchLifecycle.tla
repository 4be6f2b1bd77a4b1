-------------------------- MODULE MCMatchLifecycle --------------------------
(* Instances of MatchLifecycle for TLC: user ids are numbers, requests are  *)
(* interchangeable model values.                                           *)
EXTENDS MatchLifecycle, TLC

CrossingLikes == {<<1, 2>>, <<2, 1>>, <<2, 2>>}

Symmetry == Permutations(Requests)
=============================================================================
