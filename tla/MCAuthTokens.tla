---------------------------- MODULE MCAuthTokens ----------------------------
(* Instances of AuthTokens for TLC.  The concurrent requests are alike.     *)
EXTENDS AuthTokens, TLC

Symmetry == Permutations(Requests)
=============================================================================
