--------------------------- MODULE MCChatGateway ---------------------------
(* Instances of ChatGateway for TLC: two sockets and two matches, of which  *)
(* the user of one socket takes part in one and the other in both.         *)
EXTENDS ChatGateway, TLC

CONSTANTS s1, s2, m1, m2

Participation == (s1 :> {m1}) @@ (s2 :> {m1, m2})

Symmetry == Permutations(Subscribers)
=============================================================================
