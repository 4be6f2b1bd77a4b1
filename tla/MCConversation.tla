--------------------------- MODULE MCConversation ---------------------------
(* An instance of Conversation for TLC: one match of two users, and a third *)
(* user who is no member.  Requests are interchangeable, and so are the two *)
(* members.                                                                 *)
EXTENDS Conversation, TLC

CONSTANTS alice, bob

Pair == [m \in Matches |-> {alice, bob}]

Symmetry == Permutations(Requests) \cup Permutations({alice, bob})
=============================================================================
