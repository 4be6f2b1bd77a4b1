--------------------------- MODULE MatchLifecycle ---------------------------
(***************************************************************************)
(* matching-service: expressInterest, createMatch and unmatch, run by any  *)
(* number of concurrent HTTP requests over the tables match_interests and  *)
(* matches, and the MATCH_CREATED events they publish.                     *)
(*                                                                         *)
(* Each await is a step.  The interest and match scores, and the           *)
(* INTEREST_EXPRESSED event (which only asks scoring-service for a         *)
(* recalculation), carry nothing the properties tell apart.                *)
(***************************************************************************)
EXTENDS Naturals

CONSTANTS Users,      \* user ids; < is the order of their strings
          Requests,   \* concurrent requests to matching-service
          NoUser,     \* the users of a free request slot
          Likes,      \* bound: who may like or unmatch whom in this instance
          Faults      \* failures this instance allows

ASSUME MatchAssumption == Users \subseteq Nat /\ NoUser \notin Users /\ Likes \subseteq Users \X Users
                          /\ Faults \subseteq {"throw", "redeliver"}

VARIABLES
    interest,   \* match_interests: the pairs <<from, to>> recorded
    match,      \* matches: status of the row <<userAId, userBId>>, or "none"
    pc,         \* where each request is
    from, to,   \* its users: the caller and the other one
    published,  \* pairs of the MATCH_CREATED events chat-service has yet to handle
    seeded,     \* pairs whose MATCH_CREATED chat-service has handled
    broken      \* history: pairs for which a request or a handler failed half-way

matchVars == <<interest, match, pc, from, to, published, seeded, broken>>

Pairs == Users \X Users
SortedPairs == {p \in Pairs : p[1] <= p[2]}
MatchSteps == {"idle", "publishInterest", "checkMutual", "createMatch", "publishMatch", "endMatch"}

unsorted(x, y) == <<x, y>>              \* mutant: createMatch does not sort
canonical(x, y) == IF x < y THEN <<x, y>> ELSE <<y, x>>

Goto(r, step) == pc' = [pc EXCEPT ![r] = step] /\ UNCHANGED <<from, to>>

Finish(r) == /\ pc' = [pc EXCEPT ![r] = "idle"]
             /\ from' = [from EXCEPT ![r] = NoUser]
             /\ to' = [to EXCEPT ![r] = NoUser]

Begin(r, x, y, step) == /\ pc[r] = "idle"
                        /\ pc' = [pc EXCEPT ![r] = step]
                        /\ from' = [from EXCEPT ![r] = x]
                        /\ to' = [to EXCEPT ![r] = y]

----------------------------------------------------------------------------
\* expressInterest

\* matchInterest.upsert; nothing stops a caller from naming itself.
ExpressInterest(r, x, y) ==
    /\ Begin(r, x, y, "publishInterest")
    /\ interest' = interest \cup {<<x, y>>}
    /\ UNCHANGED <<match, published, seeded, broken>>

PublishInterest(r) ==
    /\ pc[r] = "publishInterest"
    /\ Goto(r, "checkMutual")
    /\ UNCHANGED <<interest, match, published, seeded, broken>>

CheckOwn(r) ==                          \* mutant: looks up its own row
    /\ pc[r] = "checkMutual"
    /\ IF <<from[r], to[r]>> \in interest THEN Goto(r, "createMatch") ELSE Finish(r)
    /\ UNCHANGED <<interest, match, published, seeded, broken>>

CheckOlder(r) ==                        \* mutant: only the larger id creates the match
    /\ pc[r] = "checkMutual"
    /\ IF <<to[r], from[r]>> \in interest /\ from[r] >= to[r]
       THEN Goto(r, "createMatch") ELSE Finish(r)
    /\ UNCHANGED <<interest, match, published, seeded, broken>>

CheckMutual(r) ==
    /\ pc[r] = "checkMutual"
    /\ \/ <<to[r], from[r]>> \in interest /\ Goto(r, "createMatch")
       \/ <<to[r], from[r]>> \notin interest /\ Finish(r)
    /\ UNCHANGED <<interest, match, published, seeded, broken>>

----------------------------------------------------------------------------
\* createMatch: the upsert creates the row or sets it back to ACTIVE.

CreateMatch(r) ==
    /\ pc[r] = "createMatch"
    /\ match' = [match EXCEPT ![canonical(from[r], to[r])] = "ACTIVE"]
    /\ Goto(r, "publishMatch")
    /\ UNCHANGED <<interest, published, seeded, broken>>

PublishUnsorted(r) ==                   \* mutant: the event names caller and target
    /\ pc[r] = "publishMatch"
    /\ published' = published \cup {<<from[r], to[r]>>}
    /\ Finish(r)
    /\ UNCHANGED <<interest, match, seeded, broken>>

PublishMatch(r) ==
    /\ pc[r] = "publishMatch"
    /\ published' = published \cup {canonical(from[r], to[r])}
    /\ Finish(r)
    /\ UNCHANGED <<interest, match, seeded, broken>>

----------------------------------------------------------------------------
\* unmatch: the row is found and the caller takes part in it, then it is ended.

FindMatch(r, x, y) ==
    /\ match[canonical(x, y)] # "none"
    /\ Begin(r, x, y, "endMatch")
    /\ UNCHANGED <<interest, match, published, seeded, broken>>

EndMatch(r) ==
    /\ pc[r] = "endMatch"
    /\ match' = [match EXCEPT ![canonical(from[r], to[r])] = "ENDED"]
    /\ Finish(r)
    /\ UNCHANGED <<interest, published, seeded, broken>>

\* An awaited call rejects or the process dies: the request ends where it is.
RequestFails(r) ==
    /\ "throw" \in Faults /\ pc[r] # "idle"
    /\ broken' = broken \cup {canonical(from[r], to[r])}
    /\ Finish(r)
    /\ UNCHANGED <<interest, match, published, seeded>>

----------------------------------------------------------------------------
\* KafkaEventBus.subscribe: the handler of chat-service's consumer group.

Handled(p) == /\ p \in published
              /\ seeded' = seeded \cup {p}
              /\ \/ published' = published \ {p}
                 \/ "redeliver" \in Faults /\ published' = published
              /\ UNCHANGED <<interest, match, pc, from, to, broken>>

\* The handler's error is logged and the offset moves on.
HandlerFails(p) == /\ "throw" \in Faults /\ p \in published
                   /\ published' = published \ {p}
                   /\ broken' = broken \cup {p}
                   /\ UNCHANGED <<interest, match, pc, from, to, seeded>>

----------------------------------------------------------------------------
MatchInit == /\ interest = {}
             /\ match = [p \in Pairs |-> "none"]
             /\ pc = [r \in Requests |-> "idle"]
             /\ from = [r \in Requests |-> NoUser]
             /\ to = [r \in Requests |-> NoUser]
             /\ published = {} /\ seeded = {} /\ broken = {}

Continue(r) == \/ PublishInterest(r) \/ CheckMutual(r) \/ CreateMatch(r)
               \/ PublishMatch(r) \/ EndMatch(r) \/ RequestFails(r)

Deliver(p) == Handled(p) \/ HandlerFails(p)

MatchNext == \/ \E r \in Requests, like \in Likes : \/ ExpressInterest(r, like[1], like[2])
                                                \/ FindMatch(r, like[1], like[2])
             \/ \E r \in Requests : Continue(r)
             \/ \E p \in Pairs : Deliver(p)

MatchSpec == MatchInit /\ [][MatchNext]_matchVars

MatchFairness == /\ \A r \in Requests : WF_matchVars(Continue(r))
                 /\ \A p \in Pairs : WF_matchVars(Deliver(p))

MatchFairSpec == MatchSpec /\ MatchFairness

----------------------------------------------------------------------------
(* Types; a row of matches and every MATCH_CREATED event name their users  *)
(* in sorted order (createMatch).                                          *)
MatchTypeOK ==
    /\ interest \subseteq Pairs
    /\ match \in [Pairs -> {"none", "ACTIVE", "ENDED"}]
    /\ pc \in [Requests -> MatchSteps]
    /\ from \in [Requests -> Users \cup {NoUser}]
    /\ to \in [Requests -> Users \cup {NoUser}]
    /\ \A r \in Requests : pc[r] # "idle" => from[r] \in Users /\ to[r] \in Users
    /\ {p \in Pairs : match[p] # "none"} \subseteq SortedPairs
    /\ published \subseteq SortedPairs /\ seeded \subseteq SortedPairs /\ broken \subseteq SortedPairs

Mutual(x, y) == <<x, y>> \in interest /\ <<y, x>> \in interest
On(r, p) == pc[r] # "idle" /\ canonical(from[r], to[r]) = p

(* A match row exists only between two users who both expressed interest,  *)
(* and each unordered pair of users has one row: whichever of two crossing *)
(* requests creates it (expressInterest, createMatch).                     *)
MutualOnly ==
    \A x, y \in Users : match[<<x, y>>] # "none" =>
        /\ Mutual(x, y)
        /\ x # y => match[<<y, x>>] = "none"

(* Two crossing expressInterest requests cannot both miss each other: once *)
(* both interests are recorded there is a match, or a request that will    *)
(* still find the other row, or one of the requests failed.                *)
NoMissedMatch ==
    \A x, y \in Users : Mutual(x, y) =>
        LET p == canonical(x, y) IN
        \/ match[p] # "none"
        \/ \E r \in Requests : /\ On(r, p)
                               /\ pc[r] \in {"publishInterest", "checkMutual", "createMatch"}
        \/ p \in broken

(* A match is announced to chat-service: its event is handled, in the      *)
(* topic, or about to be published by the request that made the row, or    *)
(* something failed for that pair.                                         *)
MatchAnnounced ==
    \A p \in Pairs : match[p] # "none" =>
        \/ p \in seeded \cup published \cup broken
        \/ \E r \in Requests : On(r, p) /\ pc[r] = "publishMatch"

(* Mutual interest leads to a match chat-service knows of, if nothing      *)
(* fails for the pair.                                                     *)
MatchSeeded ==
    \A x, y \in Users : Mutual(x, y) ~> canonical(x, y) \in seeded \cup broken

=============================================================================
