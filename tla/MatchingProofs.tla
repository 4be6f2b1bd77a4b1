--------------------------- MODULE MatchingProofs ---------------------------
(***************************************************************************)
(* Theorems about MatchLifecycle, for every set of users, any number of    *)
(* concurrent requests and every combination of Faults, and about          *)
(* Discovery, for any rows, page and limit.  The two modules share no      *)
(* state: they are the two halves of MatchingService.                      *)
(***************************************************************************)
EXTENDS MatchLifecycle, Discovery, SequenceTheorems, FiniteSetTheorems, TLAPS

----------------------------------------------------------------------------
\* MatchLifecycle

USE MatchAssumption

(* A row is sorted and stands on two recorded interests.                   *)
RowsMutual == \A x, y \in Users : match[<<x, y>>] # "none" => x <= y /\ Mutual(x, y)

(* What a request has established when it reaches a step.                  *)
Established(r) ==
    /\ pc[r] \in {"publishInterest", "checkMutual"} => <<from[r], to[r]>> \in interest
    /\ pc[r] \in {"createMatch", "publishMatch"} => Mutual(from[r], to[r])
    /\ pc[r] = "endMatch" => match[canonical(from[r], to[r])] # "none"

RequestsSound == \A r \in Requests : Established(r)

MatchInv == MatchTypeOK /\ RowsMutual /\ RequestsSound /\ NoMissedMatch /\ MatchAnnounced

LEMMA CanonicalPair ==
  ASSUME NEW x \in Users, NEW y \in Users
  PROVE  /\ canonical(x, y) \in Pairs /\ canonical(x, y) \in SortedPairs
         /\ canonical(x, y) = canonical(y, x)
         /\ canonical(x, y) = <<x, y>> \/ canonical(x, y) = <<y, x>>
         /\ \A a, b \in Users : canonical(x, y) = <<a, b>> => a <= b
  BY DEF canonical, Pairs, SortedPairs

LEMMA SamePair ==
  ASSUME NEW a \in Users, NEW b \in Users, NEW x \in Users, NEW y \in Users,
         canonical(a, b) = canonical(x, y)
  PROVE  (a = x /\ b = y) \/ (a = y /\ b = x)
  BY DEF canonical

LEMMA MatchInitInv == MatchInit => MatchInv
  BY DEF MatchInit, MatchInv, MatchTypeOK, RowsMutual, RequestsSound, Established,
         NoMissedMatch, MatchAnnounced, Mutual, On, Pairs, SortedPairs, MatchSteps

LEMMA MatchTypeStep ==
  ASSUME MatchTypeOK, [MatchNext]_matchVars
  PROVE  MatchTypeOK'
  <1> USE DEF MatchTypeOK, MatchSteps, Goto, Finish
  <1>1. ASSUME NEW r \in Requests, NEW like \in Likes, ExpressInterest(r, like[1], like[2])
        PROVE  MatchTypeOK'
    <2>1. like[1] \in Users /\ like[2] \in Users
      OBVIOUS
    <2> QED  BY <1>1, <2>1 DEF ExpressInterest, Begin, Pairs
  <1>2. ASSUME NEW r \in Requests, NEW like \in Likes, FindMatch(r, like[1], like[2])
        PROVE  MatchTypeOK'
    <2>1. like[1] \in Users /\ like[2] \in Users
      OBVIOUS
    <2> QED  BY <1>2, <2>1 DEF FindMatch, Begin
  <1>3. ASSUME NEW r \in Requests, PublishInterest(r) PROVE MatchTypeOK'
    BY <1>3 DEF PublishInterest
  <1>4. ASSUME NEW r \in Requests, CheckMutual(r) PROVE MatchTypeOK'
    BY <1>4 DEF CheckMutual
  <1>5. ASSUME NEW r \in Requests, CreateMatch(r) PROVE MatchTypeOK'
    <2>1. canonical(from[r], to[r]) \in Pairs /\ canonical(from[r], to[r]) \in SortedPairs
      BY <1>5, CanonicalPair DEF CreateMatch
    <2> QED  BY <1>5, <2>1 DEF CreateMatch
  <1>6. ASSUME NEW r \in Requests, PublishMatch(r) PROVE MatchTypeOK'
    <2>1. canonical(from[r], to[r]) \in Pairs /\ canonical(from[r], to[r]) \in SortedPairs
      BY <1>6, CanonicalPair DEF PublishMatch
    <2> QED  BY <1>6, <2>1 DEF PublishMatch
  <1>7. ASSUME NEW r \in Requests, EndMatch(r) PROVE MatchTypeOK'
    <2>1. canonical(from[r], to[r]) \in Pairs /\ canonical(from[r], to[r]) \in SortedPairs
      BY <1>7, CanonicalPair DEF EndMatch
    <2> QED  BY <1>7, <2>1 DEF EndMatch
  <1>8. ASSUME NEW r \in Requests, RequestFails(r) PROVE MatchTypeOK'
    <2>1. canonical(from[r], to[r]) \in Pairs /\ canonical(from[r], to[r]) \in SortedPairs
      BY <1>8, CanonicalPair DEF RequestFails
    <2> QED  BY <1>8, <2>1 DEF RequestFails
  <1>9. ASSUME NEW p \in Pairs, Deliver(p) PROVE MatchTypeOK'
    BY <1>9 DEF Deliver, Handled, HandlerFails
  <1>10. CASE UNCHANGED matchVars
    BY <1>10 DEF matchVars
  <1> QED
    BY <1>1, <1>2, <1>3, <1>4, <1>5, <1>6, <1>7, <1>8, <1>9, <1>10 DEF MatchNext, Continue

----------------------------------------------------------------------------
\* What a step of one request leaves alone: the other requests, and the past.

LEMMA InterestGrows ==
  ASSUME [MatchNext]_matchVars
  PROVE  interest \subseteq interest'
  BY DEF MatchNext, Continue, Deliver, matchVars, ExpressInterest, FindMatch, PublishInterest,
         CheckMutual, CreateMatch, PublishMatch, EndMatch, RequestFails, Handled, HandlerFails

LEMMA RowsStay ==
  ASSUME MatchTypeOK, [MatchNext]_matchVars, NEW p \in Pairs, match[p] # "none"
  PROVE  match'[p] # "none"
  BY DEF MatchTypeOK, MatchNext, Continue, Deliver, matchVars, ExpressInterest, FindMatch, PublishInterest,
         CheckMutual, CreateMatch, PublishMatch, EndMatch, RequestFails, Handled, HandlerFails

LEMMA RowsMutualStep ==
  ASSUME MatchInv, [MatchNext]_matchVars
  PROVE  RowsMutual'
  <1> SUFFICES ASSUME NEW x \in Users, NEW y \in Users, match'[<<x, y>>] # "none"
               PROVE  x <= y /\ Mutual(x, y)'
    BY DEF RowsMutual
  <1>1. CASE match[<<x, y>>] # "none"
    BY <1>1, InterestGrows DEF MatchInv, RowsMutual, Mutual
  <1>2. CASE match[<<x, y>>] = "none"
    <2>1. PICK r \in Requests : CreateMatch(r) \/ EndMatch(r)
      BY <1>2 DEF MatchNext, Continue, Deliver, matchVars, ExpressInterest, FindMatch, PublishInterest,
             CheckMutual, PublishMatch, RequestFails, Handled, HandlerFails
    <2>2. from[r] \in Users /\ to[r] \in Users
      BY <2>1 DEF CreateMatch, EndMatch, MatchInv, MatchTypeOK
    <2>3. canonical(from[r], to[r]) = <<x, y>>
      BY <1>2, <2>1, <2>2, CanonicalPair DEF CreateMatch, EndMatch, MatchInv, MatchTypeOK, Pairs
    <2>4. pc[r] = "createMatch"
      BY <1>2, <2>1, <2>3 DEF CreateMatch, EndMatch, MatchInv, RequestsSound, Established
    <2>5. Mutual(from[r], to[r])
      BY <2>4 DEF MatchInv, RequestsSound, Established
    <2>6. x <= y
      <3>1. \A n, k \in Users : n \in Nat /\ k \in Nat
        OBVIOUS
      <3> QED  BY <2>2, <2>3, <3>1 DEF canonical
    <2>7. (from[r] = x /\ to[r] = y) \/ (from[r] = y /\ to[r] = x)
      BY <2>2, <2>3 DEF canonical
    <2>8. Mutual(x, y)
      BY <2>5, <2>7 DEF Mutual
    <2> QED  BY <2>6, <2>8, InterestGrows DEF Mutual
  <1> QED  BY <1>1, <1>2

\* A request either waits, or moves on alone.
LEMMA Alone ==
  ASSUME MatchTypeOK, [MatchNext]_matchVars, NEW r \in Requests
  PROVE  \/ pc'[r] = pc[r] /\ from'[r] = from[r] /\ to'[r] = to[r]
         \/ PublishInterest(r) \/ CheckMutual(r) \/ CreateMatch(r) \/ PublishMatch(r)
         \/ EndMatch(r) \/ RequestFails(r)
         \/ \E like \in Likes : ExpressInterest(r, like[1], like[2]) \/ FindMatch(r, like[1], like[2])
  <1> USE DEF MatchTypeOK, Goto, Finish
  <1>1. ASSUME NEW q \in Requests, q # r,
               \/ Continue(q)
               \/ \E like \in Likes : ExpressInterest(q, like[1], like[2]) \/ FindMatch(q, like[1], like[2])
        PROVE  pc'[r] = pc[r] /\ from'[r] = from[r] /\ to'[r] = to[r]
    BY <1>1 DEF Continue, ExpressInterest, FindMatch, Begin, PublishInterest, CheckMutual,
                CreateMatch, PublishMatch, EndMatch, RequestFails
  <1>2. ASSUME NEW p \in Pairs, Deliver(p)
        PROVE  pc'[r] = pc[r] /\ from'[r] = from[r] /\ to'[r] = to[r]
    BY <1>2 DEF Deliver, Handled, HandlerFails
  <1> QED  BY <1>1, <1>2 DEF MatchNext, Continue, matchVars

LEMMA RequestsSoundStep ==
  ASSUME MatchInv, [MatchNext]_matchVars
  PROVE  RequestsSound'
  <1> SUFFICES ASSUME NEW r \in Requests PROVE Established(r)'
    BY DEF RequestsSound
  <1> USE DEF MatchInv, Goto, Finish
  <1>0. Established(r) /\ (pc[r] # "idle" => from[r] \in Users /\ to[r] \in Users)
    BY DEF RequestsSound, MatchTypeOK
  <1>1. CASE pc'[r] = pc[r] /\ from'[r] = from[r] /\ to'[r] = to[r]
    <2>1. pc[r] = "endMatch" => canonical(from[r], to[r]) \in Pairs
      BY <1>0, CanonicalPair
    <2> QED  BY <1>0, <1>1, <2>1, InterestGrows, RowsStay DEF Established, Mutual
  <1>2. CASE PublishInterest(r)
    BY <1>0, <1>2 DEF PublishInterest, Established, MatchTypeOK
  <1>3. CASE CheckMutual(r)
    BY <1>0, <1>3 DEF CheckMutual, Established, Mutual, MatchTypeOK
  <1>4. CASE CreateMatch(r)
    BY <1>0, <1>4 DEF CreateMatch, Established, Mutual, MatchTypeOK
  <1>5. CASE PublishMatch(r) \/ EndMatch(r) \/ RequestFails(r)
    BY <1>5 DEF PublishMatch, EndMatch, RequestFails, Established, MatchTypeOK
  <1>6. ASSUME NEW like \in Likes, ExpressInterest(r, like[1], like[2]) PROVE Established(r)'
    BY <1>6 DEF ExpressInterest, Begin, Established, MatchTypeOK
  <1>7. ASSUME NEW like \in Likes, FindMatch(r, like[1], like[2]) PROVE Established(r)'
    BY <1>7 DEF FindMatch, Begin, Established, MatchTypeOK
  <1> QED  BY <1>1, <1>2, <1>3, <1>4, <1>5, <1>6, <1>7, Alone

LEMMA BrokenGrows ==
  ASSUME [MatchNext]_matchVars
  PROVE  broken \subseteq broken'
  BY DEF MatchNext, Continue, Deliver, matchVars, ExpressInterest, FindMatch, PublishInterest,
         CheckMutual, CreateMatch, PublishMatch, EndMatch, RequestFails, Handled, HandlerFails

LEMMA NoMissedMatchStep ==
  ASSUME MatchInv, [MatchNext]_matchVars
  PROVE  NoMissedMatch'
  <1> DEFINE Hunting(r, p) == On(r, p) /\ pc[r] \in {"publishInterest", "checkMutual", "createMatch"}
  <1> SUFFICES ASSUME NEW x \in Users, NEW y \in Users, Mutual(x, y)'
               PROVE  \/ match'[canonical(x, y)] # "none"
                      \/ \E r \in Requests : Hunting(r, canonical(x, y))'
                      \/ canonical(x, y) \in broken'
    BY DEF NoMissedMatch
  <1> DEFINE p == canonical(x, y)
  <1>0. p \in Pairs /\ MatchTypeOK
    BY CanonicalPair DEF MatchInv
  \* The second interest is recorded: its request goes on to look for the first.
  <1>1. CASE ~Mutual(x, y)
    <2>0. <<x, y>> \in interest' \ interest \/ <<y, x>> \in interest' \ interest
      BY <1>1 DEF Mutual
    <2>1. PICK r \in Requests, like \in Likes :
            /\ ExpressInterest(r, like[1], like[2])
            /\ <<like[1], like[2]>> \in {<<x, y>>, <<y, x>>}
      BY <2>0 DEF Mutual, MatchNext, Continue, Deliver, matchVars, ExpressInterest, FindMatch,
             PublishInterest, CheckMutual, CreateMatch, PublishMatch, EndMatch, RequestFails,
             Handled, HandlerFails
    <2>2. canonical(like[1], like[2]) = p
      BY <2>1, CanonicalPair DEF canonical
    <2>3. pc'[r] = "publishInterest" /\ from'[r] = like[1] /\ to'[r] = like[2]
      BY <1>0, <2>1 DEF ExpressInterest, Begin, MatchTypeOK
    <2> QED  BY <2>2, <2>3 DEF On, canonical
  <1>2. CASE Mutual(x, y) /\ match[p] # "none"
    BY <1>0, <1>2, RowsStay
  <1>3. CASE p \in broken
    BY <1>3, BrokenGrows
  \* The request that hunts for the other interest moves on.
  <1>4. ASSUME Mutual(x, y), NEW r \in Requests, Hunting(r, p)
        PROVE  match'[p] # "none" \/ Hunting(r, p)' \/ p \in broken'
    <2>1. from[r] \in Users /\ to[r] \in Users /\ canonical(from[r], to[r]) = p
      BY <1>0, <1>4 DEF On, MatchTypeOK
    <2>2. <<to[r], from[r]>> \in interest
      <3>1. (from[r] = x /\ to[r] = y) \/ (from[r] = y /\ to[r] = x)
        <4>1. PICK a \in Users, b \in Users : a = from[r] /\ b = to[r]
          BY <2>1
        <4>2. canonical(a, b) = canonical(x, y)
          BY <2>1, <4>1
        <4>3. (a = x /\ b = y) \/ (a = y /\ b = x)
          BY <4>2, SamePair
        <4> QED  BY <4>1, <4>3
      <3>2. <<x, y>> \in interest /\ <<y, x>> \in interest
        BY <1>4 DEF Mutual
      <3> QED  BY <3>1, <3>2
    <2>3. CASE pc'[r] = pc[r] /\ from'[r] = from[r] /\ to'[r] = to[r]
      BY <1>4, <2>3 DEF On, canonical
    <2>4. CASE PublishInterest(r)
      <3>1. pc'[r] = "checkMutual" /\ from'[r] = from[r] /\ to'[r] = to[r]
        BY <1>0, <2>4 DEF PublishInterest, Goto, MatchTypeOK
      <3> QED  BY <2>1, <3>1 DEF On, canonical
    <2>5. CASE CheckMutual(r)
      <3>1. pc'[r] = "createMatch" /\ from'[r] = from[r] /\ to'[r] = to[r]
        BY <1>0, <2>2, <2>5 DEF CheckMutual, Goto, MatchTypeOK
      <3> QED  BY <2>1, <3>1 DEF On, canonical
    <2>6. CASE CreateMatch(r)
      BY <1>0, <2>1, <2>6 DEF CreateMatch, MatchTypeOK
    <2>7. CASE RequestFails(r)
      BY <2>1, <2>7 DEF RequestFails
    <2>8. /\ ~PublishMatch(r) /\ ~EndMatch(r)
          /\ \A like \in Likes : ~ExpressInterest(r, like[1], like[2]) /\ ~FindMatch(r, like[1], like[2])
      BY <1>4 DEF PublishMatch, EndMatch, ExpressInterest, FindMatch, Begin
    <2> QED  BY <1>0, <2>3, <2>4, <2>5, <2>6, <2>7, <2>8, Alone
  <1>5. Mutual(x, y) => match[p] # "none" \/ p \in broken \/ \E r \in Requests : Hunting(r, p)
    BY DEF MatchInv, NoMissedMatch
  <1> QED  BY <1>1, <1>2, <1>3, <1>4, <1>5

LEMMA MatchAnnouncedStep ==
  ASSUME MatchInv, [MatchNext]_matchVars
  PROVE  MatchAnnounced'
  <1> SUFFICES ASSUME NEW p \in Pairs, match'[p] # "none"
               PROVE  \/ p \in (seeded \cup published \cup broken)'
                      \/ \E r \in Requests : (On(r, p) /\ pc[r] = "publishMatch")'
    BY DEF MatchAnnounced
  <1>0. MatchTypeOK
    BY DEF MatchInv
  <1>1. CASE match[p] = "none"
    <2>1. PICK r \in Requests : CreateMatch(r) \/ EndMatch(r)
      BY <1>1 DEF MatchNext, Continue, Deliver, matchVars, ExpressInterest, FindMatch, PublishInterest,
             CheckMutual, PublishMatch, RequestFails, Handled, HandlerFails
    <2>2. canonical(from[r], to[r]) = p
      BY <1>0, <1>1, <2>1 DEF CreateMatch, EndMatch, MatchTypeOK
    <2>3. ~EndMatch(r)
      BY <1>1, <2>2 DEF EndMatch, MatchInv, RequestsSound, Established
    <2>4. pc'[r] = "publishMatch" /\ from'[r] = from[r] /\ to'[r] = to[r]
      BY <1>0, <2>1, <2>3 DEF CreateMatch, Goto, MatchTypeOK
    <2> QED  BY <2>2, <2>4 DEF On, canonical
  \* Handling or losing the event only moves the pair within the union.
  <1>2. CASE p \in seeded \cup published \cup broken
    BY <1>2, BrokenGrows DEF MatchNext, Continue, Deliver, matchVars, ExpressInterest, FindMatch,
           PublishInterest, CheckMutual, CreateMatch, PublishMatch, EndMatch, RequestFails,
           Handled, HandlerFails
  <1>3. ASSUME NEW r \in Requests, On(r, p), pc[r] = "publishMatch"
        PROVE  \/ p \in (seeded \cup published \cup broken)'
               \/ (On(r, p) /\ pc[r] = "publishMatch")'
    <2>1. CASE pc'[r] = pc[r] /\ from'[r] = from[r] /\ to'[r] = to[r]
      BY <1>3, <2>1 DEF On, canonical
    <2>2. CASE PublishMatch(r) \/ RequestFails(r)
      BY <1>3, <2>2 DEF PublishMatch, RequestFails, On
    <2>3. /\ ~PublishInterest(r) /\ ~CheckMutual(r) /\ ~CreateMatch(r) /\ ~EndMatch(r)
          /\ \A like \in Likes : ~ExpressInterest(r, like[1], like[2]) /\ ~FindMatch(r, like[1], like[2])
      BY <1>3 DEF PublishInterest, CheckMutual, CreateMatch, EndMatch, ExpressInterest, FindMatch, Begin
    <2> QED  BY <1>0, <2>1, <2>2, <2>3, Alone
  <1>4. match[p] # "none" => \/ p \in seeded \cup published \cup broken
                            \/ \E r \in Requests : On(r, p) /\ pc[r] = "publishMatch"
    BY DEF MatchInv, MatchAnnounced
  <1> QED  BY <1>1, <1>2, <1>3, <1>4

----------------------------------------------------------------------------
(* The inductive invariant of MatchLifecycle: besides the properties, what *)
(* each request has established when it reaches a step.                    *)
THEOREM MatchInvariant == MatchSpec => []MatchInv
  <1>1. MatchInv /\ [MatchNext]_matchVars => MatchInv'
    BY MatchTypeStep, RowsMutualStep, RequestsSoundStep, NoMissedMatchStep, MatchAnnouncedStep DEF MatchInv
  <1> QED  BY <1>1, MatchInitInv, PTL DEF MatchSpec

(* The type invariant of MatchLifecycle.                                   *)
THEOREM MatchTypeCorrect == MatchSpec => []MatchTypeOK
  <1>1. MatchInv => MatchTypeOK
    BY DEF MatchInv
  <1> QED  BY <1>1, MatchInvariant, PTL

(* Whichever of two crossing requests creates it, a pair has at most one   *)
(* match row, and only when both users expressed interest (createMatch).   *)
THEOREM RowsOnlyMutual == MatchSpec => []MutualOnly
  <1>1. MatchInv => MutualOnly
    <2> SUFFICES ASSUME MatchInv, NEW x \in Users, NEW y \in Users, match[<<x, y>>] # "none"
                 PROVE  Mutual(x, y) /\ (x # y => match[<<y, x>>] = "none")
      BY DEF MutualOnly
    <2>1. x <= y /\ Mutual(x, y)
      BY DEF MatchInv, RowsMutual
    <2>2. match[<<y, x>>] # "none" => y <= x
      BY DEF MatchInv, RowsMutual
    <2>3. x \in Nat /\ y \in Nat
      OBVIOUS
    <2>4. x # y => match[<<y, x>>] = "none"
      BY <2>1, <2>2, <2>3
    <2> QED  BY <2>1, <2>4
  <1> QED  BY <1>1, MatchInvariant, PTL

(* Two crossing requests cannot both miss each other (expressInterest      *)
(* writes its own row before it looks for the other).                      *)
THEOREM NoneMissed == MatchSpec => []NoMissedMatch
  <1>1. MatchInv => NoMissedMatch
    BY DEF MatchInv
  <1> QED  BY <1>1, MatchInvariant, PTL

(* Every match row is announced to chat-service, or a call failed for its  *)
(* pair (createMatch, KafkaEventBus).                                      *)
THEOREM EveryMatchAnnounced == MatchSpec => []MatchAnnounced
  <1>1. MatchInv => MatchAnnounced
    BY DEF MatchInv
  <1> QED  BY <1>1, MatchInvariant, PTL

----------------------------------------------------------------------------
\* Discovery

USE DiscoveryAssumption

----------------------------------------------------------------------------
\* The matrix, the gates and the score look the same from both sides.

MetricRow == [zone : Zones, gi : 0 .. 100, rts : 0 .. 100]

LEMMA RowTypes ==
  ASSUME NEW row \in MetricRows \cup {None}
  PROVE  LET r == OrDefaults(row) IN r.zone \in Zones /\ r.gi \in 0 .. 100 /\ r.rts \in 0 .. 100
  BY DEF OrDefaults, Defaults, Zones

LEMMA MatrixSymmetric ==
  ASSUME NEW a \in Zones, NEW b \in Zones
  PROVE  getScore(a, b) = getScore(b, a) /\ getScore(a, b) \in 0 .. 100
  <1> DEFINE Shown == {"GHOST_TOWN", "CHILL", "STEADY", "PULSE", "SPARK"}
  <1>1. \A z \in Zones : toDisplayZone(z) \in Shown
    BY DEF toDisplayZone, Zones
  <1>2. \A y, z \in Shown : MATRIX[y][z] = MATRIX[z][y] /\ MATRIX[y][z] \in 0 .. 100
    BY DEF MATRIX, GhostRow, ChillRow, SteadyRow, PulseRow, SparkRow
  <1> HIDE DEF Shown
  <1> QED  BY <1>1, <1>2 DEF getScore

LEMMA DistanceSymmetric ==
  ASSUME NEW x \in Int, NEW y \in Int
  PROVE  Distance(x, y) = Distance(y, x) /\ Larger(x, y) = Larger(y, x)
         /\ Distance(x, y) \in Int /\ Larger(x, y) \in Int
  BY DEF Distance, Larger

LEMMA AdmittedSymmetric ==
  ASSUME NEW x \in MetricRows \cup {None}, NEW y \in MetricRows \cup {None}
  PROVE  Admitted(OrDefaults(x), OrDefaults(y)) <=> Admitted(OrDefaults(y), OrDefaults(x))
  <1>1. getScore(OrDefaults(x).zone, OrDefaults(y).zone) = getScore(OrDefaults(y).zone, OrDefaults(x).zone)
    BY RowTypes, MatrixSymmetric
  <1>2. Distance(OrDefaults(x).gi, OrDefaults(y).gi) = Distance(OrDefaults(y).gi, OrDefaults(x).gi)
    <2>1. OrDefaults(x).gi \in 0 .. 100 /\ OrDefaults(y).gi \in 0 .. 100
      BY RowTypes
    <2>2. OrDefaults(x).gi \in Int /\ OrDefaults(y).gi \in Int
      BY <2>1
    <2> QED  BY <2>2, DistanceSymmetric
  <1> QED  BY <1>1, <1>2 DEF Admitted, ghostGap

LEMMA JaccardSymmetric ==
  ASSUME NEW s, NEW t, IsFiniteSet(s), IsFiniteSet(t)
  PROVE  jaccard(s, t) = jaccard(t, s) /\ jaccard(s, t) \in Int
  <1>1. s \cup t = t \cup s /\ s \cap t = t \cap s
    OBVIOUS
  <1>2. jaccard(s, t) = jaccard(t, s)
    BY <1>1 DEF jaccard
  <1>3. IsFiniteSet(s \cup t) /\ IsFiniteSet(s \cap t)
    <2>1. s \cap t \subseteq s
      OBVIOUS
    <2> QED  BY <2>1, FS_Union, FS_Subset
  <1>4. CASE s \cup t = {}
    BY <1>2, <1>4 DEF jaccard
  <1>5. CASE s \cup t # {}
    <2>1. Cardinality(s \cup t) \in Nat \ {0} /\ Cardinality(s \cap t) \in Nat
      BY <1>3, <1>5, FS_EmptySet, FS_CardinalityType
    <2>2. (Cardinality(s \cap t) * 100) \div Cardinality(s \cup t) \in Int
      BY <2>1
    <2> QED  BY <1>2, <1>5, <2>2 DEF jaccard
  <1> QED  BY <1>4, <1>5

LEMMA ScoreSymmetric ==
  ASSUME NEW x \in MetricRows \cup {None}, NEW y \in MetricRows \cup {None},
         NEW s, NEW t, IsFiniteSet(s), IsFiniteSet(t)
  PROVE  /\ Score(OrDefaults(x), OrDefaults(y), s, t) = Score(OrDefaults(y), OrDefaults(x), t, s)
         /\ Score(OrDefaults(x), OrDefaults(y), s, t) \in Int
  <1> DEFINE a == OrDefaults(x)
             b == OrDefaults(y)
  <1>1. a.zone \in Zones /\ b.zone \in Zones /\ a.gi \in Int /\ b.gi \in Int
        /\ a.rts \in Int /\ b.rts \in Int
    <2>1. \A n \in 0 .. 100 : n \in Int
      OBVIOUS
    <2> QED  BY <2>1, RowTypes
  <1> HIDE DEF a, b
  <1>2. getScore(a.zone, b.zone) = getScore(b.zone, a.zone) /\ getScore(a.zone, b.zone) \in Int
    <2>1. \A n \in 0 .. 100 : n \in Int
      OBVIOUS
    <2> QED  BY <1>1, <2>1, MatrixSymmetric
  <1>3. /\ Distance(a.rts, b.rts) = Distance(b.rts, a.rts) /\ Distance(a.rts, b.rts) \in Int
        /\ Larger(a.gi, b.gi) = Larger(b.gi, a.gi) /\ Larger(a.gi, b.gi) \in Int
        /\ ghostGap(a, b) = ghostGap(b, a) /\ ghostGap(a, b) \in Int
    BY <1>1, DistanceSymmetric DEF ghostGap
  <1>4. jaccard(s, t) = jaccard(t, s) /\ jaccard(s, t) \in Int
    BY JaccardSymmetric
  <1>5. Score(a, b, s, t) = Score(b, a, t, s) /\ Score(a, b, s, t) \in Int
    BY <1>2, <1>3, <1>4 DEF Score
  <1> QED  BY <1>5 DEF a, b

----------------------------------------------------------------------------
\* What holds between two queries of a request.

\* The datum did not change since the request began.
Same(u, what) == <<u, what>> \notin touched

\* The caller may ask: its own gender and preference were read.
Asking == me \in Profiles /\ me.gender # None /\ me.seekingGenders # {}

\* What was read of the caller is what its rows say.
CallerRead ==
    /\ (Same(Me, "profile") /\ step # "start") => me = profile[Me]
    /\ (Same(Me, "metrics") /\ step \notin {"start", "metrics"}) => myMetrics = OrDefaults(metrics[Me])

\* u is on the page, with the tags it has.
Listed(u) == /\ u \in Others /\ IsFiniteSet(todo[u])
             /\ Same(u, "profile") => Where(u) /\ todo[u] = profile[u].tags

\* The i-th score is one of a user who passed, from the rows it has.
Passed(i) ==
    LET u == scored[i].user IN
    /\ Same(u, "profile") => Where(u)
    /\ Same(u, "match") => u \notin matched
    /\ Same(u, "metrics") => Admitted(myMetrics, OrDefaults(metrics[u]))
    /\ (Same(u, "profile") /\ Same(u, "metrics")) =>
          scored[i].score = Score(myMetrics, OrDefaults(metrics[u]), me.tags, profile[u].tags)

\* u was left out for a reason, or its turn is to come.
Considered(u) == \/ cut \/ u \in DOMAIN todo \/ u \in excluded
                 \/ \E i \in DOMAIN scored : scored[i].user = u
                 \/ ~Admitted(myMetrics, OrDefaults(metrics[u]))

\* u fits by rows that did not change.
Expected(u) == Same(u, "profile") /\ Same(u, "metrics") /\ Where(u)

ExcludedRightly(u) == /\ u \in excluded => u \in matched
                      /\ (Same(u, "match") /\ u \in matched) => u \in excluded

Drawn == \E order \in Sort(scored) :
            answer = [i \in 1 .. Fewer(Len(scored), limit) |-> scored[order[i]]]

Beginning == {"start", "metrics", "page"}

RequestInv ==
    /\ step \in Beginning \cup {"matches", "score", "done"}
    /\ CallerRead
    /\ Asking \/ (step \in {"start", "metrics", "done"} /\ DOMAIN todo = {} /\ scored = <<>>)
    /\ step \in Beginning => DOMAIN todo = {}
    /\ step \in Beginning \cup {"matches"} => scored = <<>> /\ excluded = {}
    /\ \A u \in DOMAIN todo : Listed(u)
    /\ (Asking /\ step \in {"score", "done"}) =>
          \A u \in Others : ExcludedRightly(u)
    /\ scored \in Seq([user : Others, score : Int])
    /\ \A i \in DOMAIN scored : Passed(i) /\ scored[i].user \notin DOMAIN todo
    /\ \A i, j \in DOMAIN scored : scored[i].user = scored[j].user => i = j
    /\ (Asking /\ step \notin Beginning) => \A u \in Others : Expected(u) => Considered(u)
    /\ IF step = "done" /\ Asking THEN DOMAIN todo = {} /\ Drawn ELSE answer = <<>>

LEMMA DiscoveryInitInv == DiscoveryInit => DiscoveryTypeOK /\ RequestInv
  <1> SUFFICES ASSUME DiscoveryInit PROVE DiscoveryTypeOK /\ RequestInv
    OBVIOUS
  <1>1. DiscoveryTypeOK
    <2>1. changes \in 0 .. MaxChanges
      BY DEF DiscoveryInit
    <2>2. /\ profile \in [Everyone -> Profiles \cup {None}]
          /\ metrics \in [Everyone -> MetricRows \cup {None}]
          /\ matched \subseteq Others
      BY DEF DiscoveryInit
    <2>3. /\ me \in Profiles \cup {None} /\ myMetrics \in MetricRows \cup {Defaults}
          /\ touched \subseteq Everyone \X Data /\ excluded \subseteq Everyone /\ cut \in BOOLEAN
          /\ limit \in Limits \cup {0}
      BY DEF DiscoveryInit
    <2> QED  BY <2>1, <2>2, <2>3 DEF DiscoveryTypeOK
  <1>2. DOMAIN todo = {} /\ scored = <<>> /\ answer = <<>> /\ excluded = {} /\ step = "start"
    BY DEF DiscoveryInit, Nobody
  <1>3. scored \in Seq([user : Others, score : Int]) /\ DOMAIN scored = {}
    BY <1>2
  <1> QED  BY <1>1, <1>2, <1>3 DEF RequestInv, CallerRead, Beginning

LEMMA DiscoveryTypeStep ==
  ASSUME DiscoveryTypeOK, [DiscoveryNext]_discoveryVars
  PROVE  DiscoveryTypeOK'
  <1> USE DEF DiscoveryTypeOK
  <1>1. CASE ReadMe
    BY <1>1 DEF ReadMe, database, Everyone
  <1>2. CASE ReadMyMetrics
    BY <1>2 DEF ReadMyMetrics, database, Everyone, OrDefaults
  <1>3. CASE ReadPage
    BY <1>3 DEF ReadPage, database
  <1>4. CASE ReadMatches
    BY <1>4 DEF ReadMatches, database, Everyone
  <1>5. CASE ScoreCandidate
    BY <1>5 DEF ScoreCandidate, database
  <1>6. CASE Answer
    BY <1>6 DEF Answer, database
  <1>7. ASSUME NEW u \in Everyone, NEW p \in Profiles, EditProfile(u, p)
        PROVE  DiscoveryTypeOK'
    BY <1>7 DEF EditProfile, Change, Data, request
  <1>8. ASSUME NEW u \in Everyone, NEW r \in MetricRows, Recalculated(u, r)
        PROVE  DiscoveryTypeOK'
    BY <1>8 DEF Recalculated, Change, Data, request
  <1>9. ASSUME NEW u \in Others, MatchMade(u)
        PROVE  DiscoveryTypeOK'
    BY <1>9 DEF MatchMade, Change, Data, request, Everyone
  <1>10. CASE UNCHANGED discoveryVars
    BY <1>10 DEF discoveryVars, database, request
  <1> QED  BY <1>1, <1>2, <1>3, <1>4, <1>5, <1>6, <1>7, <1>8, <1>9, <1>10 DEF DiscoveryNext

LEMMA ScoredUser ==
  ASSUME RequestInv, NEW i \in DOMAIN scored
  PROVE  scored[i].user \in Others /\ scored[i].score \in Int
  <1> DEFINE R == [user : Others, score : Int]
  <1>1. scored \in Seq(R)
    BY DEF RequestInv
  <1>2. scored[i] \in R
    <2> HIDE DEF R
    <2> QED  BY <1>1
  <1> QED  BY <1>2

\* Around the request: what was read of data that did not change still holds.
LEMMA Meanwhile ==
  ASSUME RequestInv, NEW u \in Everyone, NEW what \in Data, Change(u, what),
         \A v \in Everyone : <<v, "profile">> # <<u, what>> => profile'[v] = profile[v],
         \A v \in Everyone : <<v, "metrics">> # <<u, what>> => metrics'[v] = metrics[v],
         matched \subseteq matched',
         \A v \in matched' \ matched : <<v, "match">> = <<u, what>>
  PROVE  RequestInv'
  <1>1. /\ touched' = touched \cup {<<u, what>>} /\ step # "done"
        /\ UNCHANGED <<step, limit, me, myMetrics, todo, excluded, scored, answer, cut>>
    BY DEF Change, request
  <1>2. \A v, d : Same(v, d)' => Same(v, d) /\ <<v, d>> # <<u, what>>
    BY <1>1 DEF Same
  <1>3. \A v \in Everyone : Same(v, "profile")' => profile'[v] = profile[v] /\ (Where(v)' <=> Where(v))
    BY <1>1, <1>2 DEF Where
  <1>4. \A v \in Everyone : Same(v, "metrics")' => metrics'[v] = metrics[v]
    BY <1>2
  <1>5. \A v : Same(v, "match")' => (v \in matched' <=> v \in matched)
    BY <1>2
  <1>6. CallerRead'
    BY <1>1, <1>2, <1>3, <1>4 DEF RequestInv, CallerRead, Everyone
  <1>7. \A v \in DOMAIN todo : Listed(v)'
    BY <1>1, <1>2, <1>3 DEF RequestInv, Listed, Everyone
  <1>8. ASSUME NEW i \in DOMAIN scored PROVE Passed(i)'
    <2> PICK v : v = scored[i].user
      OBVIOUS
    <2>1. v \in Everyone /\ Passed(i)
      BY ScoredUser DEF RequestInv, Everyone
    <2>2. /\ Same(v, "profile")' => Same(v, "profile") /\ profile'[v] = profile[v]
                                    /\ (Where(v)' <=> Where(v))
          /\ Same(v, "metrics")' => Same(v, "metrics") /\ metrics'[v] = metrics[v]
          /\ Same(v, "match")' => Same(v, "match") /\ (v \in matched' <=> v \in matched)
      BY <1>2, <1>3, <1>4, <1>5, <2>1
    <2> QED  BY <1>1, <2>1, <2>2 DEF Passed
  <1>9. \A v \in Others : Expected(v)' => Expected(v) /\ (Considered(v) <=> Considered(v)')
    BY <1>1, <1>2, <1>3, <1>4 DEF Expected, Considered, Everyone
  <1>10. Asking' <=> Asking
    BY <1>1 DEF Asking
  <1>11. \A v \in Others : ExcludedRightly(v) => ExcludedRightly(v)'
    BY <1>1, <1>2, <1>5 DEF ExcludedRightly
  <1> QED  BY <1>1, <1>6, <1>7, <1>8, <1>9, <1>10, <1>11 DEF RequestInv

LEMMA ReadMeInv ==
  ASSUME DiscoveryTypeOK, RequestInv, ReadMe
  PROVE  RequestInv'
  <1>1. /\ step = "start" /\ me' = profile[Me] /\ step' = "metrics"
        /\ UNCHANGED <<database, myMetrics, todo, excluded, scored, answer, cut>>
    BY DEF ReadMe
  <1>2. DOMAIN todo = {} /\ scored = <<>> /\ excluded = {} /\ answer = <<>>
    BY <1>1 DEF RequestInv, Beginning
  <1>3. CallerRead'
    BY <1>1 DEF CallerRead, database
  <1>4. scored' \in Seq([user : Others, score : Int]) /\ DOMAIN scored' = {}
    BY <1>1, <1>2
  <1> QED  BY <1>1, <1>2, <1>3, <1>4 DEF RequestInv, Beginning

LEMMA ReadMyMetricsInv ==
  ASSUME DiscoveryTypeOK, RequestInv, ReadMyMetrics
  PROVE  RequestInv'
  <1>1. /\ step = "metrics" /\ myMetrics' = OrDefaults(metrics[Me])
        /\ step' = IF me = None \/ me.gender = None \/ me.seekingGenders = {} THEN "done" ELSE "page"
        /\ UNCHANGED <<database, me, todo, excluded, scored, answer, cut, touched>>
    BY DEF ReadMyMetrics
  <1>2. DOMAIN todo = {} /\ scored = <<>> /\ excluded = {} /\ answer = <<>>
    BY <1>1 DEF RequestInv, Beginning
  <1>3. CallerRead'
    BY <1>1 DEF RequestInv, CallerRead, Same, database
  <1>4. scored' \in Seq([user : Others, score : Int]) /\ DOMAIN scored' = {}
    BY <1>1, <1>2
  <1>5. IF step' = "done" THEN ~Asking' ELSE Asking' /\ step' = "page"
    <2>1. me \in Profiles \cup {None} /\ None \notin Profiles
      BY DEF DiscoveryTypeOK
    <2> QED  BY <1>1, <2>1 DEF Asking
  <1> QED  BY <1>1, <1>2, <1>3, <1>4, <1>5 DEF RequestInv, Beginning

LEMMA ReadPageInv ==
  ASSUME DiscoveryTypeOK, RequestInv, ReadPage
  PROVE  RequestInv'
  <1>1. PICK rows \in SUBSET {u \in Everyone : Where(u)} :
           /\ todo' = [u \in rows |-> profile[u].tags]
           /\ cut' = (rows # {u \in Everyone : Where(u)})
    BY DEF ReadPage
  <1>2. /\ step = "page" /\ step' = "matches"
        /\ UNCHANGED <<database, me, myMetrics, excluded, scored, answer, touched>>
    BY DEF ReadPage
  <1>3. scored = <<>> /\ excluded = {} /\ answer = <<>> /\ Asking
    BY <1>2 DEF RequestInv, Beginning
  <1>4. CallerRead' /\ Asking'
    BY <1>2, <1>3 DEF RequestInv, CallerRead, Asking, Same, database
  <1>5. scored' \in Seq([user : Others, score : Int]) /\ DOMAIN scored' = {}
    BY <1>2, <1>3
  <1>6. \A u \in Everyone : Where(u)' <=> Where(u)
    BY <1>2 DEF Where, database
  <1>7. ASSUME NEW u \in rows PROVE Listed(u)'
    <2>1. u \in Everyone /\ Where(u) /\ u \in Others
      BY DEF Where, Everyone
    <2>2. IsFiniteSet(profile[u].tags)
      BY <2>1 DEF Where, DiscoveryTypeOK
    <2> QED  BY <1>1, <1>2, <1>6, <2>1, <2>2 DEF Listed, Same, database
  <1>8. ASSUME NEW u \in Others, Where(u) PROVE Considered(u)'
    BY <1>1, <1>8 DEF Considered, Everyone
  <1>9. \A u \in Others : Expected(u)' => Considered(u)'
    BY <1>6, <1>8 DEF Expected, Everyone
  <1> QED  BY <1>1, <1>2, <1>3, <1>4, <1>5, <1>7, <1>9 DEF RequestInv, Beginning, Everyone

LEMMA ReadMatchesInv ==
  ASSUME DiscoveryTypeOK, RequestInv, ReadMatches
  PROVE  RequestInv'
  <1>1. /\ step = "matches" /\ step' = "score" /\ excluded' = matched \cup {Me}
        /\ UNCHANGED <<database, me, myMetrics, todo, scored, answer, cut, touched>>
    BY DEF ReadMatches
  <1>2. scored = <<>> /\ excluded = {} /\ answer = <<>> /\ Asking
    BY <1>1 DEF RequestInv, Beginning
  <1>3. CallerRead' /\ Asking'
    BY <1>1, <1>2 DEF RequestInv, CallerRead, Asking, Same, database
  <1>4. scored' \in Seq([user : Others, score : Int]) /\ DOMAIN scored' = {}
    BY <1>1, <1>2
  <1>5. \A u \in Everyone : (Where(u)' <=> Where(u)) /\ (Listed(u) => Listed(u)')
    BY <1>1 DEF Where, Listed, Same, database
  <1>6. \A u \in Others : Considered(u) => Considered(u)'
    BY <1>1, <1>2 DEF Considered, database
  <1>7. \A u \in DOMAIN todo' : Listed(u)'
    BY <1>1, <1>5 DEF RequestInv, Listed, Everyone
  <1>8. \A u \in Others : Expected(u)' => Considered(u)'
    BY <1>1, <1>2, <1>5, <1>6 DEF RequestInv, Beginning, Expected, Same, Everyone, database
  <1>9. \A u \in Others : ExcludedRightly(u)'
    BY <1>1 DEF ExcludedRightly, database
  <1> QED  BY <1>1, <1>2, <1>3, <1>4, <1>7, <1>8, <1>9 DEF RequestInv, Beginning

\* The candidate does not go on: an earlier match or a gate stands against it.
LEMMA CandidateSkipped ==
  ASSUME DiscoveryTypeOK, RequestInv, step = "score", NEW u \in DOMAIN todo,
         u \in excluded \/ ~Admitted(myMetrics, OrDefaults(metrics[u])),
         todo' = [v \in DOMAIN todo \ {u} |-> todo[v]], scored' = scored,
         UNCHANGED <<database, step, me, myMetrics, excluded, answer, cut, changes, touched>>
  PROVE  RequestInv'
  <1>1. Asking /\ Asking' /\ CallerRead' /\ answer = <<>>
    BY DEF RequestInv, CallerRead, Asking, Same, database
  <1>2. \A v \in Everyone : Where(v)' <=> Where(v)
    BY DEF Where, database
  <1>3. ASSUME NEW v \in DOMAIN todo' PROVE Listed(v)'
    <2>1. Listed(v) /\ todo'[v] = todo[v]
      BY DEF RequestInv
    <2> QED  BY <1>2, <2>1 DEF Listed, Same, database, Everyone
  <1>4. ASSUME NEW i \in DOMAIN scored PROVE Passed(i)' /\ scored[i].user \notin DOMAIN todo'
    <2>1. Passed(i) /\ scored[i].user \notin DOMAIN todo /\ scored[i].user \in Everyone
      BY ScoredUser DEF RequestInv, Everyone
    <2> QED  BY <1>2, <2>1 DEF Passed, Same, database
  <1>5. ASSUME NEW v \in Others, Expected(v)' PROVE Considered(v)'
    <2>1. Considered(v)
      BY <1>1, <1>2, <1>5 DEF RequestInv, Beginning, Expected, Same, Everyone, database
    <2> QED  BY <2>1 DEF Considered, database
  <1>6. \A v \in Others : ExcludedRightly(v)'
    BY <1>1 DEF RequestInv, ExcludedRightly, Same, database
  <1> QED  BY <1>1, <1>3, <1>4, <1>5, <1>6 DEF RequestInv, Beginning, database

\* The candidate passes: it is scored from the rows it has.
LEMMA CandidateScored ==
  ASSUME DiscoveryTypeOK, RequestInv, step = "score", NEW u \in DOMAIN todo,
         u \notin excluded, Admitted(myMetrics, OrDefaults(metrics[u])),
         todo' = [v \in DOMAIN todo \ {u} |-> todo[v]],
         scored' = Append(scored, [user |-> u, score |-> Score(myMetrics, OrDefaults(metrics[u]),
                                                               me.tags, todo[u])]),
         UNCHANGED <<database, step, me, myMetrics, excluded, answer, cut, changes, touched>>
  PROVE  RequestInv'
  <1>1. Asking /\ Asking' /\ CallerRead' /\ answer = <<>>
    BY DEF RequestInv, CallerRead, Asking, Same, database
  <1>2. \A v \in Everyone : Where(v)' <=> Where(v)
    BY DEF Where, database
  <1>3. ASSUME NEW v \in DOMAIN todo' PROVE Listed(v)'
    <2>1. Listed(v) /\ todo'[v] = todo[v]
      BY DEF RequestInv
    <2> QED  BY <1>2, <2>1 DEF Listed, Same, database, Everyone
  <1>4. Listed(u) /\ u \in Others
    BY DEF RequestInv, Listed
  <1>5. PICK e : e = [user |-> u, score |-> Score(myMetrics, OrDefaults(metrics[u]), me.tags, todo[u])]
    OBVIOUS
  <1>6. e.user = u /\ e.score = Score(myMetrics, OrDefaults(metrics[u]), me.tags, todo[u])
        /\ e \in [user : Others, score : Int]
    <2>1. \E row \in MetricRows \cup {None} : myMetrics = OrDefaults(row)
      BY DEF DiscoveryTypeOK, OrDefaults
    <2>2. metrics[u] \in MetricRows \cup {None}
      BY <1>4 DEF DiscoveryTypeOK, Everyone
    <2>3. IsFiniteSet(me.tags) /\ IsFiniteSet(todo[u])
      BY <1>1, <1>4 DEF Asking, Listed
    <2>4. Score(myMetrics, OrDefaults(metrics[u]), me.tags, todo[u]) \in Int
      BY <2>1, <2>2, <2>3, ScoreSymmetric
    <2> QED  BY <1>4, <1>5, <2>4
  <1>7. /\ scored' \in Seq([user : Others, score : Int])
        /\ Len(scored) \in Nat /\ DOMAIN scored = 1 .. Len(scored)
        /\ DOMAIN scored' = DOMAIN scored \cup {Len(scored) + 1} /\ scored'[Len(scored) + 1] = e
        /\ \A i \in DOMAIN scored : scored'[i] = scored[i]
    <2> DEFINE R == [user : Others, score : Int]
    <2>1. scored \in Seq(R) /\ e \in R /\ scored' = Append(scored, e)
      BY <1>5, <1>6 DEF RequestInv
    <2> HIDE DEF R
    <2>2. /\ scored' \in Seq(R) /\ Len(scored') = Len(scored) + 1
          /\ scored'[Len(scored) + 1] = e
          /\ \A i \in 1 .. Len(scored) : scored'[i] = scored[i]
      BY <2>1, AppendProperties
    <2>3. Len(scored) \in Nat /\ DOMAIN scored = 1 .. Len(scored)
      BY <2>1
    <2>4. DOMAIN scored' = 1 .. Len(scored) + 1
      BY <2>2
    <2>5. 1 .. Len(scored) + 1 = DOMAIN scored \cup {Len(scored) + 1}
      BY <2>3
    <2> QED  BY <2>2, <2>3, <2>4, <2>5 DEF R
  <1>8. ASSUME NEW i \in DOMAIN scored PROVE Passed(i)' /\ scored'[i].user \notin DOMAIN todo'
                                             /\ scored'[i].user # u
    <2>1. Passed(i) /\ scored[i].user \notin DOMAIN todo /\ scored[i].user \in Everyone
          /\ scored'[i] = scored[i]
      BY <1>7, ScoredUser DEF RequestInv, Everyone
    <2> QED  BY <1>2, <2>1 DEF Passed, Same, database
  <1>9. PICK last : last = Len(scored) + 1
    OBVIOUS
  <1>10. Passed(last)' /\ scored'[last].user \notin DOMAIN todo' /\ scored'[last].user = u
    <2>1. /\ Same(u, "profile") => Where(u) /\ todo[u] = profile[u].tags
          /\ Same(u, "match") => u \notin matched
      BY <1>1, <1>4 DEF Listed, RequestInv, ExcludedRightly
    <2>2. (Same(u, "profile") => Where(u)') /\ (Same(u, "match") => u \notin matched')
      BY <1>2, <1>4, <2>1 DEF Everyone, database
    <2>3. scored'[last] = e
      BY <1>7, <1>9
    <2> QED  BY <1>6, <2>1, <2>2, <2>3 DEF Passed, Same, database
  <1>11. \A i \in DOMAIN scored' : Passed(i)' /\ scored'[i].user \notin DOMAIN todo'
    BY <1>7, <1>8, <1>9, <1>10
  <1>12. \A i, j \in DOMAIN scored' : scored'[i].user = scored'[j].user => i = j
    <2>1. \A i, j \in DOMAIN scored : scored[i].user = scored[j].user => i = j
      BY DEF RequestInv
    <2> QED  BY <1>7, <1>8, <1>9, <1>10, <2>1
  <1>13. ASSUME NEW v \in Others, Expected(v)' PROVE Considered(v)'
    <2>1. Considered(v)
      BY <1>1, <1>2, <1>13 DEF RequestInv, Beginning, Expected, Same, Everyone, database
    <2>2. CASE v = u
      BY <1>7, <1>9, <1>10, <2>2 DEF Considered
    <2>3. CASE v # u
      BY <1>7, <2>1, <2>3 DEF Considered, database
    <2> QED  BY <2>2, <2>3
  <1>14. \A v \in Others : ExcludedRightly(v)'
    BY <1>1 DEF RequestInv, ExcludedRightly, Same, database
  <1> QED  BY <1>1, <1>3, <1>7, <1>11, <1>12, <1>13, <1>14 DEF RequestInv, Beginning, database

LEMMA ScoreCandidateInv ==
  ASSUME DiscoveryTypeOK, RequestInv, ScoreCandidate
  PROVE  RequestInv'
  <1>1. PICK u \in DOMAIN todo :
           /\ scored' = IF u \in excluded \/ ~Admitted(myMetrics, OrDefaults(metrics[u])) THEN scored
                        ELSE Append(scored, [user |-> u,
                                             score |-> Score(myMetrics, OrDefaults(metrics[u]),
                                                             me.tags, todo[u])])
           /\ todo' = [v \in DOMAIN todo \ {u} |-> todo[v]]
    BY DEF ScoreCandidate
  <1>2. /\ step = "score"
        /\ UNCHANGED <<database, step, me, myMetrics, excluded, answer, cut, changes, touched>>
    BY DEF ScoreCandidate
  <1>3. CASE u \in excluded \/ ~Admitted(myMetrics, OrDefaults(metrics[u]))
    BY <1>1, <1>2, <1>3, CandidateSkipped
  <1>4. CASE ~(u \in excluded \/ ~Admitted(myMetrics, OrDefaults(metrics[u])))
    BY <1>1, <1>2, <1>4, CandidateScored
  <1> QED  BY <1>3, <1>4

LEMMA AnswerStepInv ==
  ASSUME DiscoveryTypeOK, RequestInv, Answer
  PROVE  RequestInv'
  <1>1. /\ step = "score" /\ step' = "done" /\ DOMAIN todo = {}
        /\ UNCHANGED <<database, me, myMetrics, todo, excluded, scored, cut, touched>>
    BY DEF Answer
  <1>2. Asking /\ Asking' /\ CallerRead'
    BY <1>1 DEF RequestInv, CallerRead, Asking, Same, database
  <1>3. Drawn'
    BY <1>1 DEF Answer, Drawn
  <1>4. \A v \in Everyone : (Where(v)' <=> Where(v)) /\ (Considered(v)' <=> Considered(v))
    BY <1>1 DEF Where, Considered, database
  <1>5. \A i \in DOMAIN scored : Passed(i)'
    <2> SUFFICES ASSUME NEW i \in DOMAIN scored PROVE Passed(i)'
      OBVIOUS
    <2>1. Passed(i) /\ scored[i].user \in Everyone
      BY ScoredUser DEF RequestInv, Everyone
    <2> QED  BY <1>1, <1>4, <2>1 DEF Passed, Same, database
  <1>6. \A v \in Others : (Expected(v)' <=> Expected(v)) /\ (ExcludedRightly(v)' <=> ExcludedRightly(v))
    BY <1>1, <1>4 DEF Expected, ExcludedRightly, Same, Everyone, database
  <1> QED  BY <1>1, <1>2, <1>3, <1>4, <1>5, <1>6 DEF RequestInv, Beginning, database, Everyone

LEMMA DiscoveryStepInv ==
  DiscoveryTypeOK /\ RequestInv /\ [DiscoveryNext]_discoveryVars => DiscoveryTypeOK' /\ RequestInv'
  <1> SUFFICES ASSUME DiscoveryTypeOK, RequestInv, [DiscoveryNext]_discoveryVars
               PROVE  RequestInv'
    BY DiscoveryTypeStep
  <1>1. CASE ReadMe \/ ReadMyMetrics \/ ReadPage \/ ReadMatches \/ ScoreCandidate \/ Answer
    BY <1>1, ReadMeInv, ReadMyMetricsInv, ReadPageInv, ReadMatchesInv, ScoreCandidateInv,
       AnswerStepInv
  <1>2. ASSUME NEW u \in Everyone, NEW p \in Profiles, EditProfile(u, p)
        PROVE  RequestInv'
    BY <1>2, Meanwhile DEF EditProfile, Data, DiscoveryTypeOK
  <1>3. ASSUME NEW u \in Everyone, NEW r \in MetricRows, Recalculated(u, r)
        PROVE  RequestInv'
    BY <1>3, Meanwhile DEF Recalculated, Data, DiscoveryTypeOK
  <1>4. ASSUME NEW u \in Others, MatchMade(u)
        PROVE  RequestInv'
    BY <1>4, Meanwhile DEF MatchMade, Data, Everyone
  <1>5. CASE UNCHANGED discoveryVars
    BY <1>5 DEF discoveryVars, database, request, RequestInv, CallerRead, Asking, Listed, Passed,
       Same, Where, Expected, ExcludedRightly, Considered, Drawn
  <1> QED  BY <1>1, <1>2, <1>3, <1>4, <1>5 DEF DiscoveryNext

----------------------------------------------------------------------------
\* The answer.

LEMMA FewerOfTwo ==
  ASSUME NEW cap \in Nat, NEW n \in Nat
  PROVE  LET f == Fewer(n, cap) IN f \in Nat /\ f <= n /\ f <= cap /\ (f = n \/ (f = cap /\ cap < n))
  BY DEF Fewer

LEMMA AnswerDrawn ==
  ASSUME DiscoveryTypeOK, RequestInv, step = "done", Asking
  PROVE  \E order \in Sort(scored) :
            /\ DOMAIN answer = 1 .. Fewer(Len(scored), limit)
            /\ Len(answer) = Fewer(Len(scored), limit) /\ Len(answer) <= limit
            /\ \A i \in DOMAIN answer : /\ i \in DOMAIN scored /\ order[i] \in DOMAIN scored
                                        /\ answer[i] = scored[order[i]]
  <1>1. PICK order \in Sort(scored) :
           answer = [i \in 1 .. Fewer(Len(scored), limit) |-> scored[order[i]]]
    BY DEF RequestInv, Drawn
  <1> DEFINE R == [user : Others, score : Int]
  <1>2. scored \in Seq(R)
    BY DEF RequestInv
  <1> HIDE DEF R
  <1>3. Len(scored) \in Nat /\ DOMAIN scored = 1 .. Len(scored)
        /\ \A k \in DOMAIN scored : scored[k] \in R
    BY <1>2
  <1>4. PICK n \in Nat : n = Fewer(Len(scored), limit) /\ n <= Len(scored) /\ n <= limit
    <2>1. limit \in Nat
      BY DEF DiscoveryTypeOK
    <2> QED  BY <1>3, <2>1, FewerOfTwo
  <1>5. order \in [DOMAIN scored -> DOMAIN scored]
    BY DEF Sort, Arrangements
  <1>6. answer \in [1 .. n -> R]
    BY <1>1, <1>3, <1>4, <1>5
  <1>7. Len(answer) = n /\ DOMAIN answer = 1 .. n
    <2>1. answer \in Seq(R)
      BY <1>6, SeqDef
    <2> QED  BY <1>4, <1>6, <2>1, LenProperties
  <1> QED  BY <1>1, <1>3, <1>4, <1>5, <1>7

\* One row of the answer, and what of it still holds.
LEMMA AnswerRow ==
  ASSUME DiscoveryTypeOK, RequestInv, NEW i \in DOMAIN answer
  PROVE  LET v == answer[i].user IN
         /\ v \in Others /\ Asking /\ (v \in matched => <<v, "match">> \in touched)
         /\ Steady(v, "profile") => me = profile[Me] /\ Where(v)
         /\ Steady(v, "metrics") => Admitted(OrDefaults(metrics[Me]), OrDefaults(metrics[v]))
         /\ (Steady(v, "profile") /\ Steady(v, "metrics")) =>
               answer[i].score = Score(OrDefaults(metrics[Me]), OrDefaults(metrics[v]),
                                       profile[Me].tags, profile[v].tags)
  <1>1. step = "done" /\ Asking
    BY DEF RequestInv
  <1>2. PICK k \in DOMAIN scored : answer[i] = scored[k]
    BY <1>1, AnswerDrawn
  <1>3. scored[k].user \in Others /\ Passed(k)
    BY ScoredUser DEF RequestInv
  <1>4. /\ Same(Me, "profile") => me = profile[Me]
        /\ Same(Me, "metrics") => myMetrics = OrDefaults(metrics[Me])
    BY <1>1 DEF RequestInv, CallerRead
  <1> QED  BY <1>1, <1>2, <1>3, <1>4 DEF Passed, Same, Steady

LEMMA AnswerMutual == DiscoveryTypeOK /\ RequestInv => SuggestionsMutual
  <1> SUFFICES ASSUME DiscoveryTypeOK, RequestInv, NEW i \in DOMAIN answer, NEW v, v = answer[i].user
               PROVE  /\ v # Me /\ (v \in matched => <<v, "match">> \in touched)
                      /\ Steady(v, "profile") =>
                            /\ Fitting(Me, v)
                            /\ profile[Me].onboardingComplete => Fitting(v, Me)
                      /\ Steady(v, "metrics") => Close(Me, v) /\ Close(v, Me)
                      /\ (Steady(v, "profile") /\ Steady(v, "metrics")) =>
                            answer[i].score = ScoreNow(v)
    BY DEF SuggestionsMutual
  <1>1. /\ v \in Others /\ Asking /\ (v \in matched => <<v, "match">> \in touched)
        /\ Steady(v, "profile") => me = profile[Me] /\ Where(v)
        /\ Steady(v, "metrics") => Admitted(OrDefaults(metrics[Me]), OrDefaults(metrics[v]))
        /\ (Steady(v, "profile") /\ Steady(v, "metrics")) =>
              answer[i].score = Score(OrDefaults(metrics[Me]), OrDefaults(metrics[v]),
                                      profile[Me].tags, profile[v].tags)
    BY AnswerRow
  <1>2. v # Me /\ metrics[v] \in MetricRows \cup {None} /\ metrics[Me] \in MetricRows \cup {None}
        /\ profile[v] \in Profiles \cup {None}
    BY <1>1 DEF DiscoveryTypeOK, Everyone
  <1>3. ASSUME Steady(v, "profile")
        PROVE  /\ profile[v] \in Profiles /\ profile[Me] \in Profiles
               /\ Fitting(Me, v) /\ (profile[Me].onboardingComplete => Fitting(v, Me))
    <2>1. profile[v] \in Profiles /\ profile[Me] \in Profiles
      BY <1>1, <1>2, <1>3 DEF Where, Asking
    <2>2. Suits(profile[Me], profile[v]) /\ Suits(profile[v], profile[Me])
          /\ profile[v].onboardingComplete
      BY <1>1, <1>3 DEF Where, Suits
    <2>3. HasPreference(Me) /\ HasPreference(v)
      BY <1>1, <1>3, <2>1, <2>2 DEF HasPreference, Asking, Suits
    <2> QED  BY <2>1, <2>2, <2>3 DEF Fitting
  <1>4. ASSUME Steady(v, "metrics") PROVE Close(Me, v) /\ Close(v, Me)
    BY <1>1, <1>2, <1>4, AdmittedSymmetric DEF Close
  <1>5. ASSUME Steady(v, "profile"), Steady(v, "metrics") PROVE answer[i].score = ScoreNow(v)
    <2>1. IsFiniteSet(profile[Me].tags) /\ IsFiniteSet(profile[v].tags)
      BY <1>3, <1>5
    <2> QED  BY <1>1, <1>2, <1>5, <2>1, ScoreSymmetric DEF ScoreNow
  <1> QED  BY <1>1, <1>2, <1>3, <1>4, <1>5

LEMMA AnswerRanked == DiscoveryTypeOK /\ RequestInv => Ranked
  <1> SUFFICES ASSUME DiscoveryTypeOK, RequestInv PROVE Ranked
    OBVIOUS
  <1>1. Len(answer) <= limit
    <2>1. CASE step = "done" /\ Asking
      BY <2>1, AnswerDrawn
    <2>2. CASE ~(step = "done" /\ Asking)
      <3>1. Len(answer) = 0
        BY <2>2 DEF RequestInv
      <3> QED  BY <3>1 DEF DiscoveryTypeOK
    <2> QED  BY <2>1, <2>2
  <1>2. ASSUME NEW i \in DOMAIN answer, NEW j \in DOMAIN answer, i < j
        PROVE  answer[i].score >= answer[j].score /\ answer[i].user # answer[j].user
    <2>1. step = "done" /\ Asking
      BY DEF RequestInv
    <2>2. PICK order \in Sort(scored) :
             \A k \in DOMAIN answer : /\ k \in DOMAIN scored /\ order[k] \in DOMAIN scored
                                      /\ answer[k] = scored[order[k]]
      BY <2>1, AnswerDrawn
    <2>3. \/ scored[order[i]].score > scored[order[j]].score
          \/ scored[order[i]].score = scored[order[j]].score /\ order[i] < order[j]
      BY <1>2, <2>2 DEF Sort
    <2>4. scored[order[i]].score \in Int /\ scored[order[j]].score \in Int
      BY <2>2, ScoredUser
    <2>5. order[i] # order[j]
      <3>1. order[i] \in Int /\ order[j] \in Int
        <4>1. DOMAIN scored \subseteq Int
          <5> DEFINE R == [user : Others, score : Int]
          <5>1. scored \in Seq(R)
            BY DEF RequestInv
          <5> HIDE DEF R
          <5> QED  BY <5>1
        <4> QED  BY <2>2, <4>1
      <3> QED  BY <2>3, <2>4, <3>1
    <2>6. scored[order[i]].user # scored[order[j]].user
      BY <2>2, <2>5 DEF RequestInv
    <2> QED  BY <2>2, <2>3, <2>4, <2>6
  <1> QED  BY <1>1, <1>2 DEF Ranked

\* A user left out of a full answer scores no better than any row of it.
LEMMA LeftOut ==
  ASSUME DiscoveryTypeOK, RequestInv, step = "done", Asking, NEW k \in DOMAIN scored,
         \A i \in DOMAIN answer : answer[i].user # scored[k].user
  PROVE  Len(answer) = limit /\ \A i \in DOMAIN answer : answer[i].score >= scored[k].score
  <1>1. PICK order \in Sort(scored) :
           /\ DOMAIN answer = 1 .. Fewer(Len(scored), limit)
           /\ Len(answer) = Fewer(Len(scored), limit)
           /\ \A i \in DOMAIN answer : /\ i \in DOMAIN scored /\ order[i] \in DOMAIN scored
                                       /\ answer[i] = scored[order[i]]
    BY AnswerDrawn
  <1>2. PICK place \in DOMAIN scored : order[place] = k
    BY DEF Sort, Arrangements
  <1>3. Len(scored) \in Nat /\ DOMAIN scored = 1 .. Len(scored)
    <2> DEFINE R == [user : Others, score : Int]
    <2>1. scored \in Seq(R)
      BY DEF RequestInv
    <2> HIDE DEF R
    <2> QED  BY <2>1
  <1>4. place \notin DOMAIN answer
    BY <1>1, <1>2
  <1>5. Fewer(Len(scored), limit) = limit /\ limit < place
    <2>1. limit \in Nat
      BY DEF DiscoveryTypeOK
    <2>2. PICK n \in Nat : n = Len(scored)
      BY <1>3
    <2>3. PICK f \in Nat : f = Fewer(n, limit) /\ (f = n \/ (f = limit /\ limit < n))
      BY <2>1, <2>2, FewerOfTwo
    <2>4. place \in 1 .. n
      BY <1>2, <1>3, <2>2
    <2>5. place \notin 1 .. f
      BY <1>1, <1>4, <2>2, <2>3
    <2>6. f = limit /\ limit < place
      BY <2>1, <2>3, <2>4, <2>5
    <2> QED  BY <2>2, <2>3, <2>6
  <1>6. ASSUME NEW i \in DOMAIN answer PROVE answer[i].score >= scored[k].score
    <2>1. i < place /\ i \in DOMAIN scored
      BY <1>1, <1>2, <1>3, <1>5
    <2>2. scored[order[i]].score > scored[k].score \/ scored[order[i]].score = scored[k].score
      BY <1>2, <2>1 DEF Sort
    <2>3. scored[order[i]].score \in Int /\ scored[k].score \in Int
      BY <1>1, ScoredUser
    <2> QED  BY <1>1, <2>2, <2>3
  <1> QED  BY <1>1, <1>5, <1>6

LEMMA AnswerComplete == DiscoveryTypeOK /\ RequestInv => NobodyMissed
  <1> SUFFICES ASSUME DiscoveryTypeOK, RequestInv, step = "done", NEW v \in Others \ matched,
                      Steady(v, "profile"), Steady(v, "metrics"), Fitting(Me, v), Close(Me, v), ~cut,
                      \A i \in DOMAIN answer : answer[i].user # v
               PROVE  Len(answer) = limit /\ \A i \in DOMAIN answer : answer[i].score >= ScoreNow(v)
    BY DEF NobodyMissed
  <1>1. me = profile[Me] /\ myMetrics = OrDefaults(metrics[Me]) /\ Same(v, "profile") /\ Same(v, "metrics")
    BY DEF RequestInv, CallerRead, Steady, Same
  <1>2. profile[Me] \in Profiles /\ profile[v] \in Profiles
        /\ metrics[v] \in MetricRows \cup {None} /\ metrics[Me] \in MetricRows \cup {None}
    BY DEF Fitting, HasPreference, DiscoveryTypeOK, Everyone
  <1>3. Asking /\ Where(v)
    BY <1>1, <1>2 DEF Fitting, HasPreference, Asking, Where, Suits
  <1>4. Admitted(myMetrics, OrDefaults(metrics[v]))
    BY <1>1, <1>2, AdmittedSymmetric DEF Close
  <1>5. v \notin excluded
    BY <1>3 DEF RequestInv, ExcludedRightly
  <1>6. PICK k \in DOMAIN scored : scored[k].user = v
    <2>1. Considered(v)
      BY <1>1, <1>3 DEF RequestInv, Expected, Beginning
    <2> QED  BY <1>3, <1>4, <1>5, <2>1 DEF RequestInv, Considered
  <1>7. scored[k].score = ScoreNow(v)
    <2>1. Passed(k)
      BY DEF RequestInv
    <2>2. scored[k].score = Score(OrDefaults(metrics[Me]), OrDefaults(metrics[v]),
                                  profile[Me].tags, profile[v].tags)
      BY <1>1, <1>6, <2>1 DEF Passed
    <2>3. IsFiniteSet(profile[Me].tags) /\ IsFiniteSet(profile[v].tags)
      BY <1>2
    <2> QED  BY <1>2, <2>2, <2>3, ScoreSymmetric DEF ScoreNow
  <1> QED  BY <1>3, <1>6, <1>7, LeftOut

(* Types.                                                                  *)
THEOREM DiscoveryTypeCorrect == DiscoverySpec => []DiscoveryTypeOK
  BY DiscoveryInitInv, DiscoveryStepInv, PTL DEF DiscoverySpec

(* Suggestions are mutual and carry the score of the other side's page,    *)
(* for any profiles, metrics and matches and any changes of theirs while   *)
(* the request runs.                                                       *)
THEOREM SuggestionsAreMutual == DiscoverySpec => []SuggestionsMutual
  BY DiscoveryInitInv, DiscoveryStepInv, AnswerMutual, PTL DEF DiscoverySpec

(* Nobody who fits is missed but by the cut of the page or of the answer,  *)
(* however long the page, the answer and the list of users are.            *)
THEOREM NobodyIsMissed == DiscoverySpec => []NobodyMissed
  BY DiscoveryInitInv, DiscoveryStepInv, AnswerComplete, PTL DEF DiscoverySpec

(* The answer is in order, without repetition and within the limit, for    *)
(* any limit, any number of users and any changes.                         *)
THEOREM AnswerIsRanked == DiscoverySpec => []Ranked
  BY DiscoveryInitInv, DiscoveryStepInv, AnswerRanked, PTL DEF DiscoverySpec
=============================================================================
