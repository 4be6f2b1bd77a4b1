------------------------- MODULE ConversationProofs -------------------------
(***************************************************************************)
(* What Conversation shows for any number of matches, users, concurrent    *)
(* requests and messages and every mix of faults.  Both counters are       *)
(* counted by sets of rows: a row enters Bumped and Published with the     *)
(* step of its request that raises the counter or publishes the event,     *)
(* which needs that only one request knows the row (Sole).                 *)
(***************************************************************************)
EXTENDS Conversation, FiniteSetTheorems, SequenceTheorems, TLAPS

Row == [match : Matches, sender : Users, read : BOOLEAN]

\* A row in sending belongs to one request, which has not failed on it.
Sole ==
    \A r \in Requests : sending[r] # 0 =>
        /\ \A q \in Requests : sending[q] = sending[r] => q = r
        /\ \A s \in SendSteps : <<sending[r], s>> \notin broken

ToBump == {"enqueueRefine", "bump"}
ToPublish == {"enqueueRefine", "bump", "publishSent"}

\* An event is of a row whose request published it, and is handled or lost.
EventsPublished ==
    /\ \A x \in sent \cup lost : ~Before(x, ToPublish)
    /\ sent \cap lost = {}

ConvInv == ConvTypeOK /\ Sole /\ EventsPublished /\ CountConserved /\ TotalsCounted /\ ReadPrefix

----------------------------------------------------------------------------
\* Rows and sets of rows

LEMMA RowFacts ==
  ASSUME ConvTypeOK
  PROVE  /\ Len(messages) \in Nat /\ Ids = 1 .. Len(messages) /\ IsFiniteSet(Ids)
         /\ \A x \in Ids : /\ messages[x] \in Row /\ messages[x].match \in Matches
                           /\ Sender(x) \in Users /\ x # 0
  <1>1. messages \in Seq(Row)
    BY DEF ConvTypeOK, Row
  <1>2. Len(messages) \in Nat /\ Ids = 1 .. Len(messages) /\ messages \in [1 .. Len(messages) -> Row]
    BY <1>1, LenProperties DEF Ids
  <1>3. IsFiniteSet(1 .. Len(messages))
    BY <1>2, FS_Interval
  <1> QED  BY <1>2, <1>3 DEF Row, Sender

LEMMA CardFacts ==
  ASSUME ConvTypeOK, NEW S \in SUBSET Ids
  PROVE  /\ IsFiniteSet(S) /\ Cardinality(S) \in Nat
         /\ \A x : x \notin S => Cardinality(S \cup {x}) = Cardinality(S) + 1
  <1>1. IsFiniteSet(S)
    BY RowFacts, FS_Subset
  <1> QED  BY <1>1, FS_CardinalityType, FS_AddElement

LEMMA BeforeNow ==
  ASSUME ConvTypeOK, Sole, NEW r \in Requests, pc[r] \in SendSteps, NEW steps \in SUBSET SendSteps
  PROVE  sending[r] \in Ids /\ (Before(sending[r], steps) <=> pc[r] \in steps)
  BY RowFacts DEF ConvTypeOK, Sole, Before

\* The request of one row moves on to step e, or fails at e; others stay.
LEMMA RequestMoves ==
  ASSUME ConvTypeOK, Sole, NEW r \in Requests, pc[r] \in SendSteps, messages' = messages,
         NEW t \in SendSteps \cup {"idle"}, pc' = [pc EXCEPT ![r] = t],
         sending' = [sending EXCEPT ![r] = IF t = "idle" THEN 0 ELSE @],
         NEW e, \/ broken' = broken /\ e = t
                \/ broken' = broken \cup {<<sending[r], e>>} /\ t = "idle" /\ e \in SendSteps
  PROVE  /\ pc' \in [Requests -> SendSteps \cup {"idle", "announceRead"}]
         /\ sending' \in [Requests -> Ids \cup {0}]
         /\ \A q \in Requests : sending'[q] # 0 <=> pc'[q] \in SendSteps
         /\ broken' \subseteq Ids \X SendSteps
         /\ Sole'
         /\ \A steps \in SUBSET SendSteps, x \in Ids :
               Before(x, steps)' <=> IF x = sending[r] THEN e \in steps ELSE Before(x, steps)
  <1>1. sending[r] \in Ids /\ 0 \notin Ids
    BY RowFacts DEF ConvTypeOK
  <1>2. \A q \in Requests : /\ pc'[q] = IF q = r THEN t ELSE pc[q]
                            /\ sending'[q] = IF q = r /\ t = "idle" THEN 0 ELSE sending[q]
    BY DEF ConvTypeOK
  <1>3. /\ pc' \in [Requests -> SendSteps \cup {"idle", "announceRead"}]
        /\ sending' \in [Requests -> Ids \cup {0}]
        /\ broken' \subseteq Ids \X SendSteps
    BY <1>1 DEF ConvTypeOK
  <1>4. \A q \in Requests : sending'[q] # 0 <=> pc'[q] \in SendSteps
    BY <1>2 DEF ConvTypeOK, SendSteps
  <1>5. Sole'
    BY <1>2 DEF Sole
  <1>6. ASSUME NEW steps \in SUBSET SendSteps, NEW x \in Ids
        PROVE  Before(x, steps)' <=> IF x = sending[r] THEN e \in steps ELSE Before(x, steps)
    <2>1. x # 0
      BY <1>1
    <2>2. CASE x = sending[r]
      <3>1. \A q \in Requests : sending'[q] = x => q = r /\ t # "idle"
        BY <1>2, <2>1, <2>2 DEF Sole
      <3>2. \A s \in steps : <<x, s>> \in broken' <=> broken' # broken /\ s = e
        BY <2>1, <2>2 DEF Sole
      <3>3. CASE broken' = broken /\ e = t
        BY <1>2, <2>2, <3>1, <3>2, <3>3 DEF Before, SendSteps
      <3>4. CASE broken' = broken \cup {<<sending[r], e>>} /\ t = "idle" /\ e \in SendSteps
        <4>1. broken' # broken
          BY <2>1, <2>2, <3>4 DEF Sole
        <4> QED  BY <2>2, <3>1, <3>2, <4>1 DEF Before
      <3> QED  BY <3>3, <3>4
    <2>3. CASE x # sending[r]
      <3>1. \A q \in Requests, s \in steps :
               (sending'[q] = x /\ pc'[q] = s) <=> (sending[q] = x /\ pc[q] = s)
        BY <1>2, <2>1, <2>3
      <3>2. \A s \in steps : <<x, s>> \in broken' <=> <<x, s>> \in broken
        BY <2>3
      <3> QED  BY <2>3, <3>1, <3>2 DEF Before
    <2> QED  BY <2>2, <2>3
  <1> QED  BY <1>3, <1>4, <1>5, <1>6

----------------------------------------------------------------------------
\* What keeps the counters: rows keep their match and sender, and the sets
\* of rows that are counted stay.

RowsKept == Ids' = Ids /\ \A x \in Ids : /\ messages'[x].match = messages[x].match
                                         /\ messages'[x].sender = messages[x].sender

LEMMA CountKept ==
  ASSUME CountConserved, RowsKept, UNCHANGED messageCount,
         \A x \in Ids : Before(x, ToBump)' <=> Before(x, ToBump)
  PROVE  CountConserved'
  <1> SUFFICES ASSUME NEW m \in Matches PROVE Bumped(m)' = Bumped(m)
    BY DEF CountConserved
  <1>1. \A x : x \in Bumped(m)' <=> x \in Bumped(m)
    BY DEF Bumped, RowsKept, ToBump
  <1> QED  BY <1>1

LEMMA TotalsKept ==
  ASSUME TotalsCounted, RowsKept, UNCHANGED <<totalMessages, redelivered>>, redelivered \subseteq Ids,
         \A x \in Ids : (Before(x, ToPublish)' \/ x \in (sent \cup lost)')
                            <=> (Before(x, ToPublish) \/ x \in sent \cup lost)
  PROVE  TotalsCounted'
  <1> SUFFICES ASSUME NEW u \in Users
               PROVE  /\ (Published(u) \ (sent \cup lost))' = Published(u) \ (sent \cup lost)
                      /\ (\A x \in redelivered : Sender(x)' # u)
                            => \A x \in redelivered : Sender(x) # u
    BY DEF TotalsCounted
  <1>1. \A x : x \in (Published(u) \ (sent \cup lost))' <=> x \in Published(u) \ (sent \cup lost)
    BY DEF Published, RowsKept, ToPublish, Sender
  <1>2. (\A x \in redelivered : Sender(x)' # u) => \A x \in redelivered : Sender(x) # u
    BY DEF RowsKept, Sender
  <1> QED  BY <1>1, <1>2

LEMMA PrefixKept ==
  ASSUME ReadPrefix, UNCHANGED messages
  PROVE  ReadPrefix'
  BY DEF ReadPrefix, Ids, Sender

----------------------------------------------------------------------------
\* The actions

LEMMA ConvInitInv == ConvInit => ConvInv
  <1> SUFFICES ASSUME ConvInit PROVE ConvInv
    OBVIOUS
  <1>1. Ids = {} /\ messages \in Seq(Row)
    BY EmptySeq DEF ConvInit, Ids
  <1>2. ConvTypeOK
    BY <1>1 DEF ConvInit, ConvTypeOK, Row, SendSteps
  <1>3. Sole /\ EventsPublished /\ ReadPrefix
    BY <1>1 DEF ConvInit, Sole, EventsPublished, ReadPrefix
  <1>4. \A m \in Matches : Bumped(m) = {}
    BY <1>1 DEF Bumped
  <1>5. \A u \in Users : Published(u) \ (sent \cup lost) = {}
    BY <1>1 DEF Published
  <1>6. Cardinality({}) = 0
    BY FS_EmptySet
  <1>7. CountConserved
    BY <1>4, <1>6 DEF ConvInit, CountConserved
  <1>8. TotalsCounted
    <2> SUFFICES ASSUME NEW u \in Users
                 PROVE  totalMessages[u] = 0 /\ Cardinality(Published(u) \ (sent \cup lost)) = 0
      BY DEF TotalsCounted
    <2> QED  BY <1>5, <1>6 DEF ConvInit
  <1> QED  BY <1>2, <1>3, <1>7, <1>8 DEF ConvInv

LEMMA SendMessageInv ==
  ASSUME ConvInv, NEW r \in Requests, NEW m \in Matches, NEW u \in Users, SendMessage(r, m, u)
  PROVE  ConvInv'
  <1> USE DEF ConvInv, SendMessage, Store, eventVars
  <1> DEFINE n == Len(messages) + 1
             row == [match |-> m, sender |-> u, read |-> FALSE]
  <1>1. messages \in Seq(Row) /\ row \in Row
    BY DEF ConvTypeOK, Row
  <1>2. /\ messages' \in Seq(Row) /\ Len(messages') = n
        /\ \A x \in 1 .. Len(messages) : messages'[x] = messages[x]
        /\ messages'[n] = row
    BY <1>1, AppendProperties
  <1>3. Ids = 1 .. Len(messages) /\ Len(messages) \in Nat
    BY RowFacts
  <1>4. Ids' = 1 .. n
    BY <1>2, LenProperties DEF Ids
  <1>5. Ids' = Ids \cup {n} /\ n \notin Ids /\ n # 0 /\ Ids \subseteq Ids'
    BY <1>3, <1>4
  <1>6. \A x \in Ids : messages'[x] = messages[x]
    BY <1>2, <1>3
  <1>7. sending[r] = 0
    BY DEF ConvTypeOK, SendSteps
  <1>8. \A q \in Requests : /\ pc'[q] = IF q = r THEN "enqueueRefine" ELSE pc[q]
                            /\ sending'[q] = IF q = r THEN n ELSE sending[q]
    BY DEF ConvTypeOK
  <1>9. broken \subseteq Ids \X SendSteps
    BY DEF ConvTypeOK
  <1>10. ConvTypeOK'
    <2>1. \A x \in Ids' : Sender(x)' \in Members[messages'[x].match]
      <3> SUFFICES ASSUME NEW x \in Ids' PROVE messages'[x].sender \in Members[messages'[x].match]
        BY DEF Sender
      <3>1. CASE x = n
        BY <1>2, <3>1
      <3>2. CASE x \in Ids
        BY <1>6, <3>2 DEF ConvTypeOK, Sender
      <3> QED  BY <1>5, <3>1, <3>2
    <2>2. /\ pc' \in [Requests -> SendSteps \cup {"idle", "announceRead"}]
          /\ sending' \in [Requests -> Ids' \cup {0}]
      BY <1>5 DEF ConvTypeOK, SendSteps
    <2>3. \A q \in Requests : sending'[q] # 0 <=> pc'[q] \in SendSteps
      BY <1>5, <1>8 DEF ConvTypeOK, SendSteps
    <2>4. sent \cup lost \cup redelivered \subseteq Ids' /\ broken \subseteq Ids' \X SendSteps
      BY <1>5 DEF ConvTypeOK
    <2> QED  BY <1>2, <2>1, <2>2, <2>3, <2>4 DEF ConvTypeOK, Row
  <1>11. Sole'
    <2>1. \A q \in Requests : sending[q] # n
      BY <1>5 DEF ConvTypeOK
    <2> QED  BY <1>5, <1>8, <1>9, <2>1 DEF Sole
  <1>12. ASSUME NEW x \in Ids, NEW steps \in SUBSET SendSteps
         PROVE  Before(x, steps)' <=> Before(x, steps)
    <2>1. x # n /\ x # 0
      BY <1>3, <1>5
    <2> QED  BY <1>7, <1>8, <2>1 DEF Before
  <1>13. ASSUME NEW x, x = n, NEW steps \in SUBSET SendSteps, "enqueueRefine" \in steps
         PROVE  Before(x, steps)'
    BY <1>8, <1>13 DEF Before
  <1>14. ToBump \in SUBSET SendSteps /\ ToPublish \in SUBSET SendSteps
    BY DEF ToBump, ToPublish, SendSteps
  <1>15. EventsPublished'
    BY <1>12, <1>14 DEF EventsPublished, ConvTypeOK
  <1>16. CountConserved'
    <2> SUFFICES ASSUME NEW k \in Matches PROVE Bumped(k)' = Bumped(k)
      BY DEF CountConserved
    <2>1. \A x \in Ids : Before(x, ToBump)' <=> Before(x, ToBump)
      BY <1>12, <1>14 DEF Before, ToBump
    <2>2. \A x : x = n => Before(x, ToBump)'
      BY <1>13, <1>14 DEF Before, ToBump
    <2>3. \A x : x \in Bumped(k)' <=> x \in Bumped(k)
      BY <1>5, <1>6, <2>1, <2>2 DEF Bumped, ToBump
    <2> QED  BY <2>3
  <1>17. TotalsCounted'
    <2> SUFFICES ASSUME NEW v \in Users
                 PROVE  /\ Published(v)' = Published(v)
                        /\ (\A x \in redelivered : Sender(x)' # v)
                              => \A x \in redelivered : Sender(x) # v
      BY DEF TotalsCounted
    <2>1. \A x \in Ids : Before(x, ToPublish)' <=> Before(x, ToPublish)
      BY <1>12, <1>14 DEF Before, ToPublish
    <2>2. \A x : x = n => Before(x, ToPublish)'
      BY <1>13, <1>14 DEF Before, ToPublish
    <2>3. \A x : x \in Published(v)' <=> x \in Published(v)
      BY <1>5, <1>6, <2>1, <2>2 DEF Published, ToPublish, Sender
    <2>4. \A x \in redelivered : Sender(x)' = Sender(x)
      BY <1>6 DEF Sender, ConvTypeOK
    <2> QED  BY <2>3, <2>4
  <1>18. ReadPrefix'
    <2> SUFFICES ASSUME NEW x \in Ids', NEW y \in Ids', x < y,
                        messages'[x].match = messages'[y].match, Sender(x)' = Sender(y)',
                        messages'[y].read
                 PROVE  messages'[x].read
      BY DEF ReadPrefix
    <2>1. y # n
      BY <1>2
    <2>2. x \in Ids /\ y \in Ids
      BY <1>3, <1>4, <2>1
    <2> QED  BY <1>6, <2>2 DEF ReadPrefix, Sender
  <1> QED  BY <1>10, <1>11, <1>15, <1>16, <1>17, <1>18

\* Steps of a request between its row and its return, but for the two that count.
LEMMA QuietMoveInv ==
  ASSUME ConvInv, NEW r \in Requests, pc[r] \in SendSteps, messages' = messages,
         NEW t \in SendSteps \cup {"idle"}, pc' = [pc EXCEPT ![r] = t],
         sending' = [sending EXCEPT ![r] = IF t = "idle" THEN 0 ELSE @],
         NEW e, \/ broken' = broken /\ e = t
                \/ broken' = broken \cup {<<sending[r], e>>} /\ t = "idle" /\ e \in SendSteps,
         pc[r] \in ToBump <=> e \in ToBump, pc[r] \in ToPublish <=> e \in ToPublish,
         UNCHANGED messageCount, UNCHANGED eventVars
  PROVE  ConvInv'
  <1> USE DEF ConvInv, eventVars
  <1>1. ToBump \in SUBSET SendSteps /\ ToPublish \in SUBSET SendSteps
    BY DEF ToBump, ToPublish, SendSteps
  <1>2. /\ Sole' /\ pc' \in [Requests -> SendSteps \cup {"idle", "announceRead"}]
        /\ sending' \in [Requests -> Ids \cup {0}]
        /\ \A q \in Requests : sending'[q] # 0 <=> pc'[q] \in SendSteps
        /\ broken' \subseteq Ids \X SendSteps
        /\ \A steps \in SUBSET SendSteps, x \in Ids :
              Before(x, steps)' <=> IF x = sending[r] THEN e \in steps ELSE Before(x, steps)
    BY RequestMoves
  <1>3. \A x \in Ids : Before(x, ToBump)' <=> Before(x, ToBump)
    BY <1>1, <1>2, BeforeNow DEF Before, ToBump, ToPublish
  <1>4. \A x \in Ids : Before(x, ToPublish)' <=> Before(x, ToPublish)
    BY <1>1, <1>2, BeforeNow DEF Before, ToBump, ToPublish
  <1>5. RowsKept
    BY DEF RowsKept, Ids
  <1>6. ConvTypeOK'
    BY <1>2 DEF ConvTypeOK, Ids, Sender
  <1>7. EventsPublished'
    BY <1>4 DEF EventsPublished, ConvTypeOK
  <1>8. CountConserved' /\ TotalsCounted' /\ ReadPrefix'
    BY <1>3, <1>4, <1>5, CountKept, TotalsKept, PrefixKept DEF ConvTypeOK
  <1> QED  BY <1>2, <1>6, <1>7, <1>8

LEMMA EnqueueRefineInv ==
  ASSUME ConvInv, NEW r \in Requests, EnqueueRefine(r)
  PROVE  ConvInv'
  <1>1. sending' = [sending EXCEPT ![r] = IF "bump" = "idle" THEN 0 ELSE @]
    BY DEF EnqueueRefine, Goto, ConvInv, ConvTypeOK
  <1> QED  BY <1>1, QuietMoveInv DEF EnqueueRefine, Goto, SendSteps, ToBump, ToPublish

LEMMA NotifySentInv ==
  ASSUME ConvInv, NEW r \in Requests, NotifySent(r)
  PROVE  ConvInv'
  BY QuietMoveInv DEF NotifySent, Finish, SendSteps, ToBump, ToPublish

LEMMA RequestFailsInv ==
  ASSUME ConvInv, NEW r \in Requests, RequestFails(r)
  PROVE  ConvInv'
  BY QuietMoveInv DEF RequestFails, Finish

LEMMA BumpInv ==
  ASSUME ConvInv, NEW r \in Requests, BumpInteraction(r)
  PROVE  ConvInv'
  <1> USE DEF ConvInv, BumpInteraction, Goto, eventVars
  <1> DEFINE x == sending[r]
             k == messages[x].match
  <1>1. ToBump \in SUBSET SendSteps /\ ToPublish \in SUBSET SendSteps /\ "bump" \in ToBump
        /\ "publishSent" \notin ToBump /\ "bump" \in ToPublish /\ "publishSent" \in ToPublish
        /\ pc[r] \in SendSteps /\ "publishSent" \in SendSteps
    BY DEF ToBump, ToPublish, SendSteps
  <1>2. sending' = [sending EXCEPT ![r] = IF "publishSent" = "idle" THEN 0 ELSE @]
    BY DEF ConvTypeOK
  <1>3. /\ Sole' /\ pc' \in [Requests -> SendSteps \cup {"idle", "announceRead"}]
        /\ sending' \in [Requests -> Ids \cup {0}]
        /\ \A q \in Requests : sending'[q] # 0 <=> pc'[q] \in SendSteps
        /\ broken' \subseteq Ids \X SendSteps
        /\ \A steps \in SUBSET SendSteps, y \in Ids :
              Before(y, steps)' <=> IF y = sending[r] THEN "publishSent" \in steps ELSE Before(y, steps)
    BY <1>1, <1>2, RequestMoves
  <1>4. \A y \in Ids : Before(y, ToBump)' <=> y # x /\ Before(y, ToBump)
    BY <1>1, <1>3 DEF Before, ToBump, ToPublish
  <1>5. \A y \in Ids : Before(y, ToPublish)' <=> Before(y, ToPublish)
    BY <1>1, <1>3, BeforeNow DEF Before, ToBump, ToPublish
  <1>6. x \in Ids /\ Before(x, ToBump) /\ k \in Matches
    BY <1>1, BeforeNow, RowFacts
  <1>7. ConvTypeOK'
    <2>1. messageCount' \in [Matches -> Nat \cup {NoRow}]
      BY <1>6 DEF ConvTypeOK
    <2> QED  BY <1>3, <2>1 DEF ConvTypeOK, Ids, Sender
  <1>8. EventsPublished'
    BY <1>5 DEF EventsPublished, ConvTypeOK
  <1>9. RowsKept
    BY DEF RowsKept, Ids
  <1>10. TotalsCounted' /\ ReadPrefix'
    BY <1>5, <1>9, TotalsKept, PrefixKept DEF ConvTypeOK
  <1>11. CountConserved'
    <2> SUFFICES ASSUME NEW m \in Matches
                 PROVE  Cardinality(Bumped(m)') =
                          IF messageCount'[m] = NoRow THEN 0 ELSE messageCount'[m]
      BY DEF CountConserved
    <2>1. Bumped(m)' = IF m = k THEN Bumped(m) \cup {x} ELSE Bumped(m)
      <3>1. \A y : y \in Bumped(m)' <=> y \in Bumped(m) \/ (m = k /\ y = x)
        BY <1>4, <1>6 DEF Bumped, ToBump, Ids
      <3>2. CASE m = k
        BY <3>1, <3>2
      <3>3. CASE m # k
        BY <3>1, <3>3
      <3> QED  BY <3>2, <3>3
    <2>2. x \notin Bumped(m) /\ Bumped(m) \in SUBSET Ids
      BY <1>6 DEF Bumped, ToBump
    <2>3. Cardinality(Bumped(m)) = IF messageCount[m] = NoRow THEN 0 ELSE messageCount[m]
      BY DEF CountConserved
    <2>4. Cardinality(Bumped(m) \cup {x}) = Cardinality(Bumped(m)) + 1
          /\ Cardinality(Bumped(m)) \in Nat
      BY <2>2, CardFacts
    <2>5. messageCount'[m] = IF m # k THEN messageCount[m]
                             ELSE IF messageCount[m] = NoRow THEN 1 ELSE messageCount[m] + 1
      BY <1>6 DEF ConvTypeOK
    <2> HIDE DEF k
    <2> QED  BY <2>1, <2>3, <2>4, <2>5, ConversationAssumption
  <1> QED  BY <1>3, <1>7, <1>8, <1>10, <1>11

LEMMA PublishInv ==
  ASSUME ConvInv, NEW r \in Requests, PublishSent(r)
  PROVE  ConvInv'
  <1> USE DEF ConvInv, PublishSent, Goto
  <1> DEFINE x == sending[r]
  <1>1. ToBump \in SUBSET SendSteps /\ ToPublish \in SUBSET SendSteps /\ "publishSent" \in ToPublish
        /\ "publishSent" \notin ToBump /\ "notifySent" \notin ToPublish /\ "notifySent" \notin ToBump
        /\ pc[r] \in SendSteps /\ "notifySent" \in SendSteps
    BY DEF ToBump, ToPublish, SendSteps
  <1>2. sending' = [sending EXCEPT ![r] = IF "notifySent" = "idle" THEN 0 ELSE @]
    BY DEF ConvTypeOK
  <1>3. /\ Sole' /\ pc' \in [Requests -> SendSteps \cup {"idle", "announceRead"}]
        /\ sending' \in [Requests -> Ids \cup {0}]
        /\ \A q \in Requests : sending'[q] # 0 <=> pc'[q] \in SendSteps
        /\ broken' \subseteq Ids \X SendSteps
        /\ \A steps \in SUBSET SendSteps, y \in Ids :
              Before(y, steps)' <=> IF y = sending[r] THEN "notifySent" \in steps ELSE Before(y, steps)
    BY <1>1, <1>2, RequestMoves
  <1>4. \A y \in Ids : Before(y, ToBump)' <=> Before(y, ToBump)
    BY <1>1, <1>3, BeforeNow DEF Before, ToBump, ToPublish
  <1>5. \A y \in Ids : Before(y, ToPublish)' <=> y # x /\ Before(y, ToPublish)
    BY <1>1, <1>3 DEF Before, ToBump, ToPublish
  <1>6. x \in Ids /\ Before(x, ToPublish) /\ x \notin sent \cup lost
    BY <1>1, BeforeNow DEF EventsPublished
  <1>7. ConvTypeOK'
    BY <1>3, <1>6 DEF ConvTypeOK, Ids, Sender
  <1>8. EventsPublished'
    BY <1>5, <1>6 DEF EventsPublished, ConvTypeOK
  <1>9. RowsKept
    BY DEF RowsKept, Ids
  <1>10. CountConserved' /\ ReadPrefix'
    BY <1>4, <1>9, CountKept, PrefixKept
  <1>11. TotalsCounted'
    BY <1>5, <1>6, <1>9, TotalsKept DEF ConvTypeOK
  <1> QED  BY <1>3, <1>7, <1>8, <1>10, <1>11

\* markRead and its announcements touch no row's match or sender.
LEMMA IdleMoveInv ==
  ASSUME ConvInv, NEW r \in Requests, pc[r] \notin SendSteps,
         NEW t \in {"idle", "announceRead"}, pc' = [pc EXCEPT ![r] = t], sending' = sending,
         messages' \in Seq(Row), RowsKept, ReadPrefix', UNCHANGED <<messageCount, broken, eventVars>>
  PROVE  ConvInv'
  <1> USE DEF ConvInv, eventVars
  <1>1. \A q \in Requests : pc'[q] = IF q = r THEN t ELSE pc[q]
    BY DEF ConvTypeOK
  <1>2. \A q \in Requests : pc'[q] \in SendSteps <=> pc[q] \in SendSteps
    BY <1>1 DEF SendSteps
  <1>3. ConvTypeOK'
    BY <1>2 DEF ConvTypeOK, RowsKept, Sender, Row
  <1>4. Sole'
    BY DEF Sole
  <1>5. ASSUME NEW x \in Ids, NEW steps \in SUBSET SendSteps
        PROVE  Before(x, steps)' <=> Before(x, steps)
    <2>1. sending[r] # x
      BY RowFacts DEF ConvTypeOK
    <2> QED  BY <1>1, <2>1 DEF Before
  <1>6. ToBump \in SUBSET SendSteps /\ ToPublish \in SUBSET SendSteps
    BY DEF ToBump, ToPublish, SendSteps
  <1>7. EventsPublished'
    BY <1>5, <1>6 DEF EventsPublished, ConvTypeOK
  <1>8. CountConserved' /\ TotalsCounted'
    BY <1>5, <1>6, CountKept, TotalsKept DEF ConvTypeOK
  <1> QED  BY <1>3, <1>4, <1>7, <1>8

LEMMA MarkReadInv ==
  ASSUME ConvInv, NEW r \in Requests, NEW m \in Matches, NEW u \in Users, MarkRead(r, m, u)
  PROVE  ConvInv'
  <1> USE DEF ConvInv
  <1>1. /\ Ids = 1 .. Len(messages) /\ Len(messages) \in Nat
        /\ \A x \in Ids : messages[x] \in Row
    BY RowFacts
  <1>2. \A x \in Ids : messages'[x] = [messages[x] EXCEPT !.read =
                                          @ \/ (messages[x].match = m /\ Sender(x) # u)]
    BY DEF MarkRead
  <1>3. \A x \in Ids : /\ messages'[x] \in Row
                       /\ messages'[x].match = messages[x].match
                       /\ messages'[x].sender = messages[x].sender
                       /\ messages'[x].read <=> (messages[x].read
                             \/ (messages[x].match = m /\ messages[x].sender # u))
    BY <1>1, <1>2 DEF Row, Sender
  <1>4. messages' \in [1 .. Len(messages) -> Row] /\ Ids' = Ids
    BY <1>1, <1>3 DEF MarkRead, Ids
  <1>5. messages' \in Seq(Row)
    BY <1>1, <1>4
  <1>6. RowsKept
    BY <1>3, <1>4 DEF RowsKept
  <1>7. ReadPrefix'
    BY <1>3, <1>4 DEF ReadPrefix, Sender
  <1> QED  BY <1>5, <1>6, <1>7, IdleMoveInv DEF MarkRead, SendSteps

LEMMA AnnounceReadInv ==
  ASSUME ConvInv, NEW r \in Requests, AnnounceRead(r)
  PROVE  ConvInv'
  <1>1. sending' = sending
    BY DEF AnnounceRead, Finish, ConvInv, ConvTypeOK, SendSteps
  <1>2. messages' \in Seq(Row) /\ RowsKept /\ ReadPrefix'
    BY PrefixKept DEF AnnounceRead, ConvInv, ConvTypeOK, Row, RowsKept, Ids
  <1> QED  BY <1>1, <1>2, IdleMoveInv DEF AnnounceRead, Finish, SendSteps

\* Requests and rows stay.
LEMMA RequestsKept ==
  ASSUME ConvInv, UNCHANGED <<messages, pc, sending, broken>>
  PROVE  /\ Sole' /\ RowsKept /\ ReadPrefix'
         /\ \A x, steps : Before(x, steps)' <=> Before(x, steps)
  BY PrefixKept DEF ConvInv, Sole, RowsKept, Ids, Before

LEMMA SeedInv ==
  ASSUME ConvInv, NEW m \in Matches, SeedInteraction(m) \/ SeedFails(m)
  PROVE  ConvInv'
  <1> USE DEF ConvInv, SeedInteraction, SeedFails, requestVars
  <1>1. /\ Sole' /\ RowsKept /\ ReadPrefix'
        /\ \A x, steps : Before(x, steps)' <=> Before(x, steps)
    BY RequestsKept
  <1>2. \A k \in Matches : \/ messageCount'[k] = messageCount[k]
                           \/ (messageCount[k] = NoRow /\ messageCount'[k] = 0)
    <2>1. CASE SeedInteraction(m)
      BY <2>1 DEF ConvTypeOK
    <2>2. CASE SeedFails(m)
      BY <2>2
    <2> QED  BY <2>1, <2>2
  <1>3. ConvTypeOK'
    BY DEF ConvTypeOK, Ids, Sender
  <1>4. EventsPublished' /\ TotalsCounted'
    BY <1>1, TotalsKept DEF EventsPublished, ConvTypeOK
  <1>5. CountConserved'
    <2> SUFFICES ASSUME NEW k \in Matches
                 PROVE  Cardinality(Bumped(k)') =
                          IF messageCount'[k] = NoRow THEN 0 ELSE messageCount'[k]
      BY DEF CountConserved
    <2>1. Bumped(k)' = Bumped(k)
      BY DEF Bumped, Ids, Before
    <2> QED  BY <1>2, <2>1, ConversationAssumption DEF CountConserved
  <1> QED  BY <1>1, <1>3, <1>4, <1>5

LEMMA OnMessageSentInv ==
  ASSUME ConvInv, NEW x \in Ids, onMessageSent(x)
  PROVE  ConvInv'
  <1> USE DEF ConvInv, onMessageSent, requestVars
  <1> DEFINE u == Sender(x)
             H(v) == Published(v) \ (sent \cup lost)
  <1>1. /\ Sole' /\ RowsKept /\ ReadPrefix'
        /\ \A y, steps : Before(y, steps)' <=> Before(y, steps)
    BY RequestsKept
  <1>2. u \in Users
    BY RowFacts
  <1>3. ConvTypeOK'
    BY <1>2 DEF ConvTypeOK, Ids, Sender
  <1>4. EventsPublished' /\ CountConserved'
    BY <1>1, CountKept DEF EventsPublished
  <1>5. TotalsCounted'
    <2> SUFFICES ASSUME NEW v \in Users
                 PROVE  /\ totalMessages'[v] >= Cardinality(H(v)')
                        /\ (\A y \in redelivered' : Sender(y)' # v)
                              => totalMessages'[v] = Cardinality(H(v)')
      BY DEF TotalsCounted
    <2>1. \A y : Sender(y)' = Sender(y)
      BY DEF Sender
    <2>2. Published(v)' = Published(v)
      BY DEF Published, Ids, Before, Sender
    <2>3. /\ totalMessages[v] >= Cardinality(H(v))
          /\ (\A y \in redelivered : Sender(y) # v) => totalMessages[v] = Cardinality(H(v))
          /\ totalMessages[v] \in Nat
      BY DEF TotalsCounted, ConvTypeOK
    <2>4. x \notin H(v) /\ H(v) \in SUBSET Ids /\ (x \in Published(v) <=> v = u) /\ x \notin lost
      BY DEF Published, EventsPublished, ToPublish
    <2>5. Cardinality(H(v)) \in Nat /\ Cardinality(H(v) \cup {x}) = Cardinality(H(v)) + 1
      <3> HIDE DEF H
      <3> QED  BY <2>4, CardFacts
    <2>6. totalMessages'[v] = IF v = u THEN totalMessages[v] + 1 ELSE totalMessages[v]
      BY <1>2 DEF ConvTypeOK
    <2>7. CASE sent' = sent \ {x} /\ UNCHANGED redelivered
      <3>1. H(v)' = IF v = u THEN H(v) \cup {x} ELSE H(v)
        BY <2>2, <2>4, <2>7
      <3> HIDE DEF H, u
      <3> QED  BY <2>1, <2>3, <2>5, <2>6, <2>7, <3>1
    <2>8. CASE redelivered' = redelivered \cup {x} /\ UNCHANGED sent
      <3>1. H(v)' = H(v)
        BY <2>2, <2>8
      <3>2. CASE v = u
        <4> HIDE DEF H
        <4> QED  BY <2>1, <2>3, <2>5, <2>6, <2>8, <3>1, <3>2
      <3>3. CASE v # u
        <4> HIDE DEF H, u
        <4> QED  BY <2>1, <2>3, <2>5, <2>6, <2>8, <3>1, <3>3
      <3> QED  BY <3>2, <3>3
    <2> QED  BY <2>7, <2>8
  <1> QED  BY <1>1, <1>3, <1>4, <1>5

LEMMA HandlerFailsInv ==
  ASSUME ConvInv, NEW x \in Ids, SentHandlerFails(x)
  PROVE  ConvInv'
  <1> USE DEF ConvInv, SentHandlerFails, requestVars
  <1>1. /\ Sole' /\ RowsKept /\ ReadPrefix'
        /\ \A y, steps : Before(y, steps)' <=> Before(y, steps)
    BY RequestsKept
  <1>2. ConvTypeOK'
    BY DEF ConvTypeOK, Ids, Sender
  <1>3. EventsPublished' /\ CountConserved'
    BY <1>1, CountKept DEF EventsPublished
  <1>4. TotalsCounted'
    BY <1>1, TotalsKept DEF ConvTypeOK
  <1> QED  BY <1>1, <1>2, <1>3, <1>4

LEMMA ConvStutterInv ==
  ASSUME ConvInv, UNCHANGED convVars
  PROVE  ConvInv'
  <1> USE DEF ConvInv, convVars, requestVars, eventVars
  <1>1. /\ Sole' /\ RowsKept /\ ReadPrefix'
        /\ \A y, steps : Before(y, steps)' <=> Before(y, steps)
    BY RequestsKept
  <1>2. ConvTypeOK'
    BY DEF ConvTypeOK, Ids, Sender
  <1>3. EventsPublished' /\ CountConserved' /\ TotalsCounted'
    BY <1>1, CountKept, TotalsKept DEF EventsPublished, ConvTypeOK
  <1> QED  BY <1>1, <1>2, <1>3

LEMMA ConvStepInv == ConvInv /\ [ConvNext]_convVars => ConvInv'
  <1> SUFFICES ASSUME ConvInv, [ConvNext]_convVars PROVE ConvInv'
    OBVIOUS
  <1>1. CASE \E r \in Requests, m \in Matches, u \in Users : SendMessage(r, m, u) \/ MarkRead(r, m, u)
    BY <1>1, SendMessageInv, MarkReadInv
  <1>2. CASE \E r \in Requests : Request(r)
    BY <1>2, EnqueueRefineInv, BumpInv, PublishInv, NotifySentInv, RequestFailsInv, AnnounceReadInv
       DEF Request
  <1>3. CASE \E m \in Matches : SeedInteraction(m) \/ SeedFails(m)
    BY <1>3, SeedInv
  <1>4. CASE \E x \in Ids : Consume(x)
    BY <1>4, OnMessageSentInv, HandlerFailsInv DEF Consume
  <1>5. CASE UNCHANGED convVars
    BY <1>5, ConvStutterInv
  <1> QED  BY <1>1, <1>2, <1>3, <1>4, <1>5 DEF ConvNext

LEMMA ConvInvariant == ConvSpec => []ConvInv
  BY ConvInitInv, ConvStepInv, PTL DEF ConvSpec

----------------------------------------------------------------------------
\* What follows

(* Types, and that a row's sender is a member of its match.                *)
THEOREM ConvTypeCorrect == ConvSpec => []ConvTypeOK
  BY ConvInvariant, PTL DEF ConvInv

(* The interaction counter counts exactly the rows whose request got that  *)
(* far, with any number of concurrent senders and any failures.            *)
THEOREM CountIsConserved == ConvSpec => []CountConserved
  BY ConvInvariant, PTL DEF ConvInv

(* total_messages counts every handled event of a user, and exactly when   *)
(* none of them was redelivered.                                           *)
THEOREM TotalsAreCounted == ConvSpec => []TotalsCounted
  BY ConvInvariant, PTL DEF ConvInv

(* What was read of a sender is a prefix of what that sender sent.         *)
THEOREM ReadIsPrefix == ConvSpec => []ReadPrefix
  BY ConvInvariant, PTL DEF ConvInv
=============================================================================
