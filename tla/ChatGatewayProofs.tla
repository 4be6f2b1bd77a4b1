------------------------- MODULE ChatGatewayProofs -------------------------
(***************************************************************************)
(* Theorems about ChatGateway, for any number of sockets, matches and      *)
(* calls of join.                                                          *)
(***************************************************************************)
EXTENDS ChatGateway, TLAPS

USE GatewayAssumption

(* userId is set once, by the one verification of the socket; handlers of  *)
(* a disconnect run on closed sockets only.                                *)
SocketSteps ==
    \A s \in Sockets :
        /\ (socket[s] = "new" \/ verifying[s]) => ~userId[s]
        /\ socket[s] = "new" => ~verifying[s]
        /\ leaving[s] => socket[s] = "closed"

(* A call of join that got past the check belongs to a verified socket of  *)
(* a participant.                                                          *)
JoinsAuthorized ==
    \A b \in Subscribers :
        sub[b] # "unused" => userId[client[b]] /\ channel[b] \in MatchesOf[client[b]]

GatewayInv == /\ GatewayTypeOK /\ SocketSteps /\ JoinsAuthorized
              /\ SubscribersTracked /\ DisconnectCloses /\ OnlyParticipants

LEMMA GatewayInitInv == GatewayInit => GatewayInv
  BY DEF GatewayInit, GatewayInv, GatewayTypeOK, SocketSteps, JoinsAuthorized, SubscribersTracked,
         DisconnectCloses, OnlyParticipants, SubStates, Open

\* What each callback does, for the steps below.
LEMMA GatewayStep ==
  ASSUME GatewayInv, [GatewayNext]_gatewayVars
  PROVE  GatewayInv'
  <1> USE DEF GatewayInv, GatewayTypeOK, SubStates, socketVars, joinVars
  <1>1. ASSUME NEW s \in Sockets, Connect(s) PROVE GatewayInv'
    BY <1>1 DEF Connect, SocketSteps, JoinsAuthorized, SubscribersTracked, DisconnectCloses,
                OnlyParticipants, Open
  <1>2. ASSUME NEW s \in Sockets, Verified(s) PROVE GatewayInv'
    <2>1. \A b \in Subscribers : sub[b] # "unused" => client[b] # s
      BY <1>2 DEF Verified, SocketSteps, JoinsAuthorized
    <2>2. GatewayTypeOK'
      BY <1>2 DEF Verified
    <2>3. SocketSteps' /\ JoinsAuthorized' /\ DisconnectCloses' /\ OnlyParticipants'
      BY <1>2 DEF Verified, SocketSteps, JoinsAuthorized, DisconnectCloses, OnlyParticipants, Open
    <2>4. SubscribersTracked'
      BY <1>2, <2>1 DEF Verified, SubscribersTracked, Open
    <2> QED  BY <2>2, <2>3, <2>4
  <1>3. ASSUME NEW s \in Sockets, CloseSocket(s), verifying' = verifying \/ verifying' = [verifying EXCEPT ![s] = FALSE]
        PROVE  GatewayInv'
    <2>0. \A b \in Subscribers : sub'[b] = IF b \in socketSubs[s] THEN "dead" ELSE sub[b]
      BY <1>3 DEF CloseSocket
    <2>1. GatewayTypeOK'
      <3>1. \A b \in Subscribers : sub[b] = "unused" => b \notin socketSubs[s]
        OBVIOUS
      <3>2. \A b \in Subscribers : IF sub'[b] = "unused" THEN client'[b] = NoSocket /\ channel'[b] = NoMatch
                                  ELSE client'[b] \in Sockets /\ channel'[b] \in Matches
        BY <1>3, <2>0, <3>1 DEF CloseSocket
      <3>3. sub' \in [Subscribers -> SubStates]
        BY <1>3 DEF CloseSocket
      <3>4. socket' \in [Sockets -> {"new", "open", "closed"}] /\ leaving' \in [Sockets -> BOOLEAN]
            /\ verifying' \in [Sockets -> BOOLEAN]
        BY <1>3 DEF CloseSocket
      <3> QED  BY <1>3, <3>2, <3>3, <3>4 DEF CloseSocket
    <2>2. SocketSteps' /\ JoinsAuthorized' /\ OnlyParticipants'
      <3>1. SocketSteps'
        BY <1>3 DEF CloseSocket, SocketSteps
      <3>2. \A b \in Subscribers : sub'[b] # "unused" => sub[b] # "unused"
        BY <2>0
      <3> QED  BY <1>3, <3>1, <3>2 DEF CloseSocket, JoinsAuthorized, OnlyParticipants
    <2>3. SubscribersTracked'
      BY <1>3 DEF CloseSocket, SubscribersTracked, Open
    <2>4. DisconnectCloses'
      BY <1>3 DEF CloseSocket, SubscribersTracked, DisconnectCloses, Open
    <2> QED  BY <2>1, <2>2, <2>3, <2>4
  <1>4. ASSUME NEW s \in Sockets, Disconnect(s) PROVE GatewayInv'
    BY <1>3, <1>4 DEF Disconnect
  <1>5. ASSUME NEW s \in Sockets, Rejected(s) PROVE GatewayInv'
    <2>1. CASE CloseSocket(s)
      BY <1>3, <1>5, <2>1 DEF Rejected
    <2>2. CASE UNCHANGED <<socket, userId, leaving, socketSubs, joinVars, emitted>>
      BY <1>5, <2>2 DEF Rejected, SocketSteps, JoinsAuthorized, SubscribersTracked, DisconnectCloses,
                        OnlyParticipants, Open
    <2> QED  BY <1>5, <2>1, <2>2 DEF Rejected
  <1>6. ASSUME NEW s \in Sockets, ForgetSubs(s) PROVE GatewayInv'
    BY <1>6 DEF ForgetSubs, SocketSteps, JoinsAuthorized, SubscribersTracked, DisconnectCloses,
                OnlyParticipants, Open
  <1>7. ASSUME NEW b \in Subscribers, NEW s \in Sockets, NEW m \in Matches, Join(b, s, m)
        PROVE  GatewayInv'
    <2>1. GatewayTypeOK'
      <3>1. \A t \in Sockets : b \notin socketSubs[t]
        BY <1>7 DEF Join
      <3> QED  BY <1>7, <3>1 DEF Join
    <2>2. SocketSteps' /\ JoinsAuthorized' /\ OnlyParticipants'
      BY <1>7 DEF Join, assertMatchParticipant, SocketSteps, JoinsAuthorized, OnlyParticipants
    <2>3. SubscribersTracked' /\ DisconnectCloses'
      BY <1>7 DEF Join, SubscribersTracked, DisconnectCloses, Open
    <2> QED  BY <2>1, <2>2, <2>3
  <1>8. ASSUME NEW b \in Subscribers, OpenSubscriber(b) PROVE GatewayInv'
    <2>1. client[b] \in Sockets
      BY <1>8 DEF OpenSubscriber
    <2>2. GatewayTypeOK'
      BY <1>8, <2>1 DEF OpenSubscriber
    <2>3. SocketSteps' /\ JoinsAuthorized' /\ OnlyParticipants'
      BY <1>8 DEF OpenSubscriber, SocketSteps, JoinsAuthorized, OnlyParticipants
    <2>4. SubscribersTracked' /\ DisconnectCloses'
      BY <1>8, <2>1 DEF OpenSubscriber, SubscribersTracked, DisconnectCloses, Open
    <2> QED  BY <2>2, <2>3, <2>4
  <1>9. ASSUME NEW b \in Subscribers, Subscribed(b) \/ Listen(b) \/ JoinFails(b) PROVE GatewayInv'
    BY <1>9 DEF Subscribed, Listen, JoinFails, SocketSteps, JoinsAuthorized, SubscribersTracked,
                DisconnectCloses, OnlyParticipants, Open
  <1>10. ASSUME NEW m \in Matches, Publish(m) PROVE GatewayInv'
    <2>1. \A b \in Subscribers : (sub[b] = "listening" /\ channel[b] = m) =>
             client[b] \in Sockets /\ userId[client[b]] /\ m \in MatchesOf[client[b]]
      BY DEF JoinsAuthorized
    <2>2. GatewayTypeOK' /\ OnlyParticipants'
      BY <1>10, <2>1 DEF Publish, OnlyParticipants
    <2>3. SocketSteps' /\ JoinsAuthorized' /\ SubscribersTracked' /\ DisconnectCloses'
      BY <1>10 DEF Publish, SocketSteps, JoinsAuthorized, SubscribersTracked, DisconnectCloses, Open
    <2> QED  BY <2>2, <2>3
  <1>11. ASSUME NEW m \in Matches, NEW s \in Sockets, Typing(s, m) PROVE GatewayInv'
    <2>1. \A q \in Sockets : InRoom(q, m) => userId[q] /\ m \in MatchesOf[q]
      BY DEF InRoom, Open, JoinsAuthorized
    <2>2. GatewayTypeOK' /\ OnlyParticipants'
      BY <1>11, <2>1 DEF Typing, OnlyParticipants
    <2>3. SocketSteps' /\ JoinsAuthorized' /\ SubscribersTracked' /\ DisconnectCloses'
      BY <1>11 DEF Typing, SocketSteps, JoinsAuthorized, SubscribersTracked, DisconnectCloses, Open
    <2> QED  BY <2>2, <2>3
  <1>12. CASE UNCHANGED gatewayVars
    BY <1>12 DEF gatewayVars, SocketSteps, JoinsAuthorized, SubscribersTracked, DisconnectCloses,
                 OnlyParticipants, Open
  <1> QED
    BY <1>1, <1>2, <1>4, <1>5, <1>6, <1>7, <1>8, <1>9, <1>10, <1>11, <1>12 DEF GatewayNext

----------------------------------------------------------------------------
(* The inductive invariant of ChatGateway.                                 *)
THEOREM GatewayInvariant == GatewaySpec => []GatewayInv
  BY GatewayInitInv, GatewayStep, PTL DEF GatewaySpec

(* The type invariant of ChatGateway.                                      *)
THEOREM GatewayTypeCorrect == GatewaySpec => []GatewayTypeOK
  <1>1. GatewayInv => GatewayTypeOK
    BY DEF GatewayInv
  <1> QED  BY <1>1, GatewayInvariant, PTL

(* However verification, joins and the disconnect of a socket interleave,  *)
(* no subscriber opened while the socket lived outlives it.                *)
THEOREM OpenedThenClosed == GatewaySpec => []DisconnectCloses
  <1>1. GatewayInv => DisconnectCloses
    BY DEF GatewayInv
  <1> QED  BY <1>1, GatewayInvariant, PTL

(* The Map holds every open subscriber of a living socket.                 *)
THEOREM AllTracked == GatewaySpec => []SubscribersTracked
  <1>1. GatewayInv => SubscribersTracked
    BY DEF GatewayInv
  <1> QED  BY <1>1, GatewayInvariant, PTL

(* Events and typing indicators reach verified participants only.          *)
THEOREM EventsStayInside == GatewaySpec => []OnlyParticipants
  <1>1. GatewayInv => OnlyParticipants
    BY DEF GatewayInv
  <1> QED  BY <1>1, GatewayInvariant, PTL
=============================================================================
