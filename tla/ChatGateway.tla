---------------------------- MODULE ChatGateway ----------------------------
(***************************************************************************)
(* chat-service's WebSocket gateway: handleConnection, handleDisconnect,   *)
(* join and typing, which run as interleaved callbacks of one event loop, and the *)
(* Redis subscribers each join opens for its socket.                       *)
(*                                                                         *)
(* A call of join is identified with the subscriber it opens.  What runs   *)
(* between two awaits is one step.                                         *)
(***************************************************************************)
CONSTANTS Sockets,      \* socket ids, each used for one connection
          Matches,
          MatchesOf,    \* the matches the user of each socket takes part in
          Subscribers,  \* bound: calls of join
          NoSocket, NoMatch,
          Faults        \* failures this instance allows

ASSUME GatewayAssumption ==
    /\ MatchesOf \in [Sockets -> SUBSET Matches]
    /\ NoSocket \notin Sockets /\ NoMatch \notin Matches
    /\ Faults \subseteq {"throw"}

VARIABLES
    socket,      \* "new", "open" or "closed"
    userId,      \* whether client.data.userId is set
    verifying,   \* handleConnection awaits verifyAsync
    leaving,     \* handleDisconnect awaits the subscribers' disconnect()
    socketSubs,  \* the Map: tracked subscribers of a socket, {} without an entry
    client,      \* the socket a call of join belongs to
    channel,     \* its match
    sub,         \* the step of that call and the state of its subscriber
    emitted,     \* history: pairs <<socket, match>> of the events emitted
    late         \* history: subscribers opened after their socket closed

socketVars == <<socket, userId, verifying, leaving>>
joinVars == <<client, channel, sub, late>>
gatewayVars == <<socketVars, socketSubs, joinVars, emitted>>

\* "asserting": before duplicate().  "connecting": subscribe is awaited.
\* "subscribed": Redis delivers, but no listener yet.  "dead": disconnected, or
\* the call of join ended before it opened one.
SubStates == {"unused", "asserting", "connecting", "subscribed", "listening", "dead"}
Open(b) == sub[b] \in {"connecting", "subscribed", "listening"}

----------------------------------------------------------------------------
\* handleConnection

Connect(s) ==
    /\ socket[s] = "new"
    /\ socket' = [socket EXCEPT ![s] = "open"]
    /\ verifying' = [verifying EXCEPT ![s] = TRUE]
    /\ UNCHANGED <<userId, leaving, socketSubs, joinVars, emitted>>

\* The token is good: the list is set whether or not the socket still lives.
Verified(s) ==
    /\ verifying[s]
    /\ verifying' = [verifying EXCEPT ![s] = FALSE]
    /\ userId' = [userId EXCEPT ![s] = TRUE]
    /\ socketSubs' = [socketSubs EXCEPT ![s] = {}]
    /\ UNCHANGED <<socket, leaving, joinVars, emitted>>

----------------------------------------------------------------------------
\* handleDisconnect, up to its await: s.disconnect() on every tracked subscriber.

CloseSocket(s) ==
    /\ socket[s] = "open"
    /\ socket' = [socket EXCEPT ![s] = "closed"]
    /\ leaving' = [leaving EXCEPT ![s] = TRUE]
    /\ sub' = [b \in Subscribers |-> IF b \in socketSubs[s] THEN "dead" ELSE sub[b]]
    /\ UNCHANGED <<userId, socketSubs, client, channel, late, emitted>>

Disconnect(s) == CloseSocket(s) /\ UNCHANGED verifying

\* The token is bad: client.disconnect().
Rejected(s) ==
    /\ verifying[s]
    /\ verifying' = [verifying EXCEPT ![s] = FALSE]
    /\ \/ CloseSocket(s)
       \/ /\ socket[s] = "closed"
          /\ UNCHANGED <<socket, userId, leaving, socketSubs, joinVars, emitted>>

ForgetSubs(s) ==
    /\ leaving[s]
    /\ leaving' = [leaving EXCEPT ![s] = FALSE]
    /\ socketSubs' = [socketSubs EXCEPT ![s] = {}]
    /\ UNCHANGED <<socket, userId, verifying, joinVars, emitted>>

----------------------------------------------------------------------------
\* join

assertAnyone(s, m) == TRUE              \* mutant: no authorization
assertVerified(s, m) == userId[s]       \* mutant: any verified user

\* ChatService.assertMatchParticipant(matchId, client.data.userId)
assertMatchParticipant(s, m) == userId[s] /\ m \in MatchesOf[s]

Join(b, s, m) ==
    /\ socket[s] = "open" /\ sub[b] = "unused"
    /\ assertMatchParticipant(s, m)
    /\ client' = [client EXCEPT ![b] = s]
    /\ channel' = [channel EXCEPT ![b] = m]
    /\ sub' = [sub EXCEPT ![b] = "asserting"]
    /\ UNCHANGED <<socketVars, socketSubs, late, emitted>>

OpenUntracked(b) ==                     \* mutant: tracked once it is subscribed
    /\ sub[b] = "asserting"
    /\ sub' = [sub EXCEPT ![b] = "connecting"]
    /\ late' = IF socket[client[b]] = "closed" THEN late \cup {b} ELSE late
    /\ UNCHANGED <<socketVars, socketSubs, client, channel, emitted>>

\* The match was found and the room joined: duplicate(), push, subscribe().
\* Nothing asks whether the socket is still connected.
OpenSubscriber(b) ==
    LET s == client[b] IN
    /\ sub[b] = "asserting"
    /\ sub' = [sub EXCEPT ![b] = "connecting"]
    /\ socketSubs' = [socketSubs EXCEPT ![s] = @ \cup {b}]
    /\ late' = IF socket[s] = "closed" THEN late \cup {b} ELSE late
    /\ UNCHANGED <<socketVars, client, channel, emitted>>

Subscribed(b) ==
    /\ sub[b] = "connecting"
    /\ sub' = [sub EXCEPT ![b] = "subscribed"]
    /\ UNCHANGED <<socketVars, socketSubs, client, channel, late, emitted>>

\* The await of subscribe() resolved: sub.on('message').
Listen(b) ==
    /\ sub[b] = "subscribed"
    /\ sub' = [sub EXCEPT ![b] = "listening"]
    /\ UNCHANGED <<socketVars, socketSubs, client, channel, late, emitted>>

\* The lookup of the match rejects.
JoinFails(b) ==
    /\ "throw" \in Faults /\ sub[b] = "asserting"
    /\ sub' = [sub EXCEPT ![b] = "dead"]
    /\ UNCHANGED <<socketVars, socketSubs, client, channel, late, emitted>>

----------------------------------------------------------------------------
\* ChatService publishes on match:<m>; client.emit on a closed socket is void.
Publish(m) ==
    LET reached == {b \in Subscribers : sub[b] = "listening" /\ channel[b] = m} IN
    /\ emitted' = emitted \cup {<<client[b], m>> : b \in {b \in reached : socket[client[b]] = "open"}}
    /\ UNCHANGED <<socketVars, socketSubs, joinVars>>

----------------------------------------------------------------------------
\* The room of a match: client.join comes right before duplicate(), a socket
\* leaves its rooms when it closes.
InRoom(s, m) == socket[s] = "open" /\ \E b \in Subscribers : client[b] = s /\ channel[b] = m /\ Open(b)

\* typing: to the others in the room; nothing is asked of the sender.
Typing(s, m) ==
    /\ socket[s] = "open"
    /\ emitted' = emitted \cup {<<q, m>> : q \in {q \in Sockets \ {s} : InRoom(q, m)}}
    /\ UNCHANGED <<socketVars, socketSubs, joinVars>>

----------------------------------------------------------------------------
GatewayInit ==
    /\ socket = [s \in Sockets |-> "new"]
    /\ userId = [s \in Sockets |-> FALSE]
    /\ verifying = [s \in Sockets |-> FALSE]
    /\ leaving = [s \in Sockets |-> FALSE]
    /\ socketSubs = [s \in Sockets |-> {}]
    /\ client = [b \in Subscribers |-> NoSocket]
    /\ channel = [b \in Subscribers |-> NoMatch]
    /\ sub = [b \in Subscribers |-> "unused"]
    /\ emitted = {} /\ late = {}

GatewayNext ==
    \/ \E s \in Sockets : \/ Connect(s) \/ Verified(s) \/ Rejected(s)
                          \/ Disconnect(s) \/ ForgetSubs(s)
    \/ \E b \in Subscribers : \/ OpenSubscriber(b) \/ Subscribed(b) \/ Listen(b) \/ JoinFails(b)
                              \/ \E s \in Sockets, m \in Matches : Join(b, s, m)
    \/ \E m \in Matches : Publish(m) \/ \E s \in Sockets : Typing(s, m)

GatewaySpec == GatewayInit /\ [][GatewayNext]_gatewayVars

----------------------------------------------------------------------------
(* Types; a call of join has a socket and a match from its start.          *)
GatewayTypeOK ==
    /\ socket \in [Sockets -> {"new", "open", "closed"}]
    /\ userId \in [Sockets -> BOOLEAN]
    /\ verifying \in [Sockets -> BOOLEAN] /\ leaving \in [Sockets -> BOOLEAN]
    /\ socketSubs \in [Sockets -> SUBSET Subscribers]
    /\ client \in [Subscribers -> Sockets \cup {NoSocket}]
    /\ channel \in [Subscribers -> Matches \cup {NoMatch}]
    /\ sub \in [Subscribers -> SubStates]
    /\ \A b \in Subscribers : IF sub[b] = "unused" THEN client[b] = NoSocket /\ channel[b] = NoMatch
                              ELSE client[b] \in Sockets /\ channel[b] \in Matches
    /\ \A s \in Sockets : socketSubs[s] \subseteq {b \in Subscribers : client[b] = s}
    /\ emitted \subseteq Sockets \X Matches /\ late \subseteq Subscribers

(* While a socket lives, the Map holds every subscriber opened for it:     *)
(* handleConnection, whose verification resolves at any time, never        *)
(* replaces a list join already pushed to.                                 *)
SubscribersTracked ==
    \A b \in Subscribers : (Open(b) /\ socket[client[b]] = "open") => b \in socketSubs[client[b]]

(* No subscriber opened while its socket lived outlives it: whichever      *)
(* await of join the disconnect finds it in, it is closed with the socket. *)
DisconnectCloses ==
    \A b \in Subscribers : (Open(b) /\ socket[client[b]] = "closed") => b \in late

(* A socket is sent events and typing indicators only of matches its       *)
(* verified user takes part in, although messages of a socket run before   *)
(* its token is verified and anyone may signal typing.                     *)
OnlyParticipants ==
    \A s \in Sockets, m \in Matches : <<s, m>> \in emitted => userId[s] /\ m \in MatchesOf[s]

=============================================================================
