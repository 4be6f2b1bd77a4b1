---------------------------- MODULE Conversation ----------------------------
(***************************************************************************)
(* chat-service: sendMessage and markRead as concurrent HTTP requests over *)
(* the tables messages and interactions, the MATCH_CREATED handler that    *)
(* seeds the interaction row, and scoring-service's counter of sent        *)
(* messages behind the MESSAGE_SENT events.                                *)
(*                                                                         *)
(* Each await is a step.  An awaited call that rejects has had no effect,  *)
(* and a request that dies with its process is one whose next call rejects.*)
(* The recalculations the events also cause are RecalcQueue's Trigger, and *)
(* the refine job only rewrites is_question (QuestionRefine).              *)
(***************************************************************************)
EXTENDS Naturals, Sequences, FiniteSets

CONSTANTS Users, Matches,
          Members,      \* the two users of each match
          Requests,     \* concurrent requests to chat-service
          NoRow,        \* an interaction row that does not exist
          MaxMessages,  \* bound: messages sent
          MaxTotal,     \* bound: no redelivery once a counter is there
          Faults        \* failures this instance allows

ASSUME ConversationAssumption ==
    /\ Members \in [Matches -> SUBSET Users]
    /\ NoRow \notin Nat /\ MaxMessages \in Nat /\ MaxTotal \in Nat
    /\ Faults \subseteq {"throw", "redeliver"}

VARIABLES
    messages,      \* the rows of messages in the order of created_at
    messageCount,  \* interactions.message_count per match, or NoRow
    pc,            \* where each request is
    sending,       \* the row it has created, 0 before and after
    created,       \* matches whose MATCH_CREATED is yet to be handled
    sent,          \* rows whose MESSAGE_SENT is yet to be handled
    totalMessages, \* user_metrics.total_messages
    broken,        \* history: rows whose request failed, and before which step
    lost,          \* history: rows whose MESSAGE_SENT handler failed
    redelivered    \* history: rows whose MESSAGE_SENT was handled again

requestVars == <<messages, messageCount, pc, sending, broken>>
eventVars == <<created, sent, totalMessages, lost, redelivered>>
convVars == <<requestVars, eventVars>>

SendSteps == {"enqueueRefine", "bump", "publishSent", "notifySent"}

Ids == DOMAIN messages
Sender(x) == messages[x].sender

Goto(r, step) == pc' = [pc EXCEPT ![r] = step] /\ UNCHANGED sending
Finish(r) == pc' = [pc EXCEPT ![r] = "idle"] /\ sending' = [sending EXCEPT ![r] = 0]

----------------------------------------------------------------------------
\* ChatService.sendMessage

Store(r, m, u) ==
    /\ pc[r] = "idle" /\ Len(messages) < MaxMessages
    /\ messages' = Append(messages, [match |-> m, sender |-> u, read |-> FALSE])
    /\ pc' = [pc EXCEPT ![r] = "enqueueRefine"]
    /\ sending' = [sending EXCEPT ![r] = Len(messages) + 1]
    /\ UNCHANGED <<messageCount, broken, eventVars>>

SendUnchecked(r, m, u) == Store(r, m, u) \* mutant: without assertMatchParticipant

\* assertMatchParticipant, classifySync, message.create.
SendMessage(r, m, u) == u \in Members[m] /\ Store(r, m, u)

EnqueueRefine(r) ==
    /\ pc[r] = "enqueueRefine"
    /\ Goto(r, "bump")
    /\ UNCHANGED <<messages, messageCount, broken, eventVars>>

\* interaction.upsert: create with 1, or increment in the database.
BumpInteraction(r) ==
    LET m == messages[sending[r]].match IN
    /\ pc[r] = "bump"
    /\ messageCount' = [messageCount EXCEPT ![m] = IF @ = NoRow THEN 1 ELSE @ + 1]
    /\ Goto(r, "publishSent")
    /\ UNCHANGED <<messages, broken, eventVars>>

PublishSent(r) ==
    /\ pc[r] = "publishSent"
    /\ sent' = sent \cup {sending[r]}
    /\ Goto(r, "notifySent")
    /\ UNCHANGED <<messages, messageCount, broken, created, totalMessages, lost, redelivered>>

\* redis.publish on the match's channel, then the request returns.
NotifySent(r) ==
    /\ pc[r] = "notifySent"
    /\ Finish(r)
    /\ UNCHANGED <<messages, messageCount, broken, eventVars>>

\* An awaited call rejects: the client gets a 500, what was written stays.
RequestFails(r) ==
    /\ "throw" \in Faults /\ pc[r] \in SendSteps
    /\ broken' = broken \cup {<<sending[r], pc[r]>>}
    /\ Finish(r)
    /\ UNCHANGED <<messages, messageCount, eventVars>>

----------------------------------------------------------------------------
\* ChatService.markRead: the events after the update ask for a recalculation
\* and tell open sockets.

MarkLatestRead(r, m, u) ==              \* mutant: only the last row is marked
    /\ pc[r] = "idle" /\ u \in Members[m]
    /\ messages' = [x \in Ids |-> [messages[x] EXCEPT !.read =
                      @ \/ (x = Len(messages) /\ messages[x].match = m /\ Sender(x) # u)]]
    /\ pc' = [pc EXCEPT ![r] = "announceRead"]
    /\ UNCHANGED <<messageCount, sending, broken, eventVars>>

\* updateMany where matchId, senderId not the reader, readAt null.
MarkRead(r, m, u) ==
    /\ pc[r] = "idle" /\ u \in Members[m]
    /\ messages' = [x \in Ids |-> [messages[x] EXCEPT !.read =
                      @ \/ (messages[x].match = m /\ Sender(x) # u)]]
    /\ pc' = [pc EXCEPT ![r] = "announceRead"]
    /\ UNCHANGED <<messageCount, sending, broken, eventVars>>

AnnounceRead(r) ==
    /\ pc[r] = "announceRead"
    /\ Finish(r)
    /\ UNCHANGED <<messages, messageCount, broken, eventVars>>

----------------------------------------------------------------------------
\* Consumers.  An event is handled, and handled again when its offset was not
\* committed; a handler that throws is logged and skipped (KafkaEventBus).

SeedResets(m) ==                        \* mutant: update sets the counter too
    /\ m \in created
    /\ messageCount' = [messageCount EXCEPT ![m] = 0]
    /\ created' = created \ {m}
    /\ UNCHANGED <<messages, pc, sending, broken, sent, totalMessages, lost, redelivered>>

\* interaction.upsert with an empty update.
SeedInteraction(m) ==
    /\ m \in created
    /\ messageCount' = [messageCount EXCEPT ![m] = IF @ = NoRow THEN 0 ELSE @]
    /\ \/ created' = created \ {m}
       \/ "redeliver" \in Faults /\ UNCHANGED created
    /\ UNCHANGED <<messages, pc, sending, broken, sent, totalMessages, lost, redelivered>>

SeedFails(m) ==
    /\ "throw" \in Faults /\ m \in created
    /\ created' = created \ {m}
    /\ UNCHANGED <<requestVars, sent, totalMessages, lost, redelivered>>

onMessageSentPeer(x) ==                 \* mutant: counts for the receiver
    /\ x \in sent
    /\ totalMessages' = [u \in Users |-> totalMessages[u] +
                           IF u \in Members[messages[x].match] \ {Sender(x)} THEN 1 ELSE 0]
    /\ sent' = sent \ {x}
    /\ UNCHANGED <<requestVars, created, lost, redelivered>>

\* ScoringService.onMessageSent: userMetrics.upsert, create 1 or increment.
onMessageSent(x) ==
    /\ x \in sent
    /\ totalMessages' = [totalMessages EXCEPT ![Sender(x)] = @ + 1]
    /\ \/ sent' = sent \ {x} /\ UNCHANGED redelivered
       \/ /\ "redeliver" \in Faults /\ totalMessages[Sender(x)] < MaxTotal
          /\ redelivered' = redelivered \cup {x}
          /\ UNCHANGED sent
    /\ UNCHANGED <<requestVars, created, lost>>

SentHandlerFails(x) ==
    /\ "throw" \in Faults /\ x \in sent
    /\ sent' = sent \ {x}
    /\ lost' = lost \cup {x}
    /\ UNCHANGED <<requestVars, created, totalMessages, redelivered>>

----------------------------------------------------------------------------
ConvInit ==
    /\ messages = <<>>
    /\ messageCount = [m \in Matches |-> NoRow]
    /\ pc = [r \in Requests |-> "idle"]
    /\ sending = [r \in Requests |-> 0]
    /\ created = Matches
    /\ sent = {} /\ lost = {} /\ redelivered = {} /\ broken = {}
    /\ totalMessages = [u \in Users |-> 0]

Request(r) == EnqueueRefine(r) \/ BumpInteraction(r) \/ PublishSent(r) \/ NotifySent(r)
              \/ RequestFails(r) \/ AnnounceRead(r)

Consume(x) == onMessageSent(x) \/ SentHandlerFails(x)

ConvNext ==
    \/ \E r \in Requests, m \in Matches, u \in Users : SendMessage(r, m, u) \/ MarkRead(r, m, u)
    \/ \E r \in Requests : Request(r)
    \/ \E m \in Matches : SeedInteraction(m) \/ SeedFails(m)
    \/ \E x \in Ids : Consume(x)

ConvSpec == ConvInit /\ [][ConvNext]_convVars

----------------------------------------------------------------------------
(* Types; a request knows a row exactly while it sends it, and every row's *)
(* sender is a member of its match (assertMatchParticipant).               *)
ConvTypeOK ==
    /\ messages \in Seq([match : Matches, sender : Users, read : BOOLEAN])
    /\ \A x \in Ids : Sender(x) \in Members[messages[x].match]
    /\ messageCount \in [Matches -> Nat \cup {NoRow}]
    /\ pc \in [Requests -> SendSteps \cup {"idle", "announceRead"}]
    /\ sending \in [Requests -> Ids \cup {0}]
    /\ \A r \in Requests : sending[r] # 0 <=> pc[r] \in SendSteps
    /\ created \subseteq Matches /\ sent \cup lost \cup redelivered \subseteq Ids
    /\ broken \subseteq Ids \X SendSteps
    /\ totalMessages \in [Users -> Nat]

\* The request of row x is before one of these steps, or failed there.
Before(x, steps) == \/ \E r \in Requests : sending[r] = x /\ pc[r] \in steps
                    \/ \E s \in steps : <<x, s>> \in broken

Bumped(m) == {x \in Ids : messages[x].match = m /\ ~Before(x, {"enqueueRefine", "bump"})}
Published(u) == {x \in Ids : Sender(x) = u /\ ~Before(x, {"enqueueRefine", "bump", "publishSent"})}

(* interactions.message_count counts exactly the rows whose request got    *)
(* that far: concurrent sends lose no increment, and the MATCH_CREATED     *)
(* handler, late or repeated, takes none back (sendMessage,                *)
(* MatchCreatedConsumer).                                                  *)
CountConserved ==
    \A m \in Matches : Cardinality(Bumped(m)) = IF messageCount[m] = NoRow THEN 0 ELSE messageCount[m]

(* user_metrics.total_messages counts each published message of a user     *)
(* whose event was handled, exactly once if none was delivered twice       *)
(* (ScoringService.onMessageSent behind KafkaEventBus).                    *)
TotalsCounted ==
    \A u \in Users :
        LET handled == Cardinality(Published(u) \ (sent \cup lost)) IN
        /\ totalMessages[u] >= handled
        /\ (\A x \in redelivered : Sender(x) # u) => totalMessages[u] = handled

(* What a user has read of the other's messages is a prefix of them in the *)
(* order they were sent, whatever is sent while markRead runs (markRead).  *)
ReadPrefix ==
    \A x, y \in Ids :
        (x < y /\ messages[x].match = messages[y].match /\ Sender(x) = Sender(y))
            => (messages[y].read => messages[x].read)
=============================================================================
