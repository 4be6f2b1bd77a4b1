------------------------------- MODULE Scoring ------------------------------
(***************************************************************************)
(* ScoringService.recalculateUser for one user, `me`: what it reads, query *)
(* by query, while messages are sent and read and matches are made, and    *)
(* the metrics it writes.  RecalcQueue is the job around it, the revision  *)
(* check and the zone transition; here one run at a time, and the zone it  *)
(* proposes.                                                               *)
(***************************************************************************)
EXTENDS ZoneMetrics, Sequences

CONSTANTS Matches,     \* matches `me` may have, one for each peer
          NoMatch,     \* none of them
          Take,        \* 500 in the code: messages a recalculation reads
          Lengths,     \* lengths a message may have
          Verdicts,    \* values is_question may have
          PastGi,      \* ghost indexes the row may start with
          MaxMessages, \* bound: messages sent
          MaxHours,    \* bound: the clock
          MaxRuns      \* bound: recalculations

ASSUME ScoringAssumption ==
    /\ NoMatch \notin Matches
    /\ Take \in Nat \ {0} /\ Lengths \subseteq Nat /\ PastGi \subseteq 0 .. Unit
    /\ Verdicts \subseteq BOOLEAN
    /\ MaxMessages \in Nat /\ MaxRuns \in Nat
    /\ MaxHours \in Nat /\ 0 .. MaxHours = DOMAIN ReplyDecay /\ 0 .. MaxHours = DOMAIN GhostDecay

VARIABLES
    messages,  \* the rows of messages, in the order of created_at
    matches,   \* the matches that exist
    metrics,   \* the row of user_metrics
    hour,      \* the clock
    pc,        \* the next query of the running recalculation
    row,       \* the row it read
    own,       \* the messages it read, by their position
    todo,      \* matches it has not begun to count
    counting,  \* the match it is counting
    unread, samples, sent,   \* what it has counted; samples: match |-> ratio
    runs,      \* recalculations so far
    scored,    \* history: all messages there were when the last one read
    blamed     \* history: [always, ever] unread while this one was running

world == <<messages, matches, hour>>
counted == <<unread, samples, sent>>
runVars == <<pc, row, own, todo, counting, counted, runs, scored>>
scoringVars == <<world, metrics, runVars, blamed>>

NotSent == -1
\* No messages, no samples.
Nothing == [x \in {} |-> 0]

\* Rows of messages, as far as the queries look at them.
MessageRow == [match : Matches, mine : BOOLEAN, at : 0 .. MaxHours, length : Lengths,
               question : BOOLEAN, read : BOOLEAN]

----------------------------------------------------------------------------
\* Queries: message.count, message.findMany

UnreadCount(m) == Cardinality({i \in DOMAIN messages : LET x == messages[i] IN
                                  x.match = m /\ ~x.mine /\ ~x.read})
Sent(m, mine) == Cardinality({i \in DOMAIN messages : LET x == messages[i] IN
                                 x.match = m /\ x.mine = mine})
Oldest(S) == {i \in S : Cardinality({j \in S : j < i}) < Take}

Unread == {m \in matches : UnreadCount(m) > 0}
\* What the runs of recalculateUser may blame on `me`, kept up by every action.
Blame == blamed' = IF pc = "idle" THEN [always |-> Unread', ever |-> Unread']
                   ELSE [always |-> blamed.always \cap Unread', ever |-> blamed.ever \cup Unread']

----------------------------------------------------------------------------
\* What happens around it

\* sendMessage; for a message of `me`, onMessageSent in the same step.
SendMessage(m, mine, length, question) ==
    /\ m \in matches /\ Len(messages) < MaxMessages
    /\ messages' = Append(messages, [match |-> m, mine |-> mine, at |-> hour, length |-> length,
                                     question |-> question, read |-> FALSE])
    /\ metrics' = IF mine THEN [metrics EXCEPT !.totalMessages = @ + 1, !.updatedAt = hour]
                  ELSE metrics
    /\ UNCHANGED <<matches, hour, runVars>>
    /\ Blame

\* markRead
MarkRead(m) ==
    /\ m \in Unread
    /\ messages' = [i \in DOMAIN messages |->
                       IF messages[i].match = m /\ ~messages[i].mine
                       THEN [messages[i] EXCEPT !.read = TRUE] ELSE messages[i]]
    /\ UNCHANGED <<matches, hour, metrics, runVars>>
    /\ Blame

CreateMatch(m) ==
    /\ m \notin matches
    /\ matches' = matches \cup {m}
    /\ UNCHANGED <<messages, hour, metrics, runVars>>
    /\ Blame

Tick ==
    /\ hour < MaxHours
    /\ hour' = hour + 1
    /\ UNCHANGED <<messages, matches, metrics, runVars>>
    /\ Blame

----------------------------------------------------------------------------
\* recalculateUser

ReadRow ==
    /\ pc = "idle" /\ runs < MaxRuns
    /\ row' = metrics
    /\ runs' = runs + 1
    /\ pc' = "messages"
    /\ UNCHANGED <<world, metrics, own, todo, counting, counted, scored>>
    /\ Blame

\* where senderId = userId, orderBy createdAt asc, take 500.
ReadMessages ==
    /\ pc = "messages"
    /\ own' = [i \in Oldest({j \in DOMAIN messages : messages[j].mine}) |-> messages[i]]
    /\ scored' = messages
    /\ pc' = "matches"
    /\ UNCHANGED <<world, metrics, row, todo, counting, counted, runs>>
    /\ Blame

ReadMatches ==
    /\ pc = "matches"
    /\ todo' = matches
    /\ unread' = 0 /\ samples' = Nothing
    /\ pc' = IF matches = {} THEN "write" ELSE "unread"
    /\ UNCHANGED <<world, metrics, row, own, counting, sent, runs, scored>>
    /\ Blame

CountUnreadAll ==                       \* mutant: own messages count as unread too
    /\ pc = "unread"
    /\ \E m \in todo :
          /\ counting' = m /\ todo' = todo \ {m}
          /\ unread' = IF \E i \in DOMAIN messages : messages[i].match = m /\ ~messages[i].read
                       THEN unread + 1 ELSE unread
    /\ pc' = "sentMine"
    /\ UNCHANGED <<world, metrics, row, own, samples, sent, runs, scored>>
    /\ Blame

\* findMany names no order: the loop takes the matches in any.
CountUnread ==
    /\ pc = "unread"
    /\ \E m \in todo :
          /\ counting' = m /\ todo' = todo \ {m}
          /\ unread' = IF UnreadCount(m) > 0 THEN unread + 1 ELSE unread
    /\ pc' = "sentMine"
    /\ UNCHANGED <<world, metrics, row, own, samples, sent, runs, scored>>
    /\ Blame

\* sentA and sentB are two queries; which of them is `me` makes no difference.
CountSentMine ==
    /\ pc = "sentMine"
    /\ sent' = Sent(counting, TRUE)
    /\ pc' = "sentTheirs"
    /\ UNCHANGED <<world, metrics, row, own, todo, counting, unread, samples, runs, scored>>
    /\ Blame

Balance(a, b) == LET most == IF a > b THEN a ELSE b
                 IN  IF most = 0 THEN 0 ELSE (Capped(a, b) * Unit) \div most

CountSentTheirs ==
    /\ pc = "sentTheirs"
    /\ samples' = [m \in DOMAIN samples \cup {counting} |->
                      IF m = counting THEN Balance(sent, Sent(counting, FALSE)) ELSE samples[m]]
    /\ counting' = NoMatch /\ sent' = NotSent
    /\ pc' = IF todo = {} THEN "write" ELSE "unread"
    /\ UNCHANGED <<world, metrics, row, own, todo, unread, runs, scored>>
    /\ Blame

\* The loop over pairs of neighbours with different senders.
Neighbours(s) == {p \in (DOMAIN s) \X (DOMAIN s) :
                    /\ p[1] < p[2] /\ \A k \in DOMAIN s : k <= p[1] \/ p[2] <= k
                    /\ s[p[1]].mine # s[p[2]].mine}
ResponseTimes(s) == [p \in Neighbours(s) |-> s[p[2]].at - s[p[1]].at]

\* matches.length || 1
Conversations == IF DOMAIN samples = {} THEN 1 ELSE Cardinality(DOMAIN samples)

Computed ==
    LET rts == computeRts(ResponseTimes(own))
        eds == computeEds([i \in DOMAIN own |-> own[i].length],
                          Cardinality({i \in DOMAIN own : own[i].question}),
                          Capped(Cardinality(DOMAIN own), 10))
        gi == computeGi(unread, Conversations, row.gi, hour - row.updatedAt)
        reciprocity == computeReciprocity(samples)
    IN  [rts |-> rts, eds |-> eds, gi |-> gi, reciprocity |-> reciprocity,
         score |-> composite(rts, eds, reciprocity, gi)]

\* The formulas, classify, and updateMany; its check of the revision succeeds.
Write ==
    /\ pc = "write"
    /\ metrics' = [metrics EXCEPT !.rts = Computed.rts, !.eds = Computed.eds, !.gi = Computed.gi,
                       !.reciprocity = Computed.reciprocity, !.compositeScore = Computed.score,
                       !.proposed = classify(Computed, row.totalMessages), !.updatedAt = hour]
    /\ pc' = "idle" /\ row' = metrics' /\ own' = Nothing /\ samples' = Nothing /\ unread' = 0
    /\ UNCHANGED <<world, todo, counting, sent, runs, scored>>
    /\ Blame

----------------------------------------------------------------------------
\* The defaults of the schema, but for the ghost index of an older row.
ScoringInit ==
    /\ messages = <<>> /\ matches = {} /\ hour = 0
    /\ \E gi \in PastGi :
          metrics = [rts |-> Unit \div 2, eds |-> Unit \div 2, gi |-> gi,
                     reciprocity |-> Unit \div 2, compositeScore |-> Unit \div 2,
                     proposed |-> "STEADY", totalMessages |-> 0, updatedAt |-> 0]
    /\ pc = "idle" /\ row = metrics /\ own = Nothing /\ todo = {} /\ counting = NoMatch
    /\ unread = 0 /\ samples = Nothing /\ sent = NotSent /\ runs = 0 /\ scored = <<>>
    /\ blamed = [always |-> {}, ever |-> {}]

Run == ReadRow \/ ReadMessages \/ ReadMatches \/ CountUnread \/ CountSentMine
       \/ CountSentTheirs \/ Write

ScoringNext ==
    \/ Run \/ Tick
    \/ \E m \in Matches :
          \/ CreateMatch(m) \/ MarkRead(m)
          \/ \E length \in Lengths : SendMessage(m, FALSE, length, FALSE)
          \/ \E length \in Lengths, question \in Verdicts : SendMessage(m, TRUE, length, question)

ScoringSpec == ScoringInit /\ [][ScoringNext]_scoringVars

----------------------------------------------------------------------------
Steps == {"idle", "messages", "matches", "unread", "sentMine", "sentTheirs", "write"}

ScoreRow == [rts : Nat, eds : Nat, gi : Nat, reciprocity : Nat, compositeScore : Int,
             proposed : {"STEADY", "GHOST_TOWN", "SPARK", "PULSE", "CHILL"},
             totalMessages : Nat, updatedAt : 0 .. MaxHours]

(* Types; no row was written later than now, and what a run has read of    *)
(* the messages are messages of `me`.                                      *)
ScoringTypeOK ==
    /\ messages \in Seq(MessageRow) /\ scored \in Seq(MessageRow)
    /\ matches \subseteq Matches /\ hour \in 0 .. MaxHours
    /\ metrics \in ScoreRow /\ metrics.updatedAt <= hour
    /\ row \in ScoreRow /\ row.updatedAt <= hour
    /\ pc \in Steps /\ runs \in 0 .. MaxRuns
    /\ own \in [DOMAIN own -> {x \in MessageRow : x.mine}] /\ IsFiniteSet(DOMAIN own)
    /\ todo \subseteq matches /\ counting \in matches \cup {NoMatch}
    /\ unread \in Nat /\ sent \in Nat \cup {NotSent}
    /\ samples \in [DOMAIN samples -> Nat] /\ DOMAIN samples \subseteq matches
    /\ blamed \in [always : SUBSET matches, ever : SUBSET matches]

(* Every metric stays in [0, 1] and the composite in [-0.2, 1], whatever   *)
(* is sent, read or matched between the queries of a run, and however      *)
(* often the ghost index is blended with its previous value                *)
(* (MetricsCalculator, recalculateUser).                                   *)
MetricsInRange ==
    /\ \A f \in {"rts", "eds", "gi", "reciprocity"} : metrics[f] \in 0 .. Unit
    /\ metrics.compositeScore \in -20 .. Unit

\* What a write may charge.
Charged ==
    LET share(S) == (Cardinality(S) * Unit) \div Conversations
        least == share(blamed.always)
        most == share(blamed.ever)
    IN  /\ least <= metrics'.gi
        /\ metrics'.gi <= most \/ 2 * metrics'.gi <= row.gi + most

(* The ghost index charges a user for what it left unread, and nothing     *)
(* else: at least the share of conversations that were unread all through  *)
(* the run, at most that of those unread at some moment of it, blended     *)
(* with the previous index (computeGi and the loop of recalculateUser).    *)
GhostIndexFair == [][(pc = "write" /\ pc' = "idle") => Charged]_scoringVars

\* Messages of s that answer the one before them in their conversation.
Previous(s, i) == {j \in 1 .. i - 1 : s[j].match = s[i].match}
Answers(s) == {i \in DOMAIN s : /\ s[i].mine
                                /\ \E j \in Previous(s, i) :
                                       ~s[j].mine /\ \A k \in Previous(s, i) : k <= j}

(* "RTS = 1.0 -> instant replies" (README.md:217): a recalculation after   *)
(* which the user has answered, each time at once, leaves RTS at its top.  *)
InstantReplies ==
    (pc = "idle" /\ Answers(scored) # {}
     /\ \A i \in Answers(scored), j \in 1 .. Len(scored) : scored[i].at = scored[j].at)
        => metrics.rts = Unit
=============================================================================
