--------------------------- MODULE QuestionRefine ---------------------------
(***************************************************************************)
(* chat-service: is_question of a message, written with the heuristic's    *)
(* verdict when the message is sent and rewritten by a background job when *)
(* the Hugging Face model disagrees: RefineEnqueuer, the BullMQ queue,     *)
(* RefineProcessor, HuggingFaceQuestionClassifier and NetworkService.      *)
(*                                                                         *)
(* A request's timer is armed with it and cleared in `finally`, so it can  *)
(* fire exactly while the worker waits.  The warm-up call of onModuleInit  *)
(* touches no row and is left out, and so is the retention of finished     *)
(* jobs: a message is sent once, so its job id never comes back.           *)
(***************************************************************************)
EXTENDS QuestionHeuristic

CONSTANTS Messages,
          Texts,       \* what a message may say
          Workers,     \* worker slots: REFINE_CONCURRENCY over all processes
          NoText,      \* a message not sent yet, a worker without a job
          Nobody,      \* no worker
          MaxAttempts, \* the job option "attempts"
          MaxStalls,   \* BullMQ's maxStalledCount
          Faults       \* failures this instance allows

ASSUME RefineAssumption ==
    /\ Texts \subseteq Text /\ NoText \notin Text /\ NoText \notin Messages
    /\ Nobody \notin Workers
    /\ MaxAttempts \in Nat \ {0} /\ MaxStalls \in Nat
    /\ Faults \subseteq {"throw", "crash", "stall"}

VARIABLES
    token,        \* whether HF_API_TOKEN is set
    text,         \* messages.content
    isQuestion,   \* messages.is_question
    job,          \* the state of job refine-<message>
    attemptsMade, stalls, owner,   \* of that job
    pc,           \* where each worker is in process()
    message,      \* job.data.messageId
    llmVerdict,   \* what classify returned
    threw,        \* its process() is unwinding an exception
    disagreed     \* history: messages on which the model itself contradicted the heuristic

messageVars == <<text, isQuestion>>
jobVars == <<job, attemptsMade, stalls, owner>>
workerVars == <<pc, message, llmVerdict, threw>>
refineVars == <<token, messageVars, jobVars, workerVars, disagreed>>

JobStates == {"absent", "sending", "waiting", "active", "completed", "failed"}

heuristicVerdict(m) == classifySync(text[m], NoLang)

----------------------------------------------------------------------------
\* ChatService.sendMessage: classifySync, message.create, then the enqueue.

SendMessage(m, t) ==
    /\ text[m] = NoText
    /\ text' = [text EXCEPT ![m] = t]
    /\ isQuestion' = [isQuestion EXCEPT ![m] = classifySync(t, NoLang)]
    /\ job' = [job EXCEPT ![m] = "sending"]
    /\ UNCHANGED <<token, attemptsMade, stalls, owner, workerVars, disagreed>>

\* queue.add; when it rejects the row stays and has no job.
EnqueueRefine(m) ==
    /\ job[m] = "sending"
    /\ \/ job' = [job EXCEPT ![m] = "waiting"]
       \/ "throw" \in Faults /\ job' = [job EXCEPT ![m] = "absent"]
    /\ UNCHANGED <<token, messageVars, attemptsMade, stalls, owner, workerVars, disagreed>>

----------------------------------------------------------------------------
\* RefineProcessor.process

\* classify returned v: done if it agrees, else the row is updated.
Decide(w, m, v) ==
    /\ llmVerdict' = [llmVerdict EXCEPT ![w] = v]
    /\ pc' = [pc EXCEPT ![w] = IF v = heuristicVerdict(m) THEN "ack" ELSE "write"]

\* Without a token classify is the heuristic; with one it is a request.
TakeJob(w, m) ==
    /\ pc[w] = "idle" /\ job[m] = "waiting"
    /\ job' = [job EXCEPT ![m] = "active"]
    /\ owner' = [owner EXCEPT ![m] = w]
    /\ message' = [message EXCEPT ![w] = m]
    /\ IF token THEN pc' = [pc EXCEPT ![w] = "request"] /\ UNCHANGED llmVerdict
       ELSE Decide(w, m, heuristicVerdict(m))
    /\ UNCHANGED <<token, messageVars, attemptsMade, stalls, threw, disagreed>>

\* A 2xx answer with a first label: "question" or another one.
Answered(w, v) ==
    LET m == message[w] IN
    /\ pc[w] = "request"
    /\ Decide(w, m, v)
    /\ disagreed' = IF v = heuristicVerdict(m) THEN disagreed ELSE disagreed \cup {m}
    /\ UNCHANGED <<token, messageVars, jobVars, message, threw>>

FallbackFalse(w) ==                     \* mutant: a failed call counts as "no question"
    /\ pc[w] = "request"
    /\ Decide(w, message[w], FALSE)
    /\ UNCHANGED <<token, messageVars, jobVars, message, threw, disagreed>>

\* Any other answer, a body without a label, a refused connection, or the
\* timer's abort: classify falls back to the heuristic.
Fallback(w) ==
    /\ pc[w] = "request"
    /\ Decide(w, message[w], heuristicVerdict(message[w]))
    /\ UNCHANGED <<token, messageVars, jobVars, message, threw, disagreed>>

CallFails(w) == Fallback(w)

TimerNeverSet(w) == FALSE /\ Fallback(w) \* mutant: no timer

TimerFires(w) == Fallback(w)

\* message.update
WriteVerdict(w) ==
    /\ pc[w] = "write"
    /\ isQuestion' = [isQuestion EXCEPT ![message[w]] = llmVerdict[w]]
    /\ pc' = [pc EXCEPT ![w] = "ack"]
    /\ UNCHANGED <<token, text, jobVars, message, llmVerdict, threw, disagreed>>

WriteRejects(w) ==
    /\ "throw" \in Faults /\ pc[w] = "write"
    /\ threw' = [threw EXCEPT ![w] = TRUE]
    /\ pc' = [pc EXCEPT ![w] = "ack"]
    /\ UNCHANGED <<token, messageVars, jobVars, message, llmVerdict, disagreed>>

Return(w) == /\ pc' = [pc EXCEPT ![w] = "idle"]
             /\ message' = [message EXCEPT ![w] = NoText]
             /\ llmVerdict' = [llmVerdict EXCEPT ![w] = FALSE]
             /\ threw' = [threw EXCEPT ![w] = FALSE]

----------------------------------------------------------------------------
\* BullMQ, as the options of RefineEnqueuer and the Processor use it.

attemptsLeft(m) == attemptsMade[m] + 1 < MaxAttempts

\* A failed attempt is tried again after its backoff while attempts are left.
Acknowledge(w) ==
    LET m == message[w] IN
    /\ pc[w] = "ack"
    /\ Return(w)
    /\ IF owner[m] # w THEN UNCHANGED jobVars
       ELSE /\ owner' = [owner EXCEPT ![m] = Nobody]
            /\ attemptsMade' = IF threw[w] THEN [attemptsMade EXCEPT ![m] = @ + 1] ELSE attemptsMade
            /\ job' = [job EXCEPT ![m] = IF ~threw[w] THEN "completed"
                                         ELSE IF attemptsLeft(m) THEN "waiting" ELSE "failed"]
            /\ UNCHANGED stalls
    /\ UNCHANGED <<token, messageVars, disagreed>>

\* The worker died, or is alive and blocked ("stall"): another gets the job.
Stalled(m) ==
    /\ job[m] = "active"
    /\ owner[m] = Nobody \/ "stall" \in Faults
    /\ owner' = [owner EXCEPT ![m] = Nobody]
    /\ stalls' = [stalls EXCEPT ![m] = @ + 1]
    /\ job' = [job EXCEPT ![m] = IF stalls[m] < MaxStalls THEN "waiting" ELSE "failed"]
    /\ UNCHANGED <<token, messageVars, attemptsMade, workerVars, disagreed>>

Crash(w) ==
    /\ "crash" \in Faults /\ pc[w] # "idle"
    /\ Return(w)
    /\ owner' = [m \in Messages |-> IF owner[m] = w THEN Nobody ELSE owner[m]]
    /\ UNCHANGED <<token, messageVars, job, attemptsMade, stalls, disagreed>>

----------------------------------------------------------------------------
RefineInit ==
    /\ token \in BOOLEAN
    /\ text = [m \in Messages |-> NoText]
    /\ isQuestion = [m \in Messages |-> FALSE]
    /\ job = [m \in Messages |-> "absent"]
    /\ attemptsMade = [m \in Messages |-> 0]
    /\ stalls = [m \in Messages |-> 0]
    /\ owner = [m \in Messages |-> Nobody]
    /\ pc = [w \in Workers |-> "idle"]
    /\ message = [w \in Workers |-> NoText]
    /\ llmVerdict = [w \in Workers |-> FALSE]
    /\ threw = [w \in Workers |-> FALSE]
    /\ disagreed = {}

Work(w) == TimerFires(w) \/ WriteVerdict(w) \/ WriteRejects(w) \/ Acknowledge(w)

RefineNext ==
    \/ \E m \in Messages : EnqueueRefine(m) \/ Stalled(m) \/ \E t \in Texts : SendMessage(m, t)
    \/ \E w \in Workers : \/ Work(w) \/ CallFails(w) \/ Crash(w)
                          \/ \E v \in BOOLEAN : Answered(w, v)
                          \/ \E m \in Messages : TakeJob(w, m)

RefineSpec == RefineInit /\ [][RefineNext]_refineVars

\* Workers poll and go on, the timer of a request fires, and BullMQ looks for
\* jobs nobody renews.  That Hugging Face answers is not assumed.
RefineFairness ==
    /\ \A w \in Workers : WF_refineVars(Work(w))
    /\ \A m \in Messages : /\ WF_refineVars(\E w \in Workers : TakeJob(w, m))
                           /\ WF_refineVars(owner[m] = Nobody /\ Stalled(m))

RefineFairSpec == RefineSpec /\ RefineFairness

----------------------------------------------------------------------------
(* Types; a worker past "idle" has a message that was sent, and an active  *)
(* job's owner works on it.                                                *)
RefineTypeOK ==
    /\ token \in BOOLEAN
    /\ text \in [Messages -> Texts \cup {NoText}] /\ isQuestion \in [Messages -> BOOLEAN]
    /\ job \in [Messages -> JobStates] /\ owner \in [Messages -> Workers \cup {Nobody}]
    /\ attemptsMade \in [Messages -> 0 .. MaxAttempts] /\ stalls \in [Messages -> 0 .. MaxStalls + 1]
    /\ pc \in [Workers -> {"idle", "request", "write", "ack"}]
    /\ message \in [Workers -> Messages \cup {NoText}]
    /\ llmVerdict \in [Workers -> BOOLEAN] /\ threw \in [Workers -> BOOLEAN]
    /\ disagreed \subseteq Messages
    /\ \A m \in Messages : text[m] = NoText => job[m] = "absent"
    /\ \A w \in Workers : pc[w] # "idle" => message[w] \in Messages /\ text[message[w]] # NoText

(* is_question is rewritten at most once, away from the heuristic's        *)
(* verdict, and only on the model's own word: retries, a worker that       *)
(* stalls and goes on, and failed calls never rewrite it back              *)
(* (RefineProcessor.process, HuggingFaceQuestionClassifier.classify).      *)
RefinedOnce ==
    [][\A m \in Messages :
          (text[m] # NoText /\ isQuestion'[m] # isQuestion[m])
              => isQuestion[m] = heuristicVerdict(m) /\ m \in disagreed]_refineVars

(* A message that asks by the rules of a language counts as a question     *)
(* unless another script in it misleads or the model disagreed, Japanese   *)
(* with kanji and the Greek question mark included; a message that asks by *)
(* no rule counts as none, a semicolon outside Greek included              *)
(* (classifySync, detectScript).                                           *)
QuestionsCounted ==
    \A m \in Messages :
        LET t == text[m]
            asked == {l \in StarterLangs \cup {"el"} : Asks(t, l)}
        IN  (t # NoText /\ m \notin disagreed) =>
                /\ (\E l \in asked : ~Misleads(t, l)) => isQuestion[m]
                /\ asked = {} => ~isQuestion[m]

(* Every job comes to rest, whether or not Hugging Face ever answers: the  *)
(* timer ends the call, attempts and stalls are bounded.                   *)
RefineSettles ==
    \A m \in Messages : job[m] = "waiting" ~> job[m] \in {"completed", "failed"}
=============================================================================
