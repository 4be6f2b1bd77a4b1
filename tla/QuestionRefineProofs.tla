------------------------ MODULE QuestionRefineProofs ------------------------
(***************************************************************************)
(* What QuestionRefine shows for every set of messages, texts and workers  *)
(* and every mix of faults: which questions the heuristic recognises and   *)
(* which it misses, and that is_question changes at most once.             *)
(***************************************************************************)
EXTENDS QuestionRefine, TLAPS

----------------------------------------------------------------------------
\* The heuristic

\* The script test that answers is the first one of ScriptOrder that hits.
LEMMA FirstHit ==
  ASSUME NEW t \in Text, NEW i \in 1 .. 6, ScriptOrder[i] \in t.scripts,
         \A j \in 1 .. 6 : ScriptOrder[j] \in t.scripts => i <= j
  PROVE  detectScript(t) = ScriptOrder[i]
  <1> DEFINE hits == {k \in 1 .. 6 : ScriptOrder[k] \in t.scripts}
             least == CHOOSE k \in hits : \A j \in hits : k <= j
  <1>1. i \in hits /\ \A j \in hits : i <= j
    OBVIOUS
  <1>2. least \in hits /\ \A j \in hits : least <= j
    <2>1. \E k \in hits : \A j \in hits : k <= j
      BY <1>1
    <2> QED  BY <2>1
  <1>3. least = i
    BY <1>1, <1>2
  <1>4. detectScript(t) = IF hits = {} THEN NoLang ELSE ScriptOrder[least]
    BY DEF detectScript
  <1> QED  BY <1>1, <1>3, <1>4

\* What the script test answers: nothing for a text without a script of the
\* list, else the one that no other in the text is tested before.
LEMMA ScriptFound ==
  ASSUME NEW t \in Text
  PROVE  \/ t.scripts = {} /\ detectScript(t) = NoLang
         \/ /\ detectScript(t) \in t.scripts
            /\ \A s \in t.scripts \ {detectScript(t)} : /\ TestedBefore(detectScript(t), s)
                                                        /\ ~TestedBefore(s, detectScript(t))
  <1>1. /\ ScriptOrder[1] = "he" /\ ScriptOrder[2] = "ar" /\ ScriptOrder[3] = "ja"
        /\ ScriptOrder[4] = "zh" /\ ScriptOrder[5] = "ru" /\ ScriptOrder[6] = "el"
    BY DEF ScriptOrder
  <1>2. t.scripts \subseteq Scripts
    BY DEF Text, Looks
  <1>3. CASE t.scripts = {}
    <2>1. {i \in 1 .. 6 : ScriptOrder[i] \in t.scripts} = {}
      BY <1>3
    <2> QED  BY <1>3, <2>1 DEF detectScript
  <1>4. CASE t.scripts # {}
    <2>1. \A s \in Scripts : \E i \in 1 .. 6 : ScriptOrder[i] = s
      BY <1>1 DEF Scripts
    <2>2. \A i, j \in 1 .. 6 : ScriptOrder[i] = ScriptOrder[j] => i = j
      BY <1>1
    <2>3. PICK i \in 1 .. 6 : /\ ScriptOrder[i] \in t.scripts
                              /\ \A j \in 1 .. 6 : ScriptOrder[j] \in t.scripts => i <= j
      <3>1. \E i \in 1 .. 6 : ScriptOrder[i] \in t.scripts
        BY <1>2, <1>4, <2>1
      <3> QED  BY <3>1
    <2>4. detectScript(t) = ScriptOrder[i]
      BY <2>3, FirstHit
    <2>5. ASSUME NEW s \in t.scripts, s # ScriptOrder[i]
          PROVE  TestedBefore(ScriptOrder[i], s) /\ ~TestedBefore(s, ScriptOrder[i])
      <3>1. PICK j \in 1 .. 6 : ScriptOrder[j] = s
        BY <1>2, <2>1
      <3>2. i < j
        BY <2>3, <2>5, <3>1
      <3>3. \A k, l \in 1 .. 6 : (ScriptOrder[k] = s /\ ScriptOrder[l] = ScriptOrder[i]) => k = j /\ l = i
        BY <2>2, <3>1
      <3> QED  BY <3>1, <3>2, <3>3 DEF TestedBefore
    <2> QED  BY <2>3, <2>4, <2>5
  <1> QED  BY <1>3, <1>4

LEMMA GreekIsLast ==
  ASSUME NEW s \in Scripts \ {"el"}
  PROVE  TestedBefore(s, "el")
  <1>1. ScriptOrder = <<"he", "ar", "ja", "zh", "ru", "el">>
    BY DEF ScriptOrder
  <1> QED  BY <1>1 DEF Scripts, TestedBefore

\* A script other than Greek that is found is one that misleads about every
\* other language; Greek, or none, is found only where none does.
LEMMA FoundOrMisled ==
  ASSUME NEW t \in Text, NEW l \in StarterLangs \cup {"el"}
  PROVE  Misleads(t, l) <=> detectScript(t) \notin {l, "el", NoLang}
  <1> PICK d : d = detectScript(t)
    OBVIOUS
  <1>1. t.scripts \subseteq Scripts /\ NoLang \notin Scripts
    BY HeuristicAssumption DEF Text, Looks, Scripts, StarterLangs
  <1>2. CASE t.scripts = {} /\ d = NoLang
    BY <1>2 DEF Misleads
  <1>3. CASE /\ d \in t.scripts
             /\ \A s \in t.scripts \ {d} : TestedBefore(d, s) /\ ~TestedBefore(s, d)
    <2>1. CASE d = l
      BY <1>3, <2>1 DEF Misleads
    <2>2. CASE d = "el" /\ d # l
      <3>1. t.scripts \ {l, "el"} = {}
        BY <1>1, <1>3, <2>2, GreekIsLast
      <3> QED  BY <2>2, <3>1 DEF Misleads
    <2>3. CASE d # "el" /\ d # l
      <3>1. d # NoLang
        BY <1>1, <1>3
      <3>2. l \in t.scripts => TestedBefore(d, l)
        BY <1>3, <2>3
      <3> QED  BY <1>3, <2>3, <3>1, <3>2 DEF Misleads
    <2> QED  BY <2>1, <2>2, <2>3
  <1> QED  BY <1>2, <1>3, ScriptFound

(* A text that asks by a rule of a language is a question for the          *)
(* heuristic, whatever else is in it that does not mislead the script test *)
(* (classifySync).                                                         *)
THEOREM HeuristicComplete ==
  ASSUME NEW t \in Text, NEW l \in StarterLangs \cup {"el"}, Asks(t, l), ~Misleads(t, l)
  PROVE  classifySync(t, NoLang)
  <1>1. detectScript(t) \in {l, "el", NoLang}
    BY FoundOrMisled
  <1>2. ~t.blank
    BY DEF Asks, Text, Looks
  <1>3. CASE t.last = "questionMark"
    BY <1>2, <1>3 DEF classifySync
  <1>4. CASE t.last = "semicolon" /\ l = "el" /\ "el" \in t.scripts
    <2>1. detectScript(t) = "el"
      BY <1>1, <1>4, ScriptFound, HeuristicAssumption DEF Text, Looks, Scripts, StarterLangs
    <2> QED  BY <1>2, <1>4, <2>1 DEF classifySync
  <1>5. CASE l \in t.starters
    <2>1. l \in StarterLangs
      BY <1>5 DEF Text, Looks
    <2>2. l \in Lists(detectScript(t), StarterLangs)
      BY <1>1, <2>1, HeuristicAssumption DEF Lists, StarterLangs
    <2> QED  BY <1>2, <1>5, <2>2 DEF classifySync
  <1>6. CASE l \in t.endings
    <2>1. l \in EndingLangs
      BY <1>6 DEF Text, Looks
    <2>2. l \in Lists(detectScript(t), EndingLangs)
      BY <1>1, <2>1, HeuristicAssumption DEF Lists, EndingLangs, StarterLangs
    <2> QED  BY <1>2, <1>6, <2>2 DEF classifySync
  <1> QED  BY <1>3, <1>4, <1>5, <1>6 DEF Asks

(* A text that asks by nothing but a question word of one language is a    *)
(* question exactly when no other script in it misleads: Japanese written  *)
(* in kanji alone, or a Latin question that quotes Chinese, is missed      *)
(* (classifySync).                                                         *)
THEOREM StarterExact ==
  ASSUME NEW t \in Text, NEW l \in StarterLangs,
         t.last = "other", t.starters = {l}, t.endings = {}
  PROVE  classifySync(t, NoLang) <=> ~Misleads(t, l)
  <1>1. CASE ~Misleads(t, l)
    BY <1>1, HeuristicComplete DEF Asks
  <1>2. CASE Misleads(t, l)
    <2>1. detectScript(t) \notin {l, "el", NoLang}
      BY <1>2, FoundOrMisled
    <2>2. detectScript(t) \in StarterLangs
      <3>1. detectScript(t) \in Scripts
        BY <2>1, ScriptFound DEF Text, Looks
      <3> QED  BY <2>1, <3>1 DEF Scripts, StarterLangs
    <2>3. l \notin Lists(detectScript(t), StarterLangs)
      BY <2>1, <2>2 DEF Lists
    <2> QED  BY <1>2, <2>3 DEF classifySync
  <1> QED  BY <1>1, <1>2

\* A question for the heuristic asks by some rule.
LEMMA QuestionAsks ==
  ASSUME NEW t \in Text, classifySync(t, NoLang)
  PROVE  \E l \in StarterLangs \cup {"el"} : Asks(t, l)
  <1>1. CASE t.last = "questionMark"
    BY <1>1 DEF Asks
  <1>2. CASE t.last = "semicolon" /\ detectScript(t) = "el"
    <2>1. "el" \in t.scripts
      BY <1>2, ScriptFound, HeuristicAssumption
    <2> QED  BY <1>2, <2>1 DEF Asks
  <1>3. CASE t.starters # {} \/ t.endings # {}
    <2>1. t.starters \cup t.endings \subseteq StarterLangs
      BY DEF Text, Looks, EndingLangs, StarterLangs
    <2> QED  BY <1>3, <2>1 DEF Asks
  <1> QED  BY <1>1, <1>2, <1>3 DEF classifySync

----------------------------------------------------------------------------
\* The inductive invariant

\* A job that may still run has an attempt left and stalls to spare.
Budget ==
    \A m \in Messages :
        job[m] \in {"absent", "sending", "waiting", "active"}
            => attemptsMade[m] < MaxAttempts /\ stalls[m] <= MaxStalls

OwnedIsActive == \A m \in Messages : owner[m] # Nobody => job[m] = "active"

\* The row leaves the heuristic's verdict only for the model's own.
RowVerdict ==
    \A m \in Messages :
        text[m] # NoText /\ isQuestion[m] # heuristicVerdict(m) => m \in disagreed

\* A worker about to write carries the model's verdict, not the heuristic's.
WriteCarries ==
    \A w \in Workers :
        pc[w] = "write" => /\ llmVerdict[w] # heuristicVerdict(message[w])
                           /\ message[w] \in disagreed

RefineInv == RefineTypeOK /\ Budget /\ OwnedIsActive /\ RowVerdict /\ WriteCarries

LEMMA VerdictIsBoolean ==
  ASSUME NEW t, NEW l
  PROVE  classifySync(t, l) \in BOOLEAN
  BY DEF classifySync

LEMMA RefineInitInv == RefineInit => RefineInv
  BY RefineAssumption DEF RefineInit, RefineInv, RefineTypeOK, Budget, OwnedIsActive, RowVerdict,
     WriteCarries, JobStates

\* What an action leaves alone: the rows, or the workers.
LEMMA RowsKept ==
  ASSUME RowVerdict, UNCHANGED messageVars, disagreed \subseteq disagreed'
  PROVE  RowVerdict'
  BY DEF RowVerdict, messageVars, heuristicVerdict

LEMMA WorkersKept ==
  ASSUME WriteCarries, UNCHANGED text, disagreed \subseteq disagreed', 
         \A w \in Workers : pc'[w] = "write" =>
            pc[w] = "write" /\ llmVerdict'[w] = llmVerdict[w] /\ message'[w] = message[w]
  PROVE  WriteCarries'
  BY DEF WriteCarries, heuristicVerdict

LEMMA SendMessageInv ==
  ASSUME RefineInv, NEW m \in Messages, NEW t \in Texts, SendMessage(m, t)
  PROVE  RefineInv'
  <1> USE DEF RefineInv, SendMessage, workerVars
  <1>1. t # NoText /\ job[m] = "absent"
    BY RefineAssumption DEF RefineTypeOK
  <1>2. \A k \in Messages : text'[k] = (IF k = m THEN t ELSE text[k])
    BY DEF RefineTypeOK
  <1>3. RefineTypeOK'
    <2>1. classifySync(t, NoLang) \in BOOLEAN
      BY VerdictIsBoolean
    <2>2. /\ text' \in [Messages -> Texts \cup {NoText}] /\ isQuestion' \in [Messages -> BOOLEAN]
          /\ job' \in [Messages -> JobStates]
      BY <2>1 DEF RefineTypeOK, JobStates
    <2>3. \A k \in Messages : text'[k] = NoText => job'[k] = "absent"
      BY <1>1, <1>2 DEF RefineTypeOK
    <2>4. \A w \in Workers : pc[w] # "idle" => text'[message[w]] # NoText
      BY <1>1, <1>2 DEF RefineTypeOK
    <2> QED  BY <2>2, <2>3, <2>4 DEF RefineTypeOK
  <1>4. Budget'
    BY <1>1 DEF Budget, RefineTypeOK
  <1>5. OwnedIsActive'
    BY <1>1 DEF OwnedIsActive, RefineTypeOK
  <1>6. RowVerdict'
    <2> SUFFICES ASSUME NEW k \in Messages, text'[k] # NoText,
                        isQuestion'[k] # heuristicVerdict(k)'
                 PROVE  k \in disagreed
      BY DEF RowVerdict
    <2>1. heuristicVerdict(k)' = classifySync(text'[k], NoLang)
      BY DEF heuristicVerdict
    <2>2. CASE k = m
      BY <1>2, <2>1, <2>2 DEF RefineTypeOK
    <2>3. CASE k # m
      <3>1. text'[k] = text[k] /\ isQuestion'[k] = isQuestion[k]
        BY <1>2, <2>3 DEF RefineTypeOK
      <3> QED  BY <2>1, <3>1 DEF RowVerdict, heuristicVerdict
    <2> QED  BY <2>2, <2>3
  <1>7. WriteCarries'
    <2> SUFFICES ASSUME NEW w \in Workers, pc[w] = "write"
                 PROVE  llmVerdict[w] # heuristicVerdict(message[w])' /\ message[w] \in disagreed
      BY DEF WriteCarries
    <2>1. message[w] \in Messages /\ message[w] # m
      BY DEF RefineTypeOK
    <2>2. text'[message[w]] = text[message[w]]
      BY <1>2, <2>1
    <2> QED  BY <2>2 DEF WriteCarries, heuristicVerdict
  <1> QED  BY <1>3, <1>4, <1>5, <1>6, <1>7

LEMMA EnqueueInv ==
  ASSUME RefineInv, NEW m \in Messages, EnqueueRefine(m)
  PROVE  RefineInv'
  <1> USE DEF RefineInv, EnqueueRefine, workerVars
  <1>1. RefineTypeOK'
    BY DEF RefineTypeOK, JobStates, messageVars
  <1>2. Budget' /\ OwnedIsActive'
    BY DEF Budget, OwnedIsActive, RefineTypeOK
  <1>3. RowVerdict' /\ WriteCarries'
    BY RowsKept, WorkersKept DEF messageVars
  <1> QED  BY <1>1, <1>2, <1>3

LEMMA StalledInv ==
  ASSUME RefineInv, NEW m \in Messages, Stalled(m)
  PROVE  RefineInv'
  <1> USE DEF RefineInv, Stalled, workerVars
  <1>1. stalls[m] <= MaxStalls /\ stalls[m] \in Nat /\ text[m] # NoText
    BY RefineAssumption DEF Budget, RefineTypeOK
  <1>2. RefineTypeOK'
    BY <1>1, RefineAssumption DEF RefineTypeOK, JobStates, messageVars
  <1>3. Budget' /\ OwnedIsActive'
    BY <1>1, RefineAssumption DEF Budget, OwnedIsActive, RefineTypeOK
  <1>4. RowVerdict' /\ WriteCarries'
    BY RowsKept, WorkersKept DEF messageVars
  <1> QED  BY <1>2, <1>3, <1>4

\* A step in process() of a worker on message[w] that leaves rows and jobs
\* alone, and reaches "write" only with a verdict of the model.
LEMMA ProcessStepInv ==
  ASSUME RefineInv, NEW w \in Workers, pc[w] # "idle",
         NEW p \in {"request", "write", "ack"}, NEW v \in BOOLEAN, NEW x \in BOOLEAN,
         pc' = [pc EXCEPT ![w] = p], llmVerdict' = [llmVerdict EXCEPT ![w] = v],
         threw' = [threw EXCEPT ![w] = x], UNCHANGED <<token, messageVars, jobVars, message>>,
         disagreed' \subseteq Messages, disagreed \subseteq disagreed',
         p = "write" => v # heuristicVerdict(message[w]) /\ message[w] \in disagreed'
  PROVE  RefineInv'
  <1> USE DEF RefineInv, messageVars, jobVars
  <1>1. RefineTypeOK'
    BY DEF RefineTypeOK
  <1>2. Budget' /\ OwnedIsActive'
    BY DEF Budget, OwnedIsActive
  <1>3. RowVerdict'
    BY RowsKept
  <1>4. WriteCarries'
    <2> SUFFICES ASSUME NEW u \in Workers, pc'[u] = "write"
                 PROVE  llmVerdict'[u] # heuristicVerdict(message[u])' /\ message[u] \in disagreed'
      BY DEF WriteCarries
    <2>1. heuristicVerdict(message[u])' = heuristicVerdict(message[u])
      BY DEF heuristicVerdict
    <2>2. CASE u = w
      BY <2>1, <2>2 DEF RefineTypeOK
    <2>3. CASE u # w
      BY <2>1, <2>3 DEF RefineTypeOK, WriteCarries
    <2> QED  BY <2>2, <2>3
  <1> QED  BY <1>1, <1>2, <1>3, <1>4

LEMMA FallbackInv ==
  ASSUME RefineInv, NEW w \in Workers, Fallback(w)
  PROVE  RefineInv'
  <1>1. heuristicVerdict(message[w]) \in BOOLEAN
    BY VerdictIsBoolean DEF heuristicVerdict
  <1>2. pc' = [pc EXCEPT ![w] = "ack"]
    BY DEF Fallback, Decide
  <1>3. threw' = [threw EXCEPT ![w] = threw[w]] /\ threw[w] \in BOOLEAN /\ disagreed \subseteq Messages
    BY DEF Fallback, RefineInv, RefineTypeOK
  <1> QED  BY <1>1, <1>2, <1>3, ProcessStepInv DEF Fallback, Decide

LEMMA AnsweredInv ==
  ASSUME RefineInv, NEW w \in Workers, NEW v \in BOOLEAN, Answered(w, v)
  PROVE  RefineInv'
  <1> DEFINE p == IF v = heuristicVerdict(message[w]) THEN "ack" ELSE "write"
  <1>1. pc' = [pc EXCEPT ![w] = p] /\ p \in {"request", "write", "ack"}
    BY DEF Answered, Decide
  <1>2. threw' = [threw EXCEPT ![w] = threw[w]] /\ threw[w] \in BOOLEAN
    BY DEF Answered, RefineInv, RefineTypeOK
  <1>3. pc[w] # "idle" /\ message[w] \in Messages
    BY DEF Answered, RefineInv, RefineTypeOK
  <1>4. disagreed' \subseteq Messages /\ disagreed \subseteq disagreed'
    BY <1>3 DEF Answered, RefineInv, RefineTypeOK
  <1>5. p = "write" => v # heuristicVerdict(message[w]) /\ message[w] \in disagreed'
    BY DEF Answered
  <1> HIDE DEF p
  <1> QED  BY <1>1, <1>2, <1>3, <1>4, <1>5, ProcessStepInv DEF Answered, Decide

LEMMA WriteRejectsInv ==
  ASSUME RefineInv, NEW w \in Workers, WriteRejects(w)
  PROVE  RefineInv'
  <1>1. llmVerdict' = [llmVerdict EXCEPT ![w] = llmVerdict[w]] /\ llmVerdict[w] \in BOOLEAN
    BY DEF WriteRejects, RefineInv, RefineTypeOK
  <1>2. disagreed \subseteq Messages
    BY DEF RefineInv, RefineTypeOK
  <1> QED  BY <1>1, <1>2, ProcessStepInv DEF WriteRejects

LEMMA WriteVerdictInv ==
  ASSUME RefineInv, NEW w \in Workers, WriteVerdict(w)
  PROVE  RefineInv'
  <1> USE DEF RefineInv, WriteVerdict, jobVars
  <1>1. message[w] \in Messages /\ llmVerdict[w] \in BOOLEAN /\ message[w] \in disagreed
    BY DEF RefineTypeOK, WriteCarries
  <1>2. RefineTypeOK'
    BY <1>1 DEF RefineTypeOK
  <1>3. Budget' /\ OwnedIsActive'
    BY DEF Budget, OwnedIsActive
  <1>4. RowVerdict'
    <2> SUFFICES ASSUME NEW k \in Messages, text[k] # NoText,
                        isQuestion'[k] # heuristicVerdict(k)'
                 PROVE  k \in disagreed
      BY DEF RowVerdict
    <2>1. heuristicVerdict(k)' = heuristicVerdict(k)
      BY DEF heuristicVerdict
    <2> QED  BY <1>1, <2>1 DEF RowVerdict, RefineTypeOK
  <1>5. WriteCarries'
    BY WorkersKept DEF RefineTypeOK
  <1> QED  BY <1>2, <1>3, <1>4, <1>5

LEMMA TakeJobInv ==
  ASSUME RefineInv, NEW w \in Workers, NEW m \in Messages, TakeJob(w, m)
  PROVE  RefineInv'
  <1> USE DEF RefineInv, TakeJob, messageVars
  <1>1. pc' = [pc EXCEPT ![w] = "request"] \/ pc' = [pc EXCEPT ![w] = "ack"]
    BY DEF Decide
  <1>2. heuristicVerdict(m) \in BOOLEAN
    BY VerdictIsBoolean DEF heuristicVerdict
  <1>3. llmVerdict' \in [Workers -> BOOLEAN]
    BY <1>2 DEF RefineTypeOK, Decide
  <1>4. text[m] # NoText
    BY DEF RefineTypeOK
  <1>5. RefineTypeOK'
    BY <1>1, <1>3, <1>4 DEF RefineTypeOK, JobStates
  <1>6. Budget' /\ OwnedIsActive'
    BY DEF Budget, OwnedIsActive, RefineTypeOK
  <1>7. RowVerdict'
    BY RowsKept
  <1>8. \A u \in Workers : pc'[u] = "write" =>
            pc[u] = "write" /\ llmVerdict'[u] = llmVerdict[u] /\ message'[u] = message[u]
    BY <1>1 DEF RefineTypeOK, Decide
  <1>9. WriteCarries'
    BY <1>8, WorkersKept
  <1> QED  BY <1>5, <1>6, <1>7, <1>9

LEMMA AcknowledgeInv ==
  ASSUME RefineInv, NEW w \in Workers, Acknowledge(w)
  PROVE  RefineInv'
  <1> USE DEF RefineInv, Acknowledge, messageVars
  <1> DEFINE m == message[w]
  <1>1. m \in Messages /\ text[m] # NoText
    BY DEF RefineTypeOK
  <1>2. \A u \in Workers : pc'[u] # "idle" => pc'[u] = pc[u] /\ u # w
    BY DEF Return, RefineTypeOK
  <1>3. \A u \in Workers : u # w => llmVerdict'[u] = llmVerdict[u] /\ message'[u] = message[u]
    BY DEF Return, RefineTypeOK
  <1>4. /\ pc' \in [Workers -> {"idle", "request", "write", "ack"}]
        /\ message' \in [Workers -> Messages \cup {NoText}]
        /\ llmVerdict' \in [Workers -> BOOLEAN] /\ threw' \in [Workers -> BOOLEAN]
    BY DEF Return, RefineTypeOK
  <1>5. CASE owner[m] # w
    <2>1. RefineTypeOK'
      BY <1>2, <1>3, <1>4, <1>5 DEF RefineTypeOK, jobVars
    <2>2. Budget' /\ OwnedIsActive'
      BY <1>5 DEF Budget, OwnedIsActive, jobVars
    <2> QED  BY <1>2, <1>3, <2>1, <2>2, RowsKept, WorkersKept
  <1>6. CASE owner[m] = w
    <2>1. job[m] = "active" /\ attemptsMade[m] < MaxAttempts /\ attemptsMade[m] \in Nat
      BY <1>1, <1>6, RefineAssumption DEF OwnedIsActive, Budget, RefineTypeOK
    <2>2. RefineTypeOK'
      BY <1>1, <1>2, <1>3, <1>4, <1>6, <2>1, RefineAssumption DEF RefineTypeOK, JobStates
    <2>3. Budget'
      BY <1>1, <1>6, <2>1, RefineAssumption DEF Budget, RefineTypeOK, attemptsLeft
    <2>4. OwnedIsActive'
      BY <1>1, <1>6 DEF OwnedIsActive, RefineTypeOK
    <2> QED  BY <1>2, <1>3, <2>2, <2>3, <2>4, RowsKept, WorkersKept
  <1> QED  BY <1>5, <1>6

LEMMA CrashInv ==
  ASSUME RefineInv, NEW w \in Workers, Crash(w)
  PROVE  RefineInv'
  <1> USE DEF RefineInv, Crash, messageVars
  <1>1. \A u \in Workers : pc'[u] # "idle" => pc'[u] = pc[u] /\ u # w
    BY DEF Return, RefineTypeOK
  <1>2. \A u \in Workers : u # w => llmVerdict'[u] = llmVerdict[u] /\ message'[u] = message[u]
    BY DEF Return, RefineTypeOK
  <1>3. RefineTypeOK'
    BY <1>1, <1>2 DEF Return, RefineTypeOK
  <1>4. Budget' /\ OwnedIsActive'
    BY DEF Budget, OwnedIsActive
  <1> QED  BY <1>1, <1>2, <1>3, <1>4, RowsKept, WorkersKept

LEMMA StutterInv ==
  ASSUME RefineInv, UNCHANGED refineVars
  PROVE  RefineInv'
  BY DEF RefineInv, RefineTypeOK, Budget, OwnedIsActive, RowVerdict, WriteCarries, heuristicVerdict,
     refineVars, messageVars, jobVars, workerVars

LEMMA RefineStepInv == RefineInv /\ [RefineNext]_refineVars => RefineInv'
  <1> SUFFICES ASSUME RefineInv, [RefineNext]_refineVars PROVE RefineInv'
    OBVIOUS
  <1>1. CASE \E m \in Messages, t \in Texts : SendMessage(m, t)
    BY <1>1, SendMessageInv
  <1>2. CASE \E m \in Messages : EnqueueRefine(m) \/ Stalled(m)
    BY <1>2, EnqueueInv, StalledInv
  <1>3. CASE \E w \in Workers : Work(w) \/ CallFails(w)
    BY <1>3, FallbackInv, WriteVerdictInv, WriteRejectsInv, AcknowledgeInv
       DEF Work, CallFails, TimerFires
  <1>4. CASE \E w \in Workers, v \in BOOLEAN : Answered(w, v)
    BY <1>4, AnsweredInv
  <1>5. CASE \E w \in Workers, m \in Messages : TakeJob(w, m)
    BY <1>5, TakeJobInv
  <1>6. CASE \E w \in Workers : Crash(w)
    BY <1>6, CrashInv
  <1>7. CASE UNCHANGED refineVars
    BY <1>7, StutterInv
  <1> QED  BY <1>1, <1>2, <1>3, <1>4, <1>5, <1>6, <1>7 DEF RefineNext

LEMMA RefineInvariant == RefineSpec => []RefineInv
  BY RefineInitInv, RefineStepInv, PTL DEF RefineSpec

----------------------------------------------------------------------------
\* What follows

(* Types, and that no job is tried or stalls more often than its options   *)
(* allow, for any number of messages and workers.                          *)
THEOREM RefineTypeCorrect == RefineSpec => []RefineTypeOK
  <1>1. RefineInv => RefineTypeOK
    BY DEF RefineInv
  <1> QED  BY <1>1, RefineInvariant, PTL

(* A message that asks counts as a question in every state unless a script *)
(* misled the heuristic or the model disagreed, and one that does not ask  *)
(* as none, for any texts.                                                 *)
THEOREM QuestionsAreCounted == RefineSpec => []QuestionsCounted
  <1>1. RefineInv => QuestionsCounted
    <2> SUFFICES ASSUME RefineInv, NEW m \in Messages, text[m] # NoText, m \notin disagreed
                 PROVE  LET t == text[m]
                            asked == {l \in StarterLangs \cup {"el"} : Asks(t, l)}
                        IN  /\ (\E l \in asked : ~Misleads(t, l)) => isQuestion[m]
                            /\ asked = {} => ~isQuestion[m]
      BY DEF QuestionsCounted
    <2>1. text[m] \in Text
      BY RefineAssumption DEF RefineInv, RefineTypeOK
    <2>2. heuristicVerdict(m) = isQuestion[m]
      BY DEF RefineInv, RowVerdict
    <2>3. ASSUME NEW l \in StarterLangs \cup {"el"}, Asks(text[m], l), ~Misleads(text[m], l)
          PROVE  isQuestion[m]
      BY <2>1, <2>2, <2>3, HeuristicComplete DEF heuristicVerdict
    <2>4. ASSUME isQuestion[m]
          PROVE  \E l \in StarterLangs \cup {"el"} : Asks(text[m], l)
      BY <2>1, <2>2, <2>4, QuestionAsks DEF heuristicVerdict
    <2> QED  BY <2>3, <2>4
  <1> QED  BY <1>1, RefineInvariant, PTL

(* is_question leaves the heuristic's verdict once, on the model's word,   *)
(* however jobs are retried, stall, die and go on.                         *)
THEOREM RefinedAtMostOnce == RefineSpec => RefinedOnce
  <1> DEFINE A == \A m \in Messages :
                     (text[m] # NoText /\ isQuestion'[m] # isQuestion[m])
                         => isQuestion[m] = heuristicVerdict(m) /\ m \in disagreed
  <1>1. RefineInv /\ [RefineNext]_refineVars => [A]_refineVars
    <2> SUFFICES ASSUME RefineInv, RefineNext, NEW m \in Messages,
                        text[m] # NoText, isQuestion'[m] # isQuestion[m]
                 PROVE  isQuestion[m] = heuristicVerdict(m) /\ m \in disagreed
      OBVIOUS
    <2> USE DEF RefineInv
    <2>1. PICK w \in Workers : WriteVerdict(w) /\ message[w] = m
      <3>1. isQuestion' # isQuestion
        OBVIOUS
      <3>2. ASSUME NEW k \in Messages, NEW t \in Texts, SendMessage(k, t)
            PROVE  FALSE
        BY <3>2 DEF SendMessage, RefineTypeOK
      <3>3. \E w \in Workers : WriteVerdict(w)
        BY <3>1, <3>2 DEF RefineNext, Work, CallFails, TimerFires, EnqueueRefine, Stalled, Fallback,
           WriteRejects, Acknowledge, Answered, TakeJob, Crash, messageVars
      <3> QED  BY <3>3 DEF WriteVerdict, RefineTypeOK
    <2>2. /\ isQuestion'[m] = llmVerdict[w] /\ llmVerdict[w] # heuristicVerdict(m)
          /\ m \in disagreed
      BY <2>1 DEF WriteVerdict, WriteCarries, RefineTypeOK
    <2>3. /\ isQuestion[m] \in BOOLEAN /\ llmVerdict[w] \in BOOLEAN
          /\ heuristicVerdict(m) \in BOOLEAN
      BY VerdictIsBoolean DEF RefineTypeOK, heuristicVerdict
    <2> QED  BY <2>2, <2>3
  <1> QED  BY <1>1, RefineInvariant, PTL DEF RefineSpec, RefinedOnce

=============================================================================
