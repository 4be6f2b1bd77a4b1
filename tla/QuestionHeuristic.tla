-------------------------- MODULE QuestionHeuristic -------------------------
(***************************************************************************)
(* MultilingualHeuristicClassifier.classifySync.  A text is what the rules *)
(* look at: how the trimmed text ends, the scripts its characters belong   *)
(* to, and the languages of whose word lists one starts or ends it.        *)
(***************************************************************************)
EXTENDS Naturals

CONSTANT NoLang     \* no language hint, no script recognised

StarterLangs == {"en", "es", "fr", "de", "it", "pt", "ru", "he", "ar", "zh", "ja"}
EndingLangs == {"zh", "ja"}

ASSUME HeuristicAssumption == NoLang \notin StarterLangs \cup {"el"}

\* The scripts detectScript tests, in its order; kana before Han, which
\* Japanese texts use too.
ScriptOrder == <<"he", "ar", "ja", "zh", "ru", "el">>
Scripts == {"he", "ar", "ja", "zh", "ru", "el"}

Looks == [blank : BOOLEAN, last : {"questionMark", "semicolon", "other"},
          scripts : SUBSET Scripts, starters : SUBSET StarterLangs, endings : SUBSET EndingLangs]

\* A blank text is nothing but blank, and a word shows its script: what the
\* Japanese list has is kana or kanji, which are Han.
Text == {t \in Looks :
            /\ t.blank => t.last = "other" /\ t.scripts = {} /\ t.starters = {} /\ t.endings = {}
            /\ (t.starters \cap Scripts) \ {"ja"} \subseteq t.scripts
            /\ "ja" \in t.starters => {"ja", "zh"} \cap t.scripts # {}
            /\ t.endings \subseteq t.scripts}

detectScriptHanFirst(t) ==              \* mutant: Han is tested before kana
    IF {"ja", "zh"} \subseteq t.scripts THEN "zh"
    ELSE IF t.scripts = {} THEN NoLang ELSE CHOOSE s \in t.scripts : TRUE

detectScript(t) ==
    LET hits == {i \in 1 .. 6 : ScriptOrder[i] \in t.scripts} IN
    IF hits = {} THEN NoLang ELSE ScriptOrder[CHOOSE i \in hits : \A j \in hits : i <= j]

\* The lists of the language when it has any, else those of all languages.
Lists(lang, langs) == IF lang \in langs THEN {lang} ELSE langs

classifySync(t, languageHint) ==
    LET lang == IF languageHint # NoLang THEN languageHint ELSE detectScript(t) IN
    /\ ~t.blank
    /\ \/ t.last = "questionMark"
       \/ t.last = "semicolon" /\ detectScript(t) = "el"
       \/ t.starters \cap Lists(lang, StarterLangs) # {}
       \/ t.endings \cap Lists(lang, EndingLangs) # {}

----------------------------------------------------------------------------
\* By a rule of language l, or by its question mark in any, t is a question.
Asks(t, l) == \/ t.last = "questionMark"
              \/ t.last = "semicolon" /\ l = "el" /\ "el" \in t.scripts
              \/ l \in t.starters \cup t.endings

TestedBefore(s, l) == \E i, j \in 1 .. 6 : i < j /\ ScriptOrder[i] = s /\ ScriptOrder[j] = l

\* Another script in t is taken for its language and hides the lists of l:
\* one that is tested before l's own, or any if t shows none of l's own, as
\* a Japanese text without kana or a Latin one that quotes Chinese.  Greek
\* has no lists to choose.
Misleads(t, l) == \E s \in t.scripts \ {l, "el"} : l \in t.scripts => TestedBefore(s, l)
=============================================================================
