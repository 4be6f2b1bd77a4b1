-------------------------- MODULE MCQuestionRefine --------------------------
(* Two messages and two worker slots; a text that asks nothing and one that *)
(* does, in the language whose script takes two tests.  HeuristicComplete   *)
(* and StarterExact cover the other languages, rules and mixtures.          *)
EXTENDS QuestionRefine

\* A list in Latin letters, up to its semicolon.
Plain == [blank |-> FALSE, last |-> "semicolon", scripts |-> {}, starters |-> {}, endings |-> {}]

\* Japanese: kanji and a question word of kana.
MCTexts == {Plain,
            [Plain EXCEPT !.last = "other", !.scripts = {"ja", "zh"}, !.starters = {"ja"}]}
=============================================================================
