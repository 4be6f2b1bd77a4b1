----------------------------- MODULE ZoneMetrics ----------------------------
(***************************************************************************)
(* The formulas of scoring-service: MetricsCalculator and ZoneClassifier.  *)
(* A ratio is an integer number of hundredths, rounded down at every       *)
(* division; e^(-x) is a table over the hours (or the instance's steps of  *)
(* several hours) that can pass.  A list of numbers is a function: the     *)
(* formulas only sum it, so what indexes it does not matter.               *)
(***************************************************************************)
EXTENDS Integers, FiniteSets

CONSTANTS ReplyDecay,  \* hours |-> e^(-hours / 12), in hundredths
          GhostDecay,  \* hours |-> e^(-0.01 hours), in hundredths
          MinMessages  \* 5 in the code

Unit == 100

Falling(table) ==
    /\ table \in [DOMAIN table -> 0 .. Unit] /\ DOMAIN table \subseteq Nat
    /\ 0 \in DOMAIN table /\ table[0] = Unit
    /\ \A s, t \in DOMAIN table : s <= t => table[t] <= table[s]

ASSUME MetricsAssumption == Falling(ReplyDecay) /\ Falling(GhostDecay) /\ MinMessages \in Nat

Capped(x, cap) == IF x < cap THEN x ELSE cap

\* The sum of f, counted as the points under its graph.
Sum(f) == Cardinality(UNION {{i} \X (1 .. f[i]) : i \in DOMAIN f})
Mean(f) == Sum(f) \div Cardinality(DOMAIN f)

----------------------------------------------------------------------------
\* MetricsCalculator

computeRts(delays) == IF DOMAIN delays = {} THEN Unit \div 2 ELSE ReplyDecay[Mean(delays)]

computeEdsUncapped(lengths, questions, threadDepth) ==   \* mutant: the last min is missing
    LET normLen == Capped((Mean(lengths) * Unit) \div 200, Unit)
        ratio == (questions * Unit) \div Cardinality(DOMAIN lengths)
        depth == Capped((threadDepth * Unit) \div 10, Unit)
    IN  IF DOMAIN lengths = {} THEN Unit \div 2
        ELSE (normLen * (Unit \div 2 + ratio) * (Unit \div 2 + depth)) \div (Unit * Unit)

\* messageCount is the number of lengths in every call.
computeEds(lengths, questions, threadDepth) ==
    LET normLen == Capped((Mean(lengths) * Unit) \div 200, Unit)
        ratio == (questions * Unit) \div Cardinality(DOMAIN lengths)
        depth == Capped((threadDepth * Unit) \div 10, Unit)
    IN  IF DOMAIN lengths = {} THEN Unit \div 2
        ELSE Capped((normLen * (Unit \div 2 + ratio) * (Unit \div 2 + depth)) \div (Unit * Unit), Unit)

computeGi(unread, total, previousGi, hours) ==
    LET base == IF total > 0 THEN (unread * Unit) \div total ELSE 0
        decayed == (previousGi * GhostDecay[hours]) \div Unit
        blend == (decayed + base) \div 2
    IN  IF base > blend THEN base ELSE blend

computeReciprocity(samples) == IF DOMAIN samples = {} THEN Unit \div 2 ELSE Mean(samples)

composite(rts, eds, reciprocity, gi) ==
    (40 * rts + 35 * eds + 25 * reciprocity - 20 * gi) \div 100

----------------------------------------------------------------------------
\* ZoneClassifier.classify: the first rule that applies.
classify(m, totalMessages) ==
    CASE totalMessages < MinMessages -> "STEADY"
      [] m.gi > 60 /\ m.rts < 35 /\ m.reciprocity < 40 -> "GHOST_TOWN"
      [] OTHER ->
           IF m.rts >= 75 /\ m.eds >= 65 THEN "SPARK"
           ELSE IF m.rts >= 65 /\ m.eds < 55 THEN "PULSE"
           ELSE IF m.rts \in 40 .. 64 /\ m.eds \in 40 .. 69 THEN "STEADY"
           ELSE IF m.rts < 45 /\ m.reciprocity >= 40 THEN "CHILL" ELSE "STEADY"
=============================================================================
