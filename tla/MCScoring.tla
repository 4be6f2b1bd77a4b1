------------------------------ MODULE MCScoring -----------------------------
\* Two matches, messages long enough for the caps to matter, a clock of two
\* readings twelve hours apart and a window of two messages, so that a third
\* one falls out of it.
EXTENDS Scoring, TLC

MCSymmetry == Permutations(Matches)
MCReplyDecay == 0 :> 100 @@ 1 :> 36
MCGhostDecay == 0 :> 100 @@ 1 :> 88
=============================================================================
