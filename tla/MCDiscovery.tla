----------------------------- MODULE MCDiscovery ----------------------------
\* Three candidates for a page of two and for one place or two, so that page and
\* limit cut and an answer has an order; with the defaults of a missing row,
\* pairs on both sides of the gates.
EXTENDS Discovery, TLC

P(g, seeks, tags, done) == [gender |-> g, seekingGenders |-> seeks, tags |-> tags,
                            onboardingComplete |-> done]

MCProfiles == {P("M", {"F"}, {}, TRUE), P("F", {"M"}, {"jazz"}, TRUE),
               P("F", {"F"}, {}, FALSE)}
MCMetricRows == {[zone |-> "UNMAPPED", gi |-> 40, rts |-> 90],
                 [zone |-> "GHOST_TOWN", gi |-> 60, rts |-> 10]}
MCSymmetry == Permutations(Others)
=============================================================================
