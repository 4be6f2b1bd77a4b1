SPECIFICATION ScoringSpec
CONSTANTS
    ReplyDecay <- MCReplyDecay
    GhostDecay <- MCGhostDecay
    MinMessages = 2
    Matches = {m1, m2}
    NoMatch = NoMatch
    Take = 2
    Lengths = {300}
    Verdicts = {TRUE}
    PastGi = {100}
    MaxMessages = 3
    MaxHours = 1
    MaxRuns = 2
SYMMETRY MCSymmetry
CHECK_DEADLOCK FALSE
INVARIANTS
    MetricsInRange
PROPERTIES
    GhostIndexFair
