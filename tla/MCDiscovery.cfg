SPECIFICATION DiscoverySpec
CONSTANTS
    Me = Me
    Others = {a, b, c}
    Profiles <- MCProfiles
    MetricRows <- MCMetricRows
    None = None
    PageSize = 2
    Limits = {1, 2}
    MaxChanges = 1
SYMMETRY MCSymmetry
CHECK_DEADLOCK FALSE
INVARIANTS
    SuggestionsMutual
    NobodyMissed
    Ranked
