SPECIFICATION Spec
CONSTANTS
    Users = {u1}
    Workers = {w1, w2}
    Zones = {STEADY, PULSE, SPARK}
    Steady = STEADY
    Proposable = {STEADY, PULSE, SPARK}
    SeedZones = {STEADY}
    NoZone = NoZone
    Nobody = Nobody
    Orphan = Orphan
    MaxAttempts = 3
    MaxStalls = 1
    Keep = 0
    MaxRevision = 5
    Faults = {"stall", "slow"}
INVARIANTS
    TypeOK
    MutualExclusion
    ZoneAnnounced
PROPERTIES
    SoftTransitionSpec
CONSTRAINT Bounded
VIEW Core
SYMMETRY Symmetry
