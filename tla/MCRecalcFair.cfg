SPECIFICATION FairSpec
CONSTANTS
    Users = {u1}
    Workers = {w1, w2}
    Zones = {STEADY, PULSE, SPARK}
    Steady = STEADY
    Proposable = {STEADY}
    SeedZones = {STEADY}
    NoZone = NoZone
    Nobody = Nobody
    Orphan = Orphan
    MaxAttempts = 3
    MaxStalls = 1
    Keep = 0
    MaxRevision = 2
    Faults = {"throw", "crash"}
PROPERTIES
    JobsSettle
    JobsServed
