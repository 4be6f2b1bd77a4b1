SPECIFICATION RepairFairSpec
CONSTANTS
    N = 2
    BatchSize = 1
    Keep = 1
    NoOffset = NoOffset
    MaxEvents = 2
    MaxFaults = 2
INVARIANTS
    NoEventSkipped
    ScanComplete
PROPERTIES
    DriftRepaired
