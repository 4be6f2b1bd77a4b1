SPECIFICATION GatewaySpec
CONSTANTS
    s1 = s1
    s2 = s2
    m1 = m1
    m2 = m2
    Sockets = {s1, s2}
    Matches = {m1, m2}
    MatchesOf <- Participation
    Subscribers = {b1, b2, b3}
    NoSocket = NoSocket
    NoMatch = NoMatch
    Faults = {"throw"}
INVARIANTS
    SubscribersTracked
    DisconnectCloses
    OnlyParticipants
SYMMETRY Symmetry
