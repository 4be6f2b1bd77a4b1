SPECIFICATION MatchFairSpec
CONSTANTS
    Users = {1, 2}
    Requests = {r1, r2}
    NoUser = NoUser
    Likes <- CrossingLikes
    Faults = {"throw", "redeliver"}
INVARIANTS
    MatchTypeOK
    MutualOnly
    NoMissedMatch
    MatchAnnounced
PROPERTIES
    MatchSeeded
