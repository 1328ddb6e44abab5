CONSTANTS
    c1 = c1
    c2 = c2
    Clears = {c1, c2}
    MaxAge = 1
    Grace = 2
    Poll = 1
    MaxJumps = 1
    MaxRestarts = 1
    r1 = r1
    r2 = r2
    Requests = {r1, r2}
    Ttl = 2
    MaxEntries = 1
    MaxLinks = 3
    MaxSessions = 2
SPECIFICATION ProcessSpec
INVARIANTS
    FreshMeansAlive
    CleanExit
    LinkHonoured
    SessionReachable
PROPERTIES
    CondemnsOnlyTheStuck
    StuckEnds
    StopEnds
CHECK_DEADLOCK FALSE
