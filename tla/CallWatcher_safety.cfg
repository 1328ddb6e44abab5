CONSTANTS
    Users = {1, 2}
    NCalls = 3
    MaxSeen = 2
    MaxPending = 1
    MaxAttempts = 2
    MaxRounds = 3
    PollPage = 1
    PrePage = 2
    HubCap = 1
    MaxRestarts = 1
    Photos = {TRUE, FALSE}
SPECIFICATION Spec
INVARIANTS
    CachesConsistent
    PendingNotSeen
PROPERTIES
    ImplementsNotice
