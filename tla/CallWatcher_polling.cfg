CONSTANTS
    Users = {1}
    NCalls = 5
    MaxSeen = 4
    MaxPending = 1
    MaxAttempts = 2
    MaxRounds = 2
    PollPage = 2
    PrePage = 2
    HubCap = 1
    MaxRestarts = 0
    Photos = {FALSE}
SPECIFICATION FairSpec
PROPERTIES
    ImplementsNotice
    RoundEnds
    PolledCallsSettle
