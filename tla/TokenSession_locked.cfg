CONSTANTS
    r1 = r1
    r2 = r2
    o1 = o1
    Requests = {r1, r2}
    Refreshers = {}
    Logins = {}
    Logouts = {o1}
    Register = {}
    MaxTokens = 2
    MaxRestarts = 1
SPECIFICATION ClientSpec
INVARIANTS
    HubSafe
PROPERTIES
    RequestsEnd
    StopClosesAll
CHECK_DEADLOCK FALSE
