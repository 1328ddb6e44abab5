CONSTANTS
    r1 = r1
    l1 = l1
    o1 = o1
    Requests = {r1}
    Refreshers = {}
    Logins = {l1}
    Logouts = {o1}
    Register = {}
    MaxTokens = 3
    MaxRestarts = 0
SPECIFICATION Spec
PROPERTIES
    LogoutStays
CHECK_DEADLOCK FALSE
