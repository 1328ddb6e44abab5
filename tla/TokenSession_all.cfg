CONSTANTS
    r1 = r1
    r2 = r2
    s1 = s1
    l1 = l1
    o1 = o1
    Requests = {r1, r2}
    Refreshers = {s1}
    Logins = {l1}
    Logouts = {o1}
    Register = {1}
    MaxTokens = 2
    MaxRestarts = 1
SPECIFICATION Spec
INVARIANTS
    NeverStale
    SpentOnlyUnderway
    RefreshOnlyWhenRefused
PROPERTIES
    WipeOnlyDead
SYMMETRY Symmetry
CHECK_DEADLOCK FALSE
