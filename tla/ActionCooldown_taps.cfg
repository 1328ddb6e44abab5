CONSTANTS
    k1 = k1
    k2 = k2
    k3 = k3
    b1 = b1
    b2 = b2
    c1 = c1
    Keys = {k1, k2, k3}
    Buttons = {b1, b2}
    Commands = {c1}
    Timeout = 2
    MaxEntries = 2
    h1 = h1
    h2 = h2
    Handlers = {h1, h2}
SPECIFICATION TapsSpec
INVARIANTS
    ShownDoneWasDone
PROPERTIES
    RateLimited
    CooldownEnds
    RevivedOnlyByOverlap
CHECK_DEADLOCK FALSE
