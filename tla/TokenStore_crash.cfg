CONSTANTS
    t1 = t1
    t2 = t2
    Tasks = {t1, t2}
    Main = Main
    s0 = s0
    s1 = s1
    s2 = s2
    Sessions = {s0, s1, s2}
    Old = s0
    NoSession = NoSession
    NoOp = NoOp
    NKeys = 6
    Left = {1, 2, 3, 6}
    MaxRestarts = 2
    Retention = 2
    MaxClock = 4
    MaxStates = 2
    MaxSets = 1
SPECIFICATION DiskSpec
INVARIANTS
    BackupTypeOK
    NothingTorn
    NewestKept
PROPERTIES
    ImplementsRegister
    PrunedToLimit
SYMMETRY Symmetry
