CONSTANTS
    u1 = u1
    u2 = u2
    u3 = u3
    h1 = h1
    h2 = h2
    Users = {u1, u2, u3}
    EnvAllowed = {u1}
    EnvAdmins = {u1}
    Handlers = {h1, h2}
    MaxInvites = 2
    MaxRestarts = 1
SPECIFICATION Spec
PROPERTIES
    AdminRemains
INVARIANTS
    AdminsAreAllowed
    RestartChangesNothing
    InviteOnce
SYMMETRY Symmetry
CHECK_DEADLOCK FALSE
