CONSTANTS
    u1 = u1
    u2 = u2
    h1 = h1
    Users = {u1, u2}
    EnvAllowed = {u1}
    EnvAdmins = {}
    Handlers = {h1}
    MaxInvites = 0
    MaxRestarts = 1
SPECIFICATION Spec
INVARIANTS
    AlwaysAdmin
