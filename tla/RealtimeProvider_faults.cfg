CONSTANTS
    u1 = u1
    u2 = u2
    goals = goals
    c1 = c1
    r1 = r1
    r2 = r2
    None = None
    Users = {u1, u2}
    Tables = {goals}
    Connections = {c1}
    Calls = {r1, r2}
    Faults = {"adapterError"}
SPECIFICATION Spec
SYMMETRY Symmetry
INVARIANTS
    TypeOK
    Served
    NoChannelLeaks
    EmittedOnce
