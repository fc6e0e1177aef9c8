SPECIFICATION Spec
CONSTANTS
    Emails = {e1, e2}
    Ids = {i1, i2, i3}
    Requests = {r1, r2}
    Operations = {"register", "login", "createUser", "removeUser"}
    Faults = {}
    MaxRows = 3
    None = None
SYMMETRY Symmetry
INVARIANTS
    TokensNameOwner
    LinkSound
\* The pool of ids may be used up.
CHECK_DEADLOCK FALSE
