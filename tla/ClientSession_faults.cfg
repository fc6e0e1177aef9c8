SPECIFICATION Spec
CONSTANTS
    u1 = u1
    u2 = u2
    c1 = c1
    c2 = c2
    None = None
    Users = {u1, u2}
    Calls = {c1, c2}
    Faults = {"network", "storage", "crash", "outage"}
SYMMETRY Symmetry
VIEW View
INVARIANTS
    TypeOK
    ViewNamesToken
    TokensPaired
    LogoutComplete
    LoadingMeansWork
    FormsAgree
