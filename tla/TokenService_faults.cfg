SPECIFICATION Spec
CONSTANTS
    Users = {u1, u2}
    Requests = {r1, r2}
    Faults = {"outage", "dbError", "restart", "delete"}
    NoHash = NoHash
    NoRow = NoRow
    Gone = Gone
    Nobody = Nobody
    Garbage = Garbage
SYMMETRY Symmetry
VIEW WithoutSupabase
INVARIANTS
    TypeOK
    RefreshKeepsIdentity
    LogoutCloses
    SignInFirst
PROPERTIES
    ImplementsContract
