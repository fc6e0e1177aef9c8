SPECIFICATION Spec
CONSTANTS
    Users = {u1}
    Requests = {r1, r2}
    Faults = {}
    NoHash = NoHash
    NoRow = NoRow
    Gone = Gone
    Nobody = Nobody
    Garbage = Garbage
PROPERTIES
    OnlySignInReopens
