SPECIFICATION LiveSpec
CONSTANTS
    Users = {u1}
    Requests = {r1, r2}
    Faults = {"outage", "dbError", "restart", "delete"}
    NoHash = NoHash
    NoRow = NoRow
    Gone = Gone
    Nobody = Nobody
    Garbage = Garbage
PROPERTIES
    EveryRequestAnswered
