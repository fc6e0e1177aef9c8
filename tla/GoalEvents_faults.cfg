SPECIFICATION Spec
CONSTANTS
    Users = {u1, u2}
    Goals = {g1}
    Plans = {p1}
    Requests = {r1, r2}
    Faults = {"dbError", "broadcastError", "restart"}
    None = None
SYMMETRY Symmetry
VIEW View
INVARIANTS
    TypeOK
    AddressedToOwner
    NoFalseDelete
    RemovedOnce
PROPERTIES
    OnlyOwnerRemoves
