SPECIFICATION Spec
CONSTANTS
    c1 = c1
    Calls = {c1}
    Faults = {"lost"}
INVARIANTS
    TypeOK
    ReportsJustified
