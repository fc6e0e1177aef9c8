SPECIFICATION Spec
CONSTANTS
    e1 = e1
    e2 = e2
    i1 = i1
    i2 = i2
    i3 = i3
    c1 = c1
    c2 = c2
    None = None
    Emails = {e1, e2}
    Ids = {i1, i2, i3}
    Calls = {c1, c2}
    Faults = {"dbError", "accountDeleted"}
    MaxRows = 2
    MaxAccounts = 2
    MaxTokens = 2
SYMMETRY Symmetry
VIEW View
INVARIANTS
    TypeOK
    TokensNameOwner
    SignedInAsOwner
\* The pool of ids may be used up.
CHECK_DEADLOCK FALSE
