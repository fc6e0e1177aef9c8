SPECIFICATION LiveSpec
CONSTANTS
    Users = {u1}
    Sockets = {s1}
    Tables = {t1, t2}
    Slots = {k1}
    TableLists <- AnyOfTwo
    HasRedis = TRUE
    Faults = {"ttl", "tokenExpiry"}
    MaxAttempts = 2
    NoUser = NoUser
    t1 = t1
    t2 = t2
INVARIANTS
    TypeOK
    TracesExpire
    ViewsAgree
    CleanAfterDisconnect
PROPERTIES
    ForgottenInTheEnd
\* Every socket of the instance may have come and gone.
CHECK_DEADLOCK FALSE
