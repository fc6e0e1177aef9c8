SPECIFICATION Spec
CONSTANTS
    Users = {u1}
    Sockets = {s1, s2}
    Tables = {t1}
    Slots = {k1}
    TableLists <- OneTable
    HasRedis = TRUE
    Faults = {"redisError", "restart"}
    MaxAttempts = 1
    NoUser = NoUser
    t1 = t1
    t2 = t2
SYMMETRY Symmetry
VIEW WithoutHistory
INVARIANTS
    ConnectedIsRegistered
\* Every socket of the instance may have come and gone.
CHECK_DEADLOCK FALSE
