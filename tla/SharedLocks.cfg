CONSTANTS
    va = va
    vb = vb
    vc = vc
    t1 = t1
    t2 = t2
    t3 = t3
    Thread = {t1, t2, t3}
    Var = {va, vb, vc}
    Nobody = Nobody
    Lockable = {va, vb}
    Pairs <- TwoLocks
    MaxScopes = 2
    MaxWaiters = 2
SYMMETRY Symmetry
SPECIFICATION Spec
INVARIANTS
    LockHandedOn
    WaitersCounted
    MutexOrder
PROPERTIES
    NoSignalLost
    ImplementsMonitor
CHECK_DEADLOCK FALSE
