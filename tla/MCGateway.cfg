CONSTANTS
    r1 = r1
    r2 = r2
    r3 = r3
    t1 = t1
    t2 = t2
    Requests = {r1, r2, r3}
    Tasks = {t1, t2}
    Tenants <- MCTenants
    Asks <- MCAsks
SPECIFICATION Spec
SYMMETRY MCSymmetry
INVARIANTS
    TypeOK
    Isolation
    NothingLeftBehind
PROPERTY ImplementsPrivateRequests
