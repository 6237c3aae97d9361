CONSTANTS
    Servers = {s1, s2}
    Calls = {"c1", "c2", "c3"}
    Addresses <- MCAddresses
    Foreign = {"boss"}
    Wishes <- MCWishes
    MaxRetries = 1
    MaxAdmin = 1
    Disciplined = FALSE
    LateDelivery = TRUE
SPECIFICATION Spec
SYMMETRY MCSymmetry
INVARIANTS
    NeverTakesForeign
    ReportsAreTrue
    LossNeedsStaleRead
