CONSTANTS
    Servers = {s1, s2}
    Calls = {c1, c2}
    Requests <- MCRequests
    Recipients = {"bob", "ann"}
    Strangers = {"eve"}
    Self = "self"
    Acls <- MCAcls
    MaxRetries = 1
SPECIFICATION Spec
SYMMETRY MCSymmetry
INVARIANTS
    TypeOK
    GrantLostOnlyByStaleWrite
    DelegateReportsAreTrue
PROPERTIES
    DefiniteAnswerHolds
    CheckFirstThenAct
