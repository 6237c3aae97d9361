CONSTANTS
    Servers = {s1, s2}
    Calls = {c1, c2}
    Absent = Absent
    Requests <- MCRequests
    Recipients = {"bob"}
    Strangers = {"eve"}
    Mailboxes0 <- MCMailboxes0
    Limit = 1
    MaxSize = 2
    MaxRetries = 1
    MaxAdmin = 1
SPECIFICATION Spec
SYMMETRY MCSymmetry
INVARIANTS
    TypeOK
    NoInterference
    ReportBracketsWrite
    OffMeansOff
    BlameIsTrue
    AdviceWasTrue
