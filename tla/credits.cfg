\* Two API processes on one queue: crashes, lost connections, a failed call.
SPECIFICATION FairSpec
CONSTANTS
    p1 = p1
    p2 = p2
    c1 = c1
    c2 = c2
    Proc = {p1, p2}
    CreditId = {c1, c2}
    NoCredit = NoCredit
    MaxQueue = 2
    MaxCrashes = 2
    MaxFailures = 1
INVARIANTS
    CreditedOnce
    NoCreditLost
PROPERTIES
    ImplementsCreditBook
    EventuallyCredited
