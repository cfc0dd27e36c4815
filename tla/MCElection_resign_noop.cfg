\* Two Candidates whose Resign transactions and waits may fail.  Checks
\* that a Resign that returned nil leaves no key behind.
CONSTANTS
    c1 = c1
    c2 = c2
    n1 = n1
    n2 = n2
    Candidates <- MCCandidates
    Names <- MCNames
    MaxRev = 3
    TxnFail = TRUE
    WaitErr = TRUE
    ObserveErr = FALSE
    LeaseLoss = {}
    NoCand = NoCand
    NoName = NoName
SPECIFICATION Spec
INVARIANT ResignReleases
CHECK_DEADLOCK FALSE
