\* Reliable transactions, an Observe whose Get or watch may fail.  Checks
\* that a running Observer catches up with a stable leader.
CONSTANTS
    c1 = c1
    c2 = c2
    n1 = n1
    n2 = n2
    Candidates <- MCCandidates
    Names <- MCNames
    MaxRev = 3
    TxnFail = FALSE
    WaitErr = FALSE
    ObserveErr = TRUE
    LeaseLoss = {}
    NoCand = NoCand
    NoName = NoName
SPECIFICATION FairSpec
PROPERTY ObserverConverges
CHECK_DEADLOCK FALSE
