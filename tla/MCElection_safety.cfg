\* Two Candidates, two names, failing transactions and waits, a keep-alive
\* of c1 that may fail, a reliable Observe.  The program stops once every
\* Candidate is closed and the Observer stopped, or at the revision bound, so
\* deadlock is not checked.
CONSTANTS
    c1 = c1
    c2 = c2
    n1 = n1
    n2 = n2
    Candidates <- MCCandidates
    Names <- MCNames
    MaxRev = 3
    TxnFail = TRUE
    WaitErr = TRUE
    ObserveErr = FALSE
    LeaseLoss = {c1}
    NoCand = NoCand
    NoName = NoName
SPECIFICATION FairSpec
INVARIANT BelievedLeaderHoldsKey
PROPERTY ObserverConverges
CHECK_DEADLOCK FALSE
