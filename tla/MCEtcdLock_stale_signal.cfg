\* No lease is lost: two callers still both come to hold the lock, after a
\* session-done signal of an old session clears a Locker's new lock.
CONSTANTS
    l1 = l1
    l2 = l2
    NoLocker = NoLocker
    Lockers <- MCLockers
    MaxLease = 3
    LeaseLoss = FALSE
    HasOwner = TRUE
    MaxClose = 0
SPECIFICATION Spec
INVARIANT CallerMutualExclusion
CHECK_DEADLOCK FALSE
