\* Two Lockers on one lock name, two leases, failing etcd calls, lost and
\* expiring leases, one Close each: the Lockers that own the lock refine an
\* abstract lock, and a closed Locker's leases eventually leave etcd.  The
\* program stops once every Locker is closed, so deadlock is not an error.
CONSTANTS
    l1 = l1
    l2 = l2
    NoLocker = NoLocker
    Lockers <- MCLockers
    MaxLease = 2
    LeaseLoss = TRUE
    HasOwner = TRUE
    MaxClose = 1
SPECIFICATION FairSpec
PROPERTY AbsSpec
PROPERTY CloseReleasesLock
CHECK_DEADLOCK FALSE
