\* A Lock that waits behind another Locker's key records the revision of a
\* Get header as l.myRev, not its key's create revision.
CONSTANTS
    l1 = l1
    l2 = l2
    NoLocker = NoLocker
    Lockers <- MCLockers
    MaxLease = 2
    LeaseLoss = FALSE
    HasOwner = TRUE
    MaxClose = 0
SPECIFICATION Spec
INVARIANT RecordedRevIsOwnKey
CHECK_DEADLOCK FALSE
