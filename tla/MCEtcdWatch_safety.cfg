\* Two watch goroutines (a key or a range, and a prefix) over two keys, every
\* wrapper writing up to revision 3 with one lease, stopCh closed and ctx
\* cancelled at any point, consumers that keep reading, and Compact at revision 2.
CONSTANTS
    Keys <- MCKeys
    Vals = {v1}
    Leases = {l1}
    Watchers <- MCWatchers
    WatchSetups <- MCWatchSetups
    MaxRev = 3
    ReadAfterStop = TRUE
    CompactRevs = {2}
    NoKV = NoKV
    NoLease = NoLease
    NoVal = NoVal
    w1 = w1
    w2 = w2
    v1 = v1
    l1 = l1
SPECIFICATION FairSpec
INVARIANT WatchDeliversHistory
INVARIANT WatchMirrorsGet
INVARIANT TopQueriesAgree
 
PROPERTY WatchDeliversAll
CHECK_DEADLOCK FALSE
