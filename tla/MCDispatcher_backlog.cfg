\* Four callers, one worker, a queue of capacity 2: accepted tasks pile up in
\* hand-off goroutines beyond the capacity.
CONSTANTS
    MaxWorkerNum = 1
    Tasks <- MCFourTasks
    MaxTaskNum = 2
    ExpiringTasks <- MCExpiring
    OutChTasks <- MCOutCh
    Resources <- MCOneResource
    InitialResource = NoResource
    NoResource = NoResource
    NoTask = NoTask
    MaxStopForever = 0
    t1 = t1
    t2 = t2
    t3 = t3
    t4 = t4
    r0 = r0
    r1 = r1
SPECIFICATION Spec
INVARIANT BacklogWithinCapacity
