\* StopForever signals done while a busy worker has not been told to quit.
CONSTANTS
    MaxWorkerNum = 2
    Tasks <- MCTasks
    MaxTaskNum = 2
    ExpiringTasks <- MCExpiring
    OutChTasks <- MCOutCh
    Resources <- MCOneResource
    InitialResource = NoResource
    NoResource = NoResource
    NoTask = NoTask
    MaxStopForever = 1
    t1 = t1
    t2 = t2
    t3 = t3
    t4 = t4
    r0 = r0
    r1 = r1
SPECIFICATION Spec
INVARIANT DoneMeansWorkersQuit
