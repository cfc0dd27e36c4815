\* Every interleaving of three callers, two workers, stop/start calls and
\* StopForever: counters, results and the idle-worker registry stay
\* consistent, and under the fairness of the Go scheduler every accepted task
\* runs unless StopForever intervenes, whose goroutine signals done.
CONSTANTS
    MaxWorkerNum = 2
    Tasks <- MCTasks
    MaxTaskNum = 2
    ExpiringTasks <- MCExpiring
    OutChTasks <- MCOutCh
    Resources <- MCResources
    InitialResource = r0
    NoResource = NoResource
    NoTask = NoTask
    t1 = t1
    t2 = t2
    t3 = t3
    t4 = t4
    r0 = r0
    r1 = r1
    MaxStopForever = 1
SPECIFICATION FairSpec
INVARIANT CountersBalance
INVARIANT PoolIntegrity
INVARIANT ResultDeliveredOnce
PROPERTY StopForeverSignalsDone
PROPERTY AcceptedTaskFinishes
