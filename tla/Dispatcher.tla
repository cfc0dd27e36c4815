----------------------------- MODULE Dispatcher -----------------------------
(***************************************************************************)
(* The bounded task dispatcher of src/dispatcher: callers submit tasks     *)
(* with AddTask, the assignTask loop drains the task channel and spawns    *)
(* one hand-off goroutine per task, each hand-off takes the next worker    *)
(* from the idle-worker channel and puts the task in that worker's         *)
(* one-slot task channel, the worker goroutine runs it and puts itself     *)
(* back into the idle-worker channel.  StopTemporary / StartAgain flip     *)
(* the stop flag; StopForever sets it and spawns a goroutine that stops    *)
(* idle workers once the task channel is empty.                            *)
(*                                                                         *)
(* Each goroutine is a separate actor, so every interleaving of callers,   *)
(* the assign loop, hand-offs, workers and the StopForever poller is       *)
(* explored.  Task payloads, timestamps and log output are abstracted      *)
(* away; a task is a model value.                                          *)
(***************************************************************************)
EXTENDS Naturals, Sequences, FiniteSets, SequencesExt, Functions

CONSTANTS
    MaxWorkerNum,     \* cap(workerCh): the number of workers run() creates
    Tasks,            \* the tasks callers try to submit, one caller each
    MaxTaskNum,       \* cap(taskCh), the configured queue capacity
    ExpiringTasks,    \* tasks whose OriginalCtx can be done at pick-up
    Resources,        \* the Resource instances Check may hand back
    InitialResource,  \* the Resource r passed to GetDispatch (or NoResource)
    NoResource,       \* a nil Resource
    NoTask,           \* an empty per-worker task slot
    MaxStopForever,   \* 0 or 1: whether StopForever is called
    OutChTasks        \* the tasks submitted with a non-nil OutCh

ASSUME /\ MaxWorkerNum \in Nat \ {0} /\ MaxTaskNum \in Nat \ {0}
       /\ ExpiringTasks \subseteq Tasks
       /\ InitialResource \in Resources \cup {NoResource}
       /\ NoResource \notin Resources /\ NoTask \notin Tasks
       /\ MaxStopForever \in {0, 1} /\ OutChTasks \subseteq Tasks

\* The workerIDs given out by the loop of run().
Workers == 0..(MaxWorkerNum - 1)

\* The State enum of dispatcher.go
StateOfNormal == 0
StateOfHalf   == 1
StateOfBusy   == 2
StateOfDeny   == 3

VARIABLES
    isStop,        \* d.isStop
    state,         \* d.state
    taskQ,         \* the contents of d.taskCh, in FIFO order
    handoff,       \* tasks held by hand-off goroutines spawned by assignTask
    idleQ,         \* the contents of d.workerCh, in FIFO order
    slot,          \* slot[w]: the task in w.taskCh, or NoTask
    quit,          \* quit[w]: a stop signal is pending in w.quitCh
    alive,         \* alive[w]: w's working() goroutine has not returned
    res,           \* res[w]: w.resource
    relCount,      \* relCount[r]: how often Release() was called on r
    sub,           \* sub[t]: where task t is in its life
    totalIn, totalDone, totalError, totalRefused,   \* the four counters
    sfpc,          \* the StopForever goroutine: "off", "check", "take", "done"
    results        \* results[t]: the OutData sent on t's OutCh so far

vars == <<isStop, state, taskQ, handoff, idleQ, slot, quit, alive, res,
          relCount, sub, totalIn, totalDone, totalError, totalRefused,
          sfpc, results>>

\* The life of a task as seen by its caller and the dispatcher.
\*   "new": AddTask not yet called;  "sending": admitted, blocked on taskCh;
\*   "queued": accepted and not yet run;  "finished": a worker ran it;
\*   "refused": too busy;  "stopped": ErrorOfDispatcherHasStop.
SubStates == {"new", "sending", "queued", "finished", "refused", "stopped"}

-----------------------------------------------------------------------------
(* Admission thresholds of AddTask, in Go integer arithmetic. *)
HalfMark == MaxTaskNum \div 2
BusyMark == (MaxTaskNum * 7) \div 10
DenyMark == (MaxTaskNum * 95) \div 100

\* d.state after the three threshold checks of AddTask with n queued tasks;
\* below the half mark the state is left as it was.
AdmitState(n, s) ==
    IF n >= DenyMark THEN StateOfDeny
    ELSE IF n >= BusyMark THEN StateOfBusy
    ELSE IF n >= HalfMark THEN StateOfHalf
    ELSE s

\* The tasks that were counted in totalIn and have not been run yet.
InFlight == {t \in Tasks : sub[t] \in {"sending", "queued"}}

\* A worker that is executing (or about to execute) a task.
Busy(w) == slot[w] # NoTask

-----------------------------------------------------------------------------
Init ==
    /\ isStop = FALSE
    /\ state = StateOfNormal
    /\ taskQ = <<>>
    /\ handoff = {}
    /\ idleQ = [i \in 1..MaxWorkerNum |-> i - 1]
    /\ slot = [w \in Workers |-> NoTask]
    /\ quit = [w \in Workers |-> FALSE]
    /\ alive = [w \in Workers |-> TRUE]
    /\ res = [w \in Workers |-> InitialResource]
    /\ relCount = [r \in Resources |-> 0]
    /\ sub = [t \in Tasks |-> "new"]
    /\ totalIn = 0 /\ totalDone = 0 /\ totalError = 0 /\ totalRefused = 0
    /\ sfpc = "off"
    /\ results = [t \in Tasks |-> 0]

-----------------------------------------------------------------------------
(* AddTask up to the channel send: the stop check, the threshold checks   *)
(* with their writes of d.state, and refusal or the StartTime stamp and   *)
(* the totalInTask increment.                                             *)
AddTaskCheck(t) ==
    /\ sub[t] = "new"
    /\ IF isStop
         THEN /\ sub' = [sub EXCEPT ![t] = "stopped"]
              /\ UNCHANGED <<state, totalIn, totalRefused>>
         ELSE /\ state' = AdmitState(Len(taskQ), state)
              /\ IF Len(taskQ) >= DenyMark
                   THEN /\ totalRefused' = totalRefused + 1
                        /\ sub' = [sub EXCEPT ![t] = "refused"]
                        /\ UNCHANGED totalIn
                   ELSE /\ totalIn' = totalIn + 1
                        /\ sub' = [sub EXCEPT ![t] = "sending"]
                        /\ UNCHANGED totalRefused
    /\ UNCHANGED <<isStop, taskQ, handoff, idleQ, slot, quit, alive, res,
                   relCount, totalDone, totalError, sfpc, results>>

(* d.taskCh <- t: blocks while the channel is full. *)
AddTaskSend(t) ==
    /\ sub[t] = "sending"
    /\ Len(taskQ) < MaxTaskNum
    /\ taskQ' = Append(taskQ, t)
    /\ sub' = [sub EXCEPT ![t] = "queued"]
    /\ UNCHANGED <<isStop, state, handoff, idleQ, slot, quit, alive, res,
                   relCount, totalIn, totalDone, totalError, totalRefused,
                   sfpc, results>>

(* One iteration of assignTask: receive from d.taskCh, spawn a hand-off. *)
AssignTask ==
    /\ taskQ # <<>>
    /\ handoff' = handoff \cup {Head(taskQ)}
    /\ taskQ' = Tail(taskQ)
    /\ UNCHANGED <<isStop, state, idleQ, slot, quit, alive, res, relCount,
                   sub, totalIn, totalDone, totalError, totalRefused,
                   sfpc, results>>

(* A hand-off goroutine: worker := <-d.workerCh; worker.taskCh <- task.   *)
(* The slot is empty because the worker was idle, so the send never       *)
(* blocks and the two statements are one step.                           *)
HandOff(t) ==
    /\ t \in handoff
    /\ idleQ # <<>>
    /\ slot' = [slot EXCEPT ![Head(idleQ)] = t]
    /\ idleQ' = Tail(idleQ)
    /\ handoff' = handoff \ {t}
    /\ UNCHANGED <<isStop, state, taskQ, quit, alive, res, relCount, sub,
                   totalIn, totalDone, totalError, totalRefused,
                   sfpc, results>>

\* atomic.AddUint64 on totalErrorTask or on totalDoneTask.
RecordError == totalError' = totalError + 1 /\ UNCHANGED totalDone
RecordDone  == totalDone' = totalDone + 1 /\ UNCHANGED totalError

\* task.OutCh <- out, when the caller gave an OutCh (the caller's channel
\* has room for what is sent on it, so the send does not block).
SendResult(t) ==
    results' = IF t \in OutChTasks THEN [results EXCEPT ![t] = @ + 1]
               ELSE results

\* workDo: the work function sends its own result on OutCh (spec.md 4.2)
\* and its returned error decides which counter is incremented.
WorkDo(t) == (RecordError \/ RecordDone) /\ SendResult(t)

\* Mutant: the expiry branch without its goto TaskEnd falls through to
\* workDo, which counts and answers the task a second time.
RunTaskNoGoto(w) ==
    \/ /\ slot[w] \in ExpiringTasks
       /\ totalError' = totalError + 1
       /\ totalDone' = totalDone + 1
       /\ results' = IF slot[w] \in OutChTasks
                     THEN [results EXCEPT ![slot[w]] = @ + 2] ELSE results
       /\ UNCHANGED res
    \/ /\ res[w] = NoResource
       /\ WorkDo(slot[w])
       /\ UNCHANGED res
    \/ /\ res[w] # NoResource
       /\ \E r \in Resources \cup {NoResource} : res' = [res EXCEPT ![w] = r]
       /\ \/ RecordError /\ SendResult(slot[w])
          \/ WorkDo(slot[w])

\* Mutant: a failed Check goes to TaskEnd without sending its error.
RunTaskCheckNoSend(w) ==
    \/ /\ slot[w] \in ExpiringTasks
       /\ RecordError /\ SendResult(slot[w])
       /\ UNCHANGED res
    \/ /\ res[w] = NoResource
       /\ WorkDo(slot[w])
       /\ UNCHANGED res
    \/ /\ res[w] # NoResource
       /\ \E r \in Resources \cup {NoResource} : res' = [res EXCEPT ![w] = r]
       /\ \/ RecordError /\ UNCHANGED results
          \/ WorkDo(slot[w])

(* The body of the task case of working(), from the expiry check to the   *)
(* goto target TaskEnd: a task whose context is already done fails at     *)
(* once and its error is sent on OutCh; otherwise a worker holding a      *)
(* resource calls Check and adopts what it returns (nil included); an     *)
(* error is counted and sent on OutCh; otherwise workDo runs.             *)
RunTask(w) ==
    \/ /\ slot[w] \in ExpiringTasks
       /\ RecordError /\ SendResult(slot[w])
       /\ UNCHANGED res
    \/ /\ res[w] = NoResource
       /\ WorkDo(slot[w])
       /\ UNCHANGED res
    \/ /\ res[w] # NoResource
       /\ \E r \in Resources \cup {NoResource} : res' = [res EXCEPT ![w] = r]
       /\ \/ RecordError /\ SendResult(slot[w])
          \/ WorkDo(slot[w])

\* Mutant: a failed task makes the worker goroutine return instead of
\* going to TaskEnd, so the worker never re-registers.
WorkerRunReturnOnError(w) ==
    /\ alive[w]
    /\ Busy(w)
    /\ RunTask(w)
    /\ sub' = [sub EXCEPT ![slot[w]] = "finished"]
    /\ slot' = [slot EXCEPT ![w] = NoTask]
    /\ IF totalError' > totalError
         THEN /\ alive' = [alive EXCEPT ![w] = FALSE] /\ UNCHANGED idleQ
         ELSE /\ idleQ' = Append(idleQ, w) /\ UNCHANGED alive
    /\ UNCHANGED <<isStop, state, taskQ, handoff, quit, relCount,
                   totalIn, totalRefused, sfpc>>

(* The worker goroutine receives its task, runs it, and sends itself back *)
(* into d.workerCh (never full: it has room for every worker).            *)
WorkerRun(w) ==
    /\ alive[w]
    /\ Busy(w)
    /\ RunTask(w)
    /\ sub' = [sub EXCEPT ![slot[w]] = "finished"]
    /\ slot' = [slot EXCEPT ![w] = NoTask]
    /\ idleQ' = Append(idleQ, w)
    /\ UNCHANGED <<isStop, state, taskQ, handoff, quit, alive, relCount,
                   totalIn, totalRefused, sfpc>>

\* Mutant: the quit case without its return falls through to
\* d.workerCh <- w and re-registers the stopped worker.
WorkerQuitNoReturn(w) ==
    /\ alive[w]
    /\ quit[w]
    /\ quit' = [quit EXCEPT ![w] = FALSE]
    /\ alive' = [alive EXCEPT ![w] = FALSE]
    /\ relCount' = IF res[w] = NoResource THEN relCount
                   ELSE [relCount EXCEPT ![res[w]] = @ + 1]
    /\ idleQ' = Append(idleQ, w)
    /\ UNCHANGED <<isStop, state, taskQ, handoff, slot, res, sub,
                   totalIn, totalDone, totalError, totalRefused,
                   sfpc, results>>

(* The quit case of working(): Release the resource if there is one, then *)
(* return without re-registering in d.workerCh.                           *)
WorkerQuit(w) ==
    /\ alive[w]
    /\ quit[w]
    /\ quit' = [quit EXCEPT ![w] = FALSE]
    /\ alive' = [alive EXCEPT ![w] = FALSE]
    /\ relCount' = IF res[w] = NoResource THEN relCount
                   ELSE [relCount EXCEPT ![res[w]] = @ + 1]
    /\ UNCHANGED <<isStop, state, taskQ, handoff, idleQ, slot, res, sub,
                   totalIn, totalDone, totalError, totalRefused,
                   sfpc, results>>

-----------------------------------------------------------------------------
(* StopTemporary and StartAgain: plain writes of d.isStop. *)
StopTemporary ==
    /\ isStop' = TRUE
    /\ UNCHANGED <<state, taskQ, handoff, idleQ, slot, quit, alive, res,
                   relCount, sub, totalIn, totalDone, totalError,
                   totalRefused, sfpc, results>>

StartAgain ==
    /\ isStop' = FALSE
    /\ UNCHANGED <<state, taskQ, handoff, idleQ, slot, quit, alive, res,
                   relCount, sub, totalIn, totalDone, totalError,
                   totalRefused, sfpc, results>>

(* StopForever: set the flag and spawn the polling goroutine. *)
StopForever ==
    /\ sfpc = "off"
    /\ MaxStopForever = 1
    /\ isStop' = TRUE
    /\ sfpc' = "check"
    /\ UNCHANGED <<state, taskQ, handoff, idleQ, slot, quit, alive, res,
                   relCount, sub, totalIn, totalDone, totalError,
                   totalRefused, results>>

\* Mutant: a poller that only signals done once every worker is idle.
StopForeverCheckAllIdle ==
    /\ sfpc = "check"
    /\ taskQ = <<>>
    /\ sfpc' = IF Len(idleQ) = MaxWorkerNum THEN "done" ELSE "take"
    /\ UNCHANGED <<isStop, state, taskQ, handoff, idleQ, slot, quit, alive,
                   res, relCount, sub, totalIn, totalDone, totalError,
                   totalRefused, results>>

(* One pass of the polling loop once len(d.taskCh) == 0 (while the task  *)
(* channel is non-empty the loop spins without effect): with no idle     *)
(* worker it sends on done and returns, otherwise it goes on to receive. *)
StopForeverCheck ==
    /\ sfpc = "check"
    /\ taskQ = <<>>
    /\ sfpc' = IF idleQ = <<>> THEN "done" ELSE "take"
    /\ UNCHANGED <<isStop, state, taskQ, handoff, idleQ, slot, quit, alive,
                   res, relCount, sub, totalIn, totalDone, totalError,
                   totalRefused, results>>

(* worker := <-d.workerCh; worker.stop(): blocks until a worker is idle. *)
StopForeverTake ==
    /\ sfpc = "take"
    /\ idleQ # <<>>
    /\ quit' = [quit EXCEPT ![Head(idleQ)] = TRUE]
    /\ idleQ' = Tail(idleQ)
    /\ sfpc' = "check"
    /\ UNCHANGED <<isStop, state, taskQ, handoff, slot, alive, res,
                   relCount, sub, totalIn, totalDone, totalError,
                   totalRefused, results>>

-----------------------------------------------------------------------------
(* A caller may call StopTemporary or StartAgain at any time, so some step *)
(* is always possible and the model never deadlocks; progress is what the *)
(* liveness properties check.                                             *)
Next ==
    \/ \E t \in Tasks : AddTaskCheck(t) \/ AddTaskSend(t) \/ HandOff(t)
    \/ AssignTask
    \/ \E w \in Workers : WorkerRun(w) \/ WorkerQuit(w)
    \/ StopTemporary \/ StartAgain \/ StopForever
    \/ StopForeverCheck \/ StopForeverTake

(* Goroutines the runtime keeps scheduling: the assign loop, the worker   *)
(* loops and the StopForever poller are weakly fair.  A hand-off and a    *)
(* blocked channel send compete with other goroutines for the same       *)
(* channel and are only intermittently enabled; Go serves blocked         *)
(* receivers and senders of a channel in FIFO order, which makes them     *)
(* strongly fair.  WorkerRun being fair assumes workDo returns.  Callers  *)
(* are not obliged to call anything.                                      *)
Fairness ==
    /\ WF_vars(AssignTask)
    /\ \A t \in Tasks : SF_vars(HandOff(t)) /\ SF_vars(AddTaskSend(t))
    /\ \A w \in Workers : WF_vars(WorkerRun(w)) /\ WF_vars(WorkerQuit(w))
    /\ WF_vars(StopForeverCheck) /\ SF_vars(StopForeverTake)

Spec == Init /\ [][Next]_vars
FairSpec == Spec /\ Fairness

-----------------------------------------------------------------------------
(* Counter bookkeeping across goroutines (dispatcher.go AddTask, worker.go *)
(* working): every task counted by totalInTask is either still on its way  *)
(* (blocked on taskCh, in the channel, in a hand-off goroutine or in a     *)
(* worker's slot) or was counted exactly once as done or as error, and     *)
(* totalRefusedTask counts exactly the refused callers.                    *)
CountersBalance ==
    /\ totalIn = totalDone + totalError + Cardinality(InFlight)
    /\ totalRefused = Cardinality({t \in Tasks : sub[t] = "refused"})

(* spec.md 3 and 8: a task's result channel receives exactly one         *)
(* Result once a worker has run the task, and none before: the expiry and *)
(* Check-failure paths of working() send the error and skip workDo with   *)
(* goto TaskEnd, and every other path leaves the answer to workDo.         *)
ResultDeliveredOnce ==
    \A t \in Tasks :
        results[t] = IF t \in OutChTasks /\ sub[t] = "finished" THEN 1 ELSE 0

(* The idle-worker channel is the registry of available workers (worker.go *)
(* working() re-registers after a task, and returns without re-registering *)
(* on quit): it holds each worker at most once, and a worker is in it      *)
(* exactly when it is alive, holds no task and has no stop pending.        *)
PoolIntegrity ==
    /\ IsInjective(idleQ)
    /\ \A w \in Workers :
          w \in ToSet(idleQ) <=> (alive[w] /\ ~Busy(w) /\ ~quit[w])

(* Every task AddTask accepted is eventually run by a worker, unless       *)
(* StopForever is called first (assignTask, the hand-off goroutines and    *)
(* the worker loop never lose a task or a worker; the task StopForever can *)
(* lose is the finding of StopForeverFinishesTasks).                       *)
AcceptedTaskFinishes ==
    \A t \in Tasks :
        sub[t] \in {"sending", "queued"} ~> (sub[t] = "finished" \/ sfpc # "off")

(* The StopForever goroutine eventually sends on done once it is started. *)
StopForeverSignalsDone ==
    sfpc = "check" ~> sfpc = "done"

-----------------------------------------------------------------------------
(* Properties that the spec or the code's comments state and that the code *)
(* does not keep; each is checked by a run expected to find a violation.   *)

\* Tasks accepted and still waiting for a worker.
Backlog == Len(taskQ) + Cardinality(handoff)

(* spec.md 1 and 3: the dispatcher queues accepted work under a capacity   *)
(* limit.  assignTask moves every task out of taskCh into a hand-off       *)
(* goroutine at once, and AddTask's admission counts only len(taskCh).     *)
BacklogWithinCapacity == Backlog <= MaxTaskNum

(* dispatcher.go StopForever's comment: it finishes every task in the      *)
(* queue, then every worker quits.  Every accepted task is run even when   *)
(* StopForever is called.                                                  *)
StopForeverFinishesTasks ==
    \A t \in Tasks : sub[t] \in {"sending", "queued"} ~> sub[t] = "finished"

(* The same comment: when StopForever signals done, every worker has been *)
(* told to quit or has quit.                                              *)
DoneMeansWorkersQuit ==
    sfpc = "done" => \A w \in Workers : ~alive[w] \/ quit[w]

=============================================================================
