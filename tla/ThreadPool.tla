----------------------------- MODULE ThreadPool -----------------------------
(***************************************************************************)
(* ThreadPool (src/base/thread_pool.cpp, include/base/thread_pool.h): a    *)
(* bounded task queue served by worker threads, in FIXED_MOD by as many as *)
(* start() created, in CACHE_MOD by up to thread_max_threshhold_, added    *)
(* when tasks outnumber idle workers and retired after an idle timeout.    *)
(*                                                                         *)
(* A critical section of task_que_mutex_ is one step, with one exception:  *)
(* a thread that has found its wait predicate false and is about to block  *)
(* still holds the mutex (queLock) and is not yet in the wait set.  stop() *)
(* stores is_running_ and notifies without the mutex, so it can run in     *)
(* that window.  A critical section of pool_mutex_ is one step; the check  *)
(* that addThread and markThreadExited make before locking it can only     *)
(* return early and is folded into the one they repeat under the lock.     *)
(* start() is called before the pool is shared with submitters.            *)
(***************************************************************************)
EXTENDS Naturals, Integers, Sequences, FiniteSets, Functions

CONSTANTS
    Tasks,              \* tasks, each submitted at most once
    TimedTasks,         \* those submitted with a timeout (interval_ms # -1)
    Submitters,         \* threads that submit
    MaxSpawn,           \* bound on the worker threads ever created
    MaxIdleTimeouts,    \* bound on the idle timeouts while the pool runs
    Controller,         \* the thread that calls start() and stop()
    MaxThreads,         \* thread_max_threshhold_
    MaxTasks,           \* task_que_max_threshhold_
    NoThread, NoTask    \* nobody, nothing

ASSUME PoolAssumption ==
    /\ TimedTasks \subseteq Tasks
    /\ MaxThreads \in Nat \ {0}
    /\ MaxTasks \in Nat \ {0}
    /\ MaxIdleTimeouts \in Nat
    /\ MaxSpawn \in Nat /\ MaxThreads <= MaxSpawn
    /\ NoTask \notin Tasks
    /\ IsFiniteSet(Submitters)

\* WorkThread ids are drawn from s_generateId.
Workers == 0..(MaxSpawn - 1)

ASSUME ThreadAssumption ==
    /\ NoThread \notin Workers \cup Submitters \cup {Controller}
    /\ Controller \notin Workers \cup Submitters
    /\ Submitters \cap Workers = {}

VARIABLES
    cacheMode,          \* mode_ = CACHE_MOD
    initThreads,        \* init_thread_count_
    isRunning,          \* is_running_
    taskQue,            \* task_que_; cur_task_count_ is its length
    curThreadCount,     \* cur_thread_count_
    busyCount,          \* busy_count_
    nextId,             \* s_generateId
    pool,               \* keys of pool_
    exitedIds,          \* exited_ids_
    queLock,            \* holder of task_que_mutex_ about to block, or NoThread
    wpc, wtask,         \* worker: place, and the task it took
    spc, stask, sjoin,  \* submitter: place, its task, exited workers to join
    cpc, cjoin,         \* controller: place, workers stop() has to join
    idleTimeouts,       \* idle timeouts so far, up to MaxIdleTimeouts
    fate                \* per task: "new", "accepted", "done", "refused"

vars == <<cacheMode, initThreads, isRunning, taskQue, curThreadCount, busyCount, nextId, pool,
          exitedIds, queLock, wpc, wtask, spc, stask, sjoin, cpc, cjoin, idleTimeouts, fate>>

workerVars == <<wpc, wtask>>
submitVars == <<spc, stask, sjoin>>
controlVars == <<cpc, cjoin, idleTimeouts>>
config == <<cacheMode, initThreads>>
poolVars == <<curThreadCount, nextId, pool, exitedIds>>

WorkerPlaces == {"off", "top", "block", "wait", "mark", "took", "ready", "run",
                 "leave", "gone"}
SubmitPlaces == {"idle", "lock", "block", "wait", "notify", "add", "join"}
ControlPlaces == {"new", "running", "notifyEmpty", "notifyFull", "eval", "block",
                  "wait", "collect", "join", "stopped"}

PoolTypeOK ==
    /\ cacheMode \in BOOLEAN
    /\ initThreads \in 1..MaxThreads
    /\ isRunning \in BOOLEAN
    /\ taskQue \in Seq(Tasks) /\ Len(taskQue) <= MaxTasks
    /\ curThreadCount \in 0..MaxSpawn
    /\ busyCount \in 0..MaxSpawn
    /\ nextId \in 0..MaxSpawn
    /\ pool \subseteq Workers
    /\ exitedIds \subseteq Workers
    /\ queLock \in Workers \cup Submitters \cup {Controller, NoThread}
    /\ wpc \in [Workers -> WorkerPlaces]
    /\ wtask \in [Workers -> Tasks \cup {NoTask}]
    /\ spc \in [Submitters -> SubmitPlaces]
    /\ stask \in [Submitters -> Tasks \cup {NoTask}]
    /\ sjoin \in [Submitters -> SUBSET Workers]
    /\ cpc \in ControlPlaces
    /\ cjoin \subseteq Workers
    /\ idleTimeouts \in 0..MaxIdleTimeouts
    /\ fate \in [Tasks -> {"new", "accepted", "done", "refused"}]

\* The constructor fixes the number of threads; the mode is FIXED_MOD until set.
Init ==
    /\ cacheMode = FALSE
    /\ initThreads \in 1..MaxThreads
    /\ isRunning = FALSE
    /\ taskQue = <<>>
    /\ curThreadCount = 0
    /\ busyCount = 0
    /\ nextId = 0
    /\ pool = {}
    /\ exitedIds = {}
    /\ queLock = NoThread
    /\ wpc = [w \in Workers |-> "off"]
    /\ wtask = [w \in Workers |-> NoTask]
    /\ spc = [s \in Submitters |-> "idle"]
    /\ stask = [s \in Submitters |-> NoTask]
    /\ sjoin = [s \in Submitters |-> {}]
    /\ cpc = "new"
    /\ cjoin = {}
    /\ idleTimeouts = 0
    /\ fate = [t \in Tasks |-> "new"]

-----------------------------------------------------------------------------
(* Helpers.                                                                *)

Free == queLock = NoThread

\* notify_one on notEmpty_ and notFull_: some waiter, if there is one, wakes up
\* and goes back to take the mutex; notify_all wakes them all.
NotifyOneWorker ==
    \/ \E w \in Workers : wpc[w] = "wait" /\ wpc' = [wpc EXCEPT ![w] = "top"]
    \/ (\A w \in Workers : wpc[w] # "wait") /\ UNCHANGED wpc

NotifyAllWorkers ==
    wpc' = [w \in Workers |-> IF wpc[w] = "wait" THEN "top" ELSE wpc[w]]

NotifyOneSubmitter ==
    \/ \E s \in Submitters : spc[s] = "wait" /\ spc' = [spc EXCEPT ![s] = "lock"]
    \/ (\A s \in Submitters : spc[s] # "wait") /\ UNCHANGED spc

NotifyAllSubmitters ==
    spc' = [s \in Submitters |-> IF spc[s] = "wait" THEN "lock" ELSE spc[s]]

\* isCache(): tasks outnumber the idle threads and there is room for one more.
IsCache ==
    /\ cacheMode
    /\ curThreadCount < MaxThreads
    /\ Len(taskQue) > curThreadCount - busyCount

\* Mutant of IsClear: a thread too many retired.
IsClearOffByOne ==
    /\ cacheMode
    /\ curThreadCount >= initThreads
    /\ Len(taskQue) < curThreadCount - busyCount

\* isClear(): more threads than at the start, and idle ones to spare.
IsClear ==
    /\ cacheMode
    /\ curThreadCount > initThreads
    /\ Len(taskQue) < curThreadCount - busyCount

\* Mutant of HasRoom: one task too many.
HasRoomForOneMore == Len(taskQue) <= MaxTasks

\* What a submitter waits for: room in the queue ...
HasRoom == Len(taskQue) < MaxTasks

\* Mutant of MayLeave: the queue not drained.
MayLeaveUndrained == ~isRunning

\* ... and what lets a worker leave: a stopping pool with nothing queued.
MayLeave == ~isRunning /\ taskQue = <<>>

\* checkExit(): nothing queued, nobody busy.
CheckExit == busyCount = 0 /\ taskQue = <<>>

-----------------------------------------------------------------------------
(* Workers: threadRunFunc.                                                 *)

\* Lock the queue and look: block, leave, or take the task at the front.  In
\* either mode a worker waits only while the queue is empty and the pool runs,
\* and a stopping pool is drained before its workers leave.
WorkerLook(w) ==
    /\ wpc[w] = "top" /\ Free
    /\ \/ /\ taskQue = <<>> /\ isRunning
          /\ wpc' = [wpc EXCEPT ![w] = "block"]
          /\ queLock' = w
          /\ UNCHANGED <<taskQue, wtask>>
       \/ /\ MayLeave
          /\ wpc' = [wpc EXCEPT ![w] = "leave"]
          /\ UNCHANGED <<taskQue, wtask, queLock>>
       \/ /\ taskQue # <<>>
          /\ wtask' = [wtask EXCEPT ![w] = Head(taskQue)]
          /\ taskQue' = Tail(taskQue)
          /\ wpc' = [wpc EXCEPT ![w] = "took"]
          /\ UNCHANGED queLock
    /\ UNCHANGED <<config, isRunning, busyCount, poolVars, submitVars, controlVars, fate>>

\* notEmpty_.wait / wait_for: join the wait set and release the mutex.
WorkerBlock(w) ==
    /\ wpc[w] = "block"
    /\ wpc' = [wpc EXCEPT ![w] = "wait"]
    /\ queLock' = NoThread
    /\ UNCHANGED <<config, isRunning, taskQue, busyCount, poolVars, wtask, submitVars,
                   controlVars, fate>>

\* CACHE_MOD: wait_for times out.  A running pool may retire the worker.
WorkerTimeout(w) ==
    /\ wpc[w] = "wait" /\ cacheMode /\ Free
    /\ IF isRunning
       THEN /\ idleTimeouts < MaxIdleTimeouts
            /\ idleTimeouts' = idleTimeouts + 1
            /\ wpc' = [wpc EXCEPT ![w] = "mark"]
       ELSE wpc' = [wpc EXCEPT ![w] = "top"] /\ UNCHANGED idleTimeouts
    /\ UNCHANGED <<config, isRunning, taskQue, busyCount, poolVars, queLock, wtask,
                   submitVars, cpc, cjoin, fate>>

\* markThreadExited, under pool_mutex_.
MarkThreadExited(w) ==
    /\ wpc[w] = "mark"
    /\ IF isRunning /\ IsClear
       THEN /\ exitedIds' = exitedIds \cup {w}
            /\ curThreadCount' = curThreadCount - 1
            /\ wpc' = [wpc EXCEPT ![w] = "leave"]
       ELSE /\ wpc' = [wpc EXCEPT ![w] = "top"]
            /\ UNCHANGED <<exitedIds, curThreadCount>>
    /\ UNCHANGED <<config, isRunning, taskQue, busyCount, nextId, pool, queLock, wtask,
                   submitVars, controlVars, fate>>

\* Mutant of WorkerNotify: the submitters are not told of the room.
WorkerNotifyForgotten(w) ==
    /\ wpc[w] = "took"
    /\ wpc' = [wpc EXCEPT ![w] = "ready"]
    /\ UNCHANGED <<config, isRunning, taskQue, busyCount, poolVars, queLock, wtask, submitVars,
                   controlVars, fate>>

\* notFull_.notify_one() after the task was taken and the mutex released.
WorkerNotify(w) ==
    /\ wpc[w] = "took"
    /\ NotifyOneSubmitter
    /\ wpc' = [wpc EXCEPT ![w] = "ready"]
    /\ UNCHANGED <<config, isRunning, taskQue, busyCount, poolVars, queLock, wtask, stask,
                   sjoin, controlVars, fate>>

\* ++busy_count_ and the task begins ...
WorkerRun(w) ==
    /\ wpc[w] = "ready"
    /\ busyCount' = busyCount + 1
    /\ wpc' = [wpc EXCEPT ![w] = "run"]
    /\ UNCHANGED <<config, isRunning, taskQue, poolVars, queLock, wtask, submitVars,
                   controlVars, fate>>

\* ... returns (a packaged_task keeps what it throws), --busy_count_.
WorkerDone(w) ==
    /\ wpc[w] = "run"
    /\ busyCount' = busyCount - 1
    /\ fate' = [fate EXCEPT ![wtask[w]] = "done"]
    /\ wtask' = [wtask EXCEPT ![w] = NoTask]
    /\ wpc' = [wpc EXCEPT ![w] = "top"]
    /\ UNCHANGED <<config, isRunning, taskQue, poolVars, queLock, submitVars, controlVars>>

\* Mutant of WorkerLeave: stop() is not told.
WorkerLeaveSilent(w) ==
    /\ wpc[w] = "leave"
    /\ wpc' = [wpc EXCEPT ![w] = "gone"]
    /\ UNCHANGED <<config, isRunning, taskQue, busyCount, poolVars, queLock, wtask,
                   submitVars, cpc, cjoin, idleTimeouts, fate>>

\* waitExit_.notify_one(), the worker's last step.
WorkerLeave(w) ==
    /\ wpc[w] = "leave"
    /\ wpc' = [wpc EXCEPT ![w] = "gone"]
    /\ cpc' = IF cpc = "wait" THEN "eval" ELSE cpc
    /\ UNCHANGED <<config, isRunning, taskQue, busyCount, poolVars, queLock, wtask,
                   submitVars, cjoin, idleTimeouts, fate>>

WorkerStep(w) ==
    \/ WorkerLook(w) \/ WorkerBlock(w) \/ MarkThreadExited(w) \/ WorkerNotify(w)
    \/ WorkerRun(w) \/ WorkerDone(w) \/ WorkerLeave(w)

-----------------------------------------------------------------------------
(* Submitters: trySubmitTask, submitTask.                                  *)

\* The call ends: status kStopping or kTimeout means the task is not taken.
Return(s) ==
    /\ spc' = [spc EXCEPT ![s] = "idle"]
    /\ stask' = [stask EXCEPT ![s] = NoTask]

Refuse(s) == fate' = [fate EXCEPT ![stask[s]] = "refused"]

\* The call, and its first look at is_running_ without the mutex.
Submit(s, t) ==
    /\ spc[s] = "idle" /\ fate[t] = "new" /\ \A r \in Submitters : stask[r] # t
    /\ IF isRunning
       THEN /\ spc' = [spc EXCEPT ![s] = "lock"]
            /\ stask' = [stask EXCEPT ![s] = t]
            /\ UNCHANGED fate
       ELSE fate' = [fate EXCEPT ![t] = "refused"] /\ UNCHANGED <<spc, stask>>
    /\ UNCHANGED <<config, isRunning, taskQue, busyCount, poolVars, queLock, workerVars,
                   sjoin, controlVars>>

\* The wait for room is over, with the mutex: give up on a stopping pool, or push.
Admit(s) ==
    \/ ~isRunning /\ Refuse(s) /\ Return(s) /\ UNCHANGED taskQue
    \/ /\ isRunning
       /\ taskQue' = Append(taskQue, stask[s])
       /\ fate' = [fate EXCEPT ![stask[s]] = "accepted"]
       /\ spc' = [spc EXCEPT ![s] = "notify"]
       /\ UNCHANGED stask

\* With the mutex: go on if there is room or the pool stops, else wait.
SubmitLook(s) ==
    /\ spc[s] = "lock" /\ Free
    /\ IF HasRoom \/ ~isRunning
       THEN Admit(s) /\ UNCHANGED queLock
       ELSE /\ spc' = [spc EXCEPT ![s] = "block"]
            /\ queLock' = s
            /\ UNCHANGED <<taskQue, stask, fate>>
    /\ UNCHANGED <<config, isRunning, busyCount, poolVars, workerVars, sjoin, controlVars>>

\* notFull_.wait / wait_for.
SubmitBlock(s) ==
    /\ spc[s] = "block"
    /\ spc' = [spc EXCEPT ![s] = "wait"]
    /\ queLock' = NoThread
    /\ UNCHANGED <<config, isRunning, taskQue, busyCount, poolVars, workerVars, stask,
                   sjoin, controlVars, fate>>

\* A timed wait ends: with the predicate still false it is kTimeout, and a cached
\* pool is asked to grow.
SubmitTimeout(s) ==
    /\ spc[s] = "wait" /\ stask[s] \in TimedTasks /\ Free
    /\ IF HasRoom \/ ~isRunning
       THEN Admit(s)
       ELSE /\ Refuse(s)
            /\ IF cacheMode
               THEN spc' = [spc EXCEPT ![s] = "add"] /\ UNCHANGED stask
               ELSE Return(s)
            /\ UNCHANGED taskQue
    /\ UNCHANGED <<config, isRunning, busyCount, poolVars, queLock, workerVars, sjoin,
                   controlVars>>

\* Mutant of SubmitNotify: in CACHE_MOD the thread addThread may start is to do.
SubmitNotifyLeftToAdd(s) ==
    /\ spc[s] = "notify"
    /\ IF cacheMode THEN UNCHANGED wpc ELSE NotifyOneWorker
    /\ spc' = [spc EXCEPT ![s] = "add"]
    /\ UNCHANGED <<config, isRunning, taskQue, busyCount, poolVars, queLock, wtask, stask,
                   sjoin, controlVars, fate>>

\* notEmpty_.notify_one() after the push.
SubmitNotify(s) ==
    /\ spc[s] = "notify"
    /\ NotifyOneWorker
    /\ spc' = [spc EXCEPT ![s] = "add"]
    /\ UNCHANGED <<config, isRunning, taskQue, busyCount, poolVars, queLock, wtask, stask,
                   sjoin, controlVars, fate>>

\* addThread: under pool_mutex_ the exited threads are taken out of pool_
\* (cleanupExitedThreadsUnLock) and a new one is started.
AddThread(s) ==
    /\ spc[s] = "add"
    /\ \/ /\ isRunning /\ IsCache
          /\ nextId < MaxSpawn
          /\ nextId' = nextId + 1
          /\ wpc' = [wpc EXCEPT ![nextId] = "top"]
          /\ pool' = (pool \ exitedIds) \cup {nextId}
          /\ curThreadCount' = curThreadCount + 1
          /\ exitedIds' = {}
          /\ sjoin' = [sjoin EXCEPT ![s] = exitedIds]
          /\ spc' = [spc EXCEPT ![s] = "join"]
          /\ UNCHANGED stask
       \/ ~(isRunning /\ IsCache) /\ Return(s) /\ UNCHANGED <<poolVars, wpc, sjoin>>
    /\ UNCHANGED <<config, isRunning, taskQue, busyCount, queLock, wtask, controlVars, fate>>

\* ... and, unlocked, the exited threads are joined.
SubmitJoin(s) ==
    /\ spc[s] = "join"
    /\ \A w \in sjoin[s] : wpc[w] = "gone"
    /\ sjoin' = [sjoin EXCEPT ![s] = {}]
    /\ Return(s)
    /\ UNCHANGED <<config, isRunning, taskQue, busyCount, poolVars, queLock, workerVars,
                   controlVars, fate>>

SubmitStep(s) ==
    \/ SubmitLook(s) \/ SubmitBlock(s) \/ SubmitNotify(s) \/ AddThread(s)
    \/ SubmitJoin(s)

-----------------------------------------------------------------------------
(* The controller: start() and stop().                                     *)

\* setMode, which does nothing on a pool that runs.
SetMode ==
    /\ cpc = "new" /\ ~isRunning
    /\ cacheMode' = ~cacheMode
    /\ UNCHANGED <<initThreads, isRunning, taskQue, busyCount, poolVars, queLock, workerVars,
                   submitVars, controlVars, fate>>

Start ==
    /\ cpc = "new"
    /\ isRunning' = TRUE
    /\ nextId' = initThreads
    /\ pool' = 0..(initThreads - 1)
    /\ wpc' = [w \in Workers |-> IF w < initThreads THEN "top" ELSE "off"]
    /\ curThreadCount' = initThreads
    /\ cpc' = "running"
    /\ UNCHANGED <<config, taskQue, busyCount, exitedIds, queLock, wtask, submitVars,
                   cjoin, idleTimeouts, fate>>

\* is_running_ = false, without the queue mutex ...
StopStore ==
    /\ cpc = "running"
    /\ isRunning' = FALSE
    /\ cpc' = "notifyEmpty"
    /\ UNCHANGED <<config, taskQue, busyCount, poolVars, queLock, workerVars, submitVars,
                   cjoin, idleTimeouts, fate>>

\* ... and the two notify_all.
StopNotifyEmpty ==
    /\ cpc = "notifyEmpty"
    /\ NotifyAllWorkers
    /\ cpc' = "notifyFull"
    /\ UNCHANGED <<config, isRunning, taskQue, busyCount, poolVars, queLock, wtask,
                   submitVars, cjoin, idleTimeouts, fate>>

StopNotifyFull ==
    /\ cpc = "notifyFull"
    /\ NotifyAllSubmitters
    /\ cpc' = "eval"
    /\ UNCHANGED <<config, isRunning, taskQue, busyCount, poolVars, queLock, workerVars,
                   stask, sjoin, cjoin, idleTimeouts, fate>>

\* waitExit_.wait: the predicate under the queue mutex.
StopLook ==
    /\ cpc = "eval" /\ Free
    /\ \/ CheckExit /\ cpc' = "collect" /\ UNCHANGED queLock
       \/ ~CheckExit /\ cpc' = "block" /\ queLock' = Controller
    /\ UNCHANGED <<config, isRunning, taskQue, busyCount, poolVars, workerVars,
                   submitVars, cjoin, idleTimeouts, fate>>

StopBlock ==
    /\ cpc = "block"
    /\ cpc' = "wait"
    /\ queLock' = NoThread
    /\ UNCHANGED <<config, isRunning, taskQue, busyCount, poolVars, workerVars,
                   submitVars, cjoin, idleTimeouts, fate>>

\* joinAndClearThreads, under pool_mutex_.
StopCollect ==
    /\ cpc = "collect"
    /\ cjoin' = pool
    /\ pool' = {}
    /\ exitedIds' = {}
    /\ cpc' = "join"
    /\ UNCHANGED <<config, isRunning, taskQue, busyCount, curThreadCount, nextId, queLock,
                   workerVars, submitVars, idleTimeouts, fate>>

\* Mutant of StopJoin: a join that skips the reset of the counters.
StopJoinKeepsCount ==
    /\ cpc = "join"
    /\ \A w \in cjoin : wpc[w] = "gone"
    /\ cpc' = "stopped"
    /\ cjoin' = {}
    /\ UNCHANGED <<config, isRunning, taskQue, busyCount, poolVars, queLock, workerVars,
                   submitVars, idleTimeouts, fate>>

\* Every collected thread is joined and the counters are reset.
StopJoin ==
    /\ cpc = "join"
    /\ \A w \in cjoin : wpc[w] = "gone"
    /\ cpc' = "stopped"
    /\ cjoin' = {}
    /\ curThreadCount' = 0
    /\ busyCount' = 0
    /\ UNCHANGED <<config, isRunning, taskQue, nextId, pool, exitedIds, queLock,
                   workerVars, submitVars, idleTimeouts, fate>>

StopStep ==
    \/ StopNotifyEmpty \/ StopNotifyFull \/ StopLook \/ StopBlock \/ StopCollect
    \/ StopJoin

Next ==
    \/ \E w \in Workers : WorkerStep(w) \/ WorkerTimeout(w)
    \/ \E s \in Submitters :
         SubmitStep(s) \/ SubmitTimeout(s) \/ \E t \in Tasks : Submit(s, t)
    \/ SetMode \/ Start \/ StopStore \/ StopStep

(***************************************************************************)
(* Fairness: every thread that can run does, tasks return, and a timed     *)
(* wait times out in the end.  Nobody has to submit or to call stop().     *)
(***************************************************************************)
Fairness ==
    /\ \A w \in Workers : WF_vars(WorkerStep(w) \/ WorkerTimeout(w))
    /\ \A s \in Submitters : WF_vars(SubmitStep(s) \/ SubmitTimeout(s))
    /\ WF_vars(StopStep)

Spec == Init /\ [][Next]_vars /\ Fairness

-----------------------------------------------------------------------------
(* Properties.                                                             *)

\* Everything keeps its type and no more than max_task_count_ tasks are queued;
\* cur_thread_count_ stays between init_thread_count_ and the maximum while the
\* pool runs, and counts exactly the threads in pool_ that are not marked
\* exited; busy_count_ never exceeds it, so that the idle count computed by
\* isCache and isClear is never negative; every marked thread is in pool_, as
\* cleanupExitedThreadsUnLock asserts.
PoolAccounting ==
    /\ PoolTypeOK
    /\ exitedIds \subseteq pool
    /\ busyCount <= curThreadCount
    /\ cpc \in {"running", "notifyEmpty", "notifyFull", "eval", "block", "wait",
                "collect"} =>
         /\ curThreadCount = Cardinality(pool \ exitedIds)
         /\ curThreadCount \in initThreads..MaxThreads

\* When stop() has returned and no submitter is inside the pool, no worker is
\* going to touch the pool again and its counters are those of an empty pool.
QuietAfterStop ==
    cpc = "stopped" =>
        /\ curThreadCount = 0 /\ busyCount = 0 /\ pool = {} /\ taskQue = <<>>
        /\ (\A s \in Submitters : spc[s] = "idle")
             => \A w \in Workers : wpc[w] \in {"off", "gone"}

\* No notification is missed or spent on the wrong waiter.  While submitters wait
\* for room, every free place of the queue is on somebody's mind: a worker that
\* took a task and has yet to notify, or a submitter that was woken (or has just
\* come) and will look; it may be a timed one, or one that overtakes the others.
\* While workers wait for work, every queued task has a submitter yet to notify or
\* a worker about to look.
At(pc, p) == {i \in DOMAIN pc : pc[i] = p}
NoMissedNotification ==
    isRunning =>
        /\ (\E s \in Submitters : spc[s] = "wait") =>
             MaxTasks - Len(taskQue) <= Cardinality(At(wpc, "took")) + Cardinality(At(spc, "lock"))
        /\ (\E w \in Workers : wpc[w] = "wait") =>
             Len(taskQue) <= Cardinality(At(spc, "notify")) + Cardinality(At(wpc, "top"))

\* An accepted task is run, whether or not the pool is stopped meanwhile.
AcceptedRuns == \A t \in Tasks : fate[t] = "accepted" ~> fate[t] = "done"

\* In CACHE_MOD stop() returns: a worker its notification missed wakes up by itself.
CacheStopReturns == cacheMode /\ cpc = "notifyEmpty" ~> cpc = "stopped"

\* stop() returns once its exit condition (empty queue, nobody busy) is
\* reached, as the comment in stop() has it.
StopReturns == cpc = "notifyEmpty" ~> cpc = "stopped"

-----------------------------------------------------------------------------
(* The inductive invariant behind the invariants.                          *)

\* Workers that are not leaving yet, and those inside a task.
Active == {w \in Workers : wpc[w] \notin {"off", "leave", "gone"}}
Running == {w \in Workers : wpc[w] = "run"}

\* Where stop() has come to.
Control ==
    /\ isRunning <=> cpc = "running"
    /\ cpc \in {"collect", "join", "stopped"} => taskQue = <<>>
    /\ cpc \in {"new", "join", "stopped"} => pool = {}
    /\ cpc # "join" => cjoin = {}

\* A worker that still runs is in pool_ and not marked, or stop() waits for it;
\* one on its way out is in pool_, or somebody waits for it.
Kept ==
    /\ exitedIds \subseteq pool
    /\ pool \subseteq 0..(nextId - 1)
    /\ \A w \in Workers : w >= nextId => wpc[w] = "off"
    /\ Active \subseteq (pool \ exitedIds) \cup cjoin
    /\ \A w \in Workers : wpc[w] = "leave" =>
         w \in pool \cup cjoin \/ \E s \in Submitters : w \in sjoin[s]
    /\ \A s \in Submitters : sjoin[s] # {} => spc[s] = "join"

\* cur_thread_count_ and busy_count_.
Counts ==
    /\ cpc \notin {"join", "stopped"} => curThreadCount = Cardinality(pool \ exitedIds)
    /\ cpc \notin {"new", "join", "stopped"} => curThreadCount \in initThreads..MaxThreads
    /\ cpc = "join" => Cardinality(Active) <= curThreadCount
    /\ cpc = "stopped" => curThreadCount = 0 /\ busyCount = 0
    /\ cpc # "stopped" => busyCount = Cardinality(Running)

\* Who is about to block holds task_que_mutex_, and what it saw is still so.
Blocking ==
    /\ \A w \in Workers : wpc[w] = "block" => queLock = w /\ taskQue = <<>>
    /\ \A s \in Submitters : spc[s] = "block" => queLock = s /\ ~HasRoom
    /\ cpc = "block" => queLock = Controller
    /\ cpc = "new" => \A s \in Submitters : spc[s] = "idle"

WakeInv == Blocking /\ NoMissedNotification

PoolInv ==
    /\ PoolTypeOK
    /\ Control
    /\ Kept
    /\ Counts
    /\ \A s \in Submitters : spc[s] # "idle" => stask[s] \in Tasks
=============================================================================
