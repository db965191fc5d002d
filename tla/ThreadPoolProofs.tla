-------------------------- MODULE ThreadPoolProofs --------------------------
(***************************************************************************)
(* Proofs about ThreadPool, for every number of tasks, submitters, threads *)
(* and idle timeouts and every limit of the queue.  The inductive          *)
(* invariants are ThreadPool!PoolInv (the workers and the counters) and,   *)
(* on top of it, ThreadPool!WakeInv (the notifications).                   *)
(***************************************************************************)
EXTENDS ThreadPool, FiniteSetTheorems, SequenceTheorems, TLAPS

-----------------------------------------------------------------------------
(* Counting workers.                                                       *)

\* Sets of workers have sizes, and a part is no larger than the whole.
LEMMA WorkerSets ==
    ASSUME NEW A \in SUBSET Workers, NEW B \in SUBSET A
    PROVE  /\ IsFiniteSet(A) /\ Cardinality(A) \in Nat /\ Cardinality(A) <= MaxSpawn
           /\ Cardinality(B) \in Nat /\ Cardinality(B) <= Cardinality(A)
<1>1. MaxSpawn \in Nat
  BY PoolAssumption
<1>2. IsFiniteSet(Workers) /\ Cardinality(Workers) = MaxSpawn
  BY <1>1, FS_Interval DEF Workers
<1>3. IsFiniteSet(A) /\ Cardinality(A) <= MaxSpawn
  BY <1>2, FS_Subset
<1>4. IsFiniteSet(B) /\ Cardinality(B) <= Cardinality(A)
  BY <1>3, FS_Subset
<1> QED
  BY <1>3, <1>4, FS_CardinalityType

\* One worker more.
LEMMA OneMore ==
    ASSUME NEW A \in SUBSET Workers, NEW w, w \notin A
    PROVE  Cardinality(A \cup {w}) = Cardinality(A) + 1
  BY WorkerSets, FS_AddElement

\* One worker less.
LEMMA OneLess ==
    ASSUME NEW A \in SUBSET Workers, NEW w \in A
    PROVE  Cardinality(A \ {w}) = Cardinality(A) - 1 /\ Cardinality(A) > 0
<1>1. A \ {w} \in SUBSET Workers /\ w \notin A \ {w} /\ (A \ {w}) \cup {w} = A
  OBVIOUS
<1>2. Cardinality(A) = Cardinality(A \ {w}) + 1
  BY <1>1, OneMore
<1>3. Cardinality(A \ {w}) \in Nat
  BY <1>1, WorkerSets
<1> QED
  BY <1>2, <1>3

-----------------------------------------------------------------------------
(* The invariant and the steps.                                            *)

\* busy_count_ and cur_thread_count_ as PoolInv bounds them.
LEMMA BusyBound ==
    ASSUME PoolInv
    PROVE  /\ busyCount <= curThreadCount
           /\ cpc \notin {"join", "stopped"} => Active \subseteq pool \ exitedIds
           /\ cpc # "stopped" => Cardinality(Active) <= curThreadCount
           /\ Active \in SUBSET Workers /\ Running \in SUBSET Active /\ pool \in SUBSET Workers
           /\ curThreadCount \in Nat /\ busyCount \in Nat /\ MaxSpawn \in Nat
<1>1. /\ Active \in SUBSET Workers /\ Running \in SUBSET Active /\ pool \in SUBSET Workers
      /\ curThreadCount \in Nat /\ busyCount \in Nat /\ MaxSpawn \in Nat
  BY PoolAssumption DEF PoolInv, PoolTypeOK, Active, Running
<1>2. cpc # "join" => Active \subseteq pool \ exitedIds
  BY DEF PoolInv, Control, Kept
<1>3. cpc # "stopped" => Cardinality(Active) <= curThreadCount
  <2>1. CASE cpc \notin {"join", "stopped"}
    <3>1. pool \ exitedIds \in SUBSET Workers /\ Active \in SUBSET (pool \ exitedIds)
      BY <1>1, <1>2, <2>1
    <3>2. Cardinality(Active) <= Cardinality(pool \ exitedIds)
      BY <3>1, WorkerSets
    <3> QED
      BY <2>1, <3>2 DEF PoolInv, Counts
  <2>2. CASE cpc = "join"
    BY <2>2 DEF PoolInv, Counts
  <2> QED
    BY <2>1, <2>2
<1>4. busyCount <= curThreadCount
  <2>1. CASE cpc = "stopped"
    BY <1>1, <2>1 DEF PoolInv, Counts
  <2>2. CASE cpc # "stopped"
    <3>1. busyCount = Cardinality(Running)
      BY <2>2 DEF PoolInv, Counts
    <3>2. Cardinality(Running) <= Cardinality(Active) /\ Cardinality(Active) \in Nat
      BY <1>1, WorkerSets
    <3> QED
      BY <1>1, <1>3, <2>2, <3>1, <3>2
  <2> QED
    BY <2>1, <2>2
<1> QED
  BY <1>1, <1>2, <1>3, <1>4

\* The stages of stop() that the counters depend on.
SameStage == \A p \in {"new", "join", "stopped"} : cpc' = p <=> cpc = p

\* A step that neither starts nor ends a worker or a task, and leaves pool_ and
\* those to be joined alone.
LEMMA QuietStep ==
    ASSUME PoolInv, PoolTypeOK', Control', SameStage,
           UNCHANGED <<initThreads, poolVars, busyCount, sjoin, cjoin>>,
           \A w \in Workers :
               \/ wpc'[w] = wpc[w]
               \/ wpc[w] \notin {"off", "leave", "gone", "run"} /\ wpc'[w] \notin {"off", "leave", "gone", "run"},
           \A s \in Submitters : spc[s] = "join" => spc'[s] = "join",
           \A s \in Submitters : spc'[s] # "idle" => stask'[s] \in Tasks
    PROVE  PoolInv'
<1>1. /\ Active' = Active /\ Running' = Running
      /\ \A w \in Workers : wpc[w] = "off" <=> wpc'[w] = "off"
      /\ \A w \in Workers : wpc[w] = "leave" <=> wpc'[w] = "leave"
  BY DEF Active, Running
<1>2. Kept'
  BY <1>1 DEF PoolInv, Kept, poolVars
<1>3. Counts'
  BY <1>1 DEF PoolInv, Counts, poolVars, SameStage
<1> QED
  BY <1>2, <1>3 DEF PoolInv

\* What a worker does between taking the mutex and running the task, other than
\* leaving.
LEMMA WorkerStays ==
    ASSUME PoolInv, NEW w \in Workers,
           NEW p \in WorkerPlaces \ {"off", "leave", "gone", "run"},
           wpc[w] \notin {"off", "leave", "gone", "run"},
           wpc' = [wpc EXCEPT ![w] = p],
           wtask' \in [Workers -> Tasks \cup {NoTask}],
           queLock' \in Workers \cup Submitters \cup {Controller, NoThread},
           taskQue' \in Seq(Tasks), Len(taskQue') <= MaxTasks, taskQue = <<>> => taskQue' = <<>>,
           idleTimeouts' \in 0..MaxIdleTimeouts,
           UNCHANGED <<config, isRunning, busyCount, poolVars, submitVars, cpc, cjoin, fate>>
    PROVE  PoolInv'
<1>1. PoolTypeOK'
  BY DEF PoolInv, PoolTypeOK, config, poolVars, submitVars
<1>2. Control'
  BY DEF PoolInv, Control, poolVars
<1>3. \A v \in Workers : wpc'[v] = IF v = w THEN p ELSE wpc[v]
  BY DEF PoolInv, PoolTypeOK
<1>4. \A s \in Submitters : spc'[s] # "idle" => stask'[s] \in Tasks
  BY DEF PoolInv, submitVars
<1> QED
  BY <1>1, <1>2, <1>3, <1>4, QuietStep DEF SameStage, config, submitVars

\* A worker starts to leave, unmarked, with nothing queued.
LEMMA WorkerLeaves ==
    ASSUME PoolInv, NEW w \in Workers, wpc[w] = "top",
           wpc' = [wpc EXCEPT ![w] = "leave"],
           UNCHANGED <<config, isRunning, taskQue, busyCount, poolVars, queLock, wtask, submitVars,
                       controlVars, fate>>
    PROVE  PoolInv'
<1>1. PoolTypeOK'
  BY DEF PoolInv, PoolTypeOK, config, poolVars, submitVars, controlVars, WorkerPlaces
<1>2. Control'
  BY DEF PoolInv, Control, poolVars, controlVars
<1>3. \A v \in Workers : wpc'[v] = IF v = w THEN "leave" ELSE wpc[v]
  BY DEF PoolInv, PoolTypeOK
<1>4. /\ Active' \subseteq Active /\ Running' = Running /\ w \in Active
      /\ \A v \in Workers : wpc[v] = "off" => wpc'[v] = "off"
  BY <1>3 DEF Active, Running
<1>5. Kept'
  <2>1. Active' \subseteq (pool \ exitedIds) \cup cjoin /\ w \in pool \cup cjoin
    BY <1>4 DEF PoolInv, Kept
  <2> QED
    BY <1>3, <1>4, <2>1 DEF PoolInv, Kept, poolVars, submitVars, controlVars
<1>6. Counts'
  <2>1. Cardinality(Active') \in Nat /\ Cardinality(Active) \in Nat
        /\ Cardinality(Active') <= Cardinality(Active)
    BY <1>4, WorkerSets, BusyBound
  <2>2. cpc = "join" => Cardinality(Active') <= curThreadCount
    BY <2>1, BusyBound
  <2> QED
    BY <1>4, <2>2 DEF PoolInv, Counts, poolVars, controlVars, config
<1> QED
  BY <1>1, <1>2, <1>5, <1>6 DEF PoolInv, submitVars

LEMMA WorkerLookKeeps ==
    ASSUME PoolInv, NEW w \in Workers, WorkerLook(w)
    PROVE  PoolInv'
<1>1. /\ wpc[w] = "top" /\ taskQue \in Seq(Tasks) /\ Len(taskQue) <= MaxTasks
      /\ wtask \in [Workers -> Tasks \cup {NoTask}]
      /\ queLock \in Workers \cup Submitters \cup {Controller, NoThread}
      /\ idleTimeouts \in 0..MaxIdleTimeouts /\ MaxTasks \in Nat
      /\ UNCHANGED <<config, isRunning, busyCount, poolVars, submitVars, controlVars, fate>>
  BY PoolAssumption DEF WorkerLook, PoolInv, PoolTypeOK
<1>2. CASE /\ wpc' = [wpc EXCEPT ![w] = "block"] /\ queLock' = w
           /\ UNCHANGED <<taskQue, wtask>>
  <2>1. "block" \in WorkerPlaces \ {"off", "leave", "gone", "run"}
    BY DEF WorkerPlaces
  <2>2. queLock' \in Workers \cup Submitters \cup {Controller, NoThread}
    BY <1>2
  <2> QED
    BY <1>1, <1>2, <2>1, <2>2, WorkerStays DEF controlVars
<1>3. CASE wpc' = [wpc EXCEPT ![w] = "leave"] /\ UNCHANGED <<taskQue, wtask, queLock>>
  BY <1>1, <1>3, WorkerLeaves
<1>4. CASE /\ taskQue # <<>> /\ wtask' = [wtask EXCEPT ![w] = Head(taskQue)]
           /\ taskQue' = Tail(taskQue) /\ wpc' = [wpc EXCEPT ![w] = "took"]
           /\ UNCHANGED queLock
  <2>1. Head(taskQue) \in Tasks /\ taskQue' \in Seq(Tasks) /\ Len(taskQue') = Len(taskQue) - 1
        /\ Len(taskQue) \in Nat
    BY <1>1, <1>4, HeadTailProperties, LenProperties
  <2>2. Len(taskQue') <= MaxTasks
    BY <1>1, <2>1
  <2>3. wtask' \in [Workers -> Tasks \cup {NoTask}]
    BY <1>1, <1>4, <2>1
  <2>4. "took" \in WorkerPlaces \ {"off", "leave", "gone", "run"}
    BY DEF WorkerPlaces
  <2> QED
    BY <1>1, <1>4, <2>1, <2>2, <2>3, <2>4, WorkerStays DEF controlVars
<1> QED
  BY <1>2, <1>3, <1>4 DEF WorkerLook

LEMMA WorkerBlockKeeps ==
    ASSUME PoolInv, NEW w \in Workers, WorkerBlock(w)
    PROVE  PoolInv'
<1>1. "wait" \in WorkerPlaces \ {"off", "leave", "gone", "run"}
  BY DEF WorkerPlaces
<1>2. /\ wpc[w] = "block" /\ wpc' = [wpc EXCEPT ![w] = "wait"] /\ queLock' = NoThread
      /\ UNCHANGED <<config, isRunning, taskQue, busyCount, poolVars, wtask, submitVars,
                     controlVars, fate>>
  BY DEF WorkerBlock
<1>3. /\ taskQue' \in Seq(Tasks) /\ Len(taskQue') <= MaxTasks
      /\ wtask' \in [Workers -> Tasks \cup {NoTask}] /\ idleTimeouts' \in 0..MaxIdleTimeouts
  BY <1>2 DEF PoolInv, PoolTypeOK, controlVars
<1> QED
  BY <1>1, <1>2, <1>3, WorkerStays DEF controlVars

LEMMA WorkerTimeoutKeeps ==
    ASSUME PoolInv, NEW w \in Workers, WorkerTimeout(w)
    PROVE  PoolInv'
<1>1. /\ "mark" \in WorkerPlaces \ {"off", "leave", "gone", "run"}
      /\ "top" \in WorkerPlaces \ {"off", "leave", "gone", "run"}
  BY DEF WorkerPlaces
<1>2. /\ wpc[w] = "wait"
      /\ UNCHANGED <<config, isRunning, taskQue, busyCount, poolVars, queLock, wtask,
                     submitVars, cpc, cjoin, fate>>
  BY DEF WorkerTimeout
<1>3. /\ taskQue' \in Seq(Tasks) /\ Len(taskQue') <= MaxTasks
      /\ wtask' \in [Workers -> Tasks \cup {NoTask}]
      /\ queLock' \in Workers \cup Submitters \cup {Controller, NoThread}
  BY <1>2 DEF PoolInv, PoolTypeOK
<1>4. idleTimeouts' \in 0..MaxIdleTimeouts
  BY PoolAssumption DEF PoolInv, PoolTypeOK, WorkerTimeout
<1>5. wpc' = [wpc EXCEPT ![w] = "mark"] \/ wpc' = [wpc EXCEPT ![w] = "top"]
  BY DEF WorkerTimeout
<1> QED
  BY <1>1, <1>2, <1>3, <1>4, <1>5, WorkerStays

LEMMA MarkThreadExitedKeeps ==
    ASSUME PoolInv, NEW w \in Workers, MarkThreadExited(w)
    PROVE  PoolInv'
<1>1. /\ wpc[w] = "mark"
      /\ UNCHANGED <<config, isRunning, taskQue, busyCount, nextId, pool, queLock, wtask,
                     submitVars, controlVars, fate>>
  BY DEF MarkThreadExited
<1>2. CASE isRunning /\ IsClear
  <2>1. /\ exitedIds' = exitedIds \cup {w} /\ curThreadCount' = curThreadCount - 1
        /\ wpc' = [wpc EXCEPT ![w] = "leave"]
    BY <1>2 DEF MarkThreadExited
  <2>2. cpc = "running" /\ cjoin = {} /\ curThreadCount > initThreads
    BY <1>2 DEF PoolInv, Control, IsClear
  <2>3. \A v \in Workers : wpc'[v] = IF v = w THEN "leave" ELSE wpc[v]
    BY <2>1 DEF PoolInv, PoolTypeOK
  <2>4. w \in pool \ exitedIds /\ pool \in SUBSET Workers
    BY <1>1, <2>2 DEF PoolInv, Kept, Active, PoolTypeOK
  <2>5. /\ curThreadCount = Cardinality(pool \ exitedIds) /\ curThreadCount \in initThreads..MaxThreads
        /\ initThreads \in Nat /\ initThreads > 0 /\ MaxThreads \in Nat /\ MaxSpawn \in Nat
    BY <2>2, PoolAssumption DEF PoolInv, Counts, PoolTypeOK
  <2>6. pool' \ exitedIds' = (pool \ exitedIds) \ {w}
    BY <1>1, <2>1
  <2>7. curThreadCount' = Cardinality(pool' \ exitedIds')
    <3>1. pool \ exitedIds \in SUBSET Workers
      BY <2>4
    <3>2. Cardinality((pool \ exitedIds) \ {w}) = Cardinality(pool \ exitedIds) - 1
      BY <2>4, <3>1, OneLess
    <3> QED
      BY <2>1, <2>5, <2>6, <3>2
  <2>8. curThreadCount' \in initThreads..MaxThreads /\ curThreadCount' \in 0..MaxSpawn
    <3>1. curThreadCount \in 0..MaxSpawn
      BY DEF PoolInv, PoolTypeOK
    <3> QED
      BY <2>1, <2>2, <2>5, <3>1
  <2>9. PoolTypeOK'
    BY <1>1, <2>1, <2>8 DEF PoolInv, PoolTypeOK, config, submitVars, controlVars, WorkerPlaces
  <2>10. Control'
    BY <1>1 DEF PoolInv, Control, controlVars
  <2>11. /\ Active' = Active \ {w} /\ Running' = Running
         /\ \A v \in Workers : wpc[v] = "off" => wpc'[v] = "off"
    BY <1>1, <2>3 DEF Active, Running
  <2>12. Kept'
    BY ZenonT(30), <1>1, <2>1, <2>3, <2>4, <2>11 DEF PoolInv, Kept, submitVars, controlVars
  <2>13. Counts'
    BY <1>1, <2>2, <2>7, <2>8, <2>11 DEF PoolInv, Counts, controlVars, config
  <2> QED
    BY <1>1, <2>9, <2>10, <2>12, <2>13 DEF PoolInv, submitVars
<1>3. CASE ~(isRunning /\ IsClear)
  <2>1. wpc' = [wpc EXCEPT ![w] = "top"] /\ UNCHANGED <<exitedIds, curThreadCount>>
    BY <1>3 DEF MarkThreadExited
  <2>2. /\ taskQue' \in Seq(Tasks) /\ Len(taskQue') <= MaxTasks
        /\ wtask' \in [Workers -> Tasks \cup {NoTask}]
        /\ queLock' \in Workers \cup Submitters \cup {Controller, NoThread}
        /\ idleTimeouts' \in 0..MaxIdleTimeouts
    BY <1>1 DEF PoolInv, PoolTypeOK, controlVars
  <2>3. "top" \in WorkerPlaces \ {"off", "leave", "gone", "run"}
    BY DEF WorkerPlaces
  <2> QED
    BY <1>1, <2>1, <2>2, <2>3, WorkerStays DEF controlVars, poolVars
<1> QED
  BY <1>2, <1>3

LEMMA WorkerNotifyKeeps ==
    ASSUME PoolInv, NEW w \in Workers, WorkerNotify(w)
    PROVE  PoolInv'
<1>1. /\ wpc[w] = "took" /\ wpc' = [wpc EXCEPT ![w] = "ready"] /\ NotifyOneSubmitter
      /\ UNCHANGED <<config, isRunning, taskQue, busyCount, poolVars, queLock, wtask, stask,
                     sjoin, controlVars, fate>>
  BY DEF WorkerNotify
<1>2. /\ spc' \in [Submitters -> SubmitPlaces]
      /\ \A s \in Submitters : spc'[s] = spc[s] \/ (spc[s] = "wait" /\ spc'[s] = "lock")
  BY <1>1 DEF NotifyOneSubmitter, PoolInv, PoolTypeOK, SubmitPlaces
<1>3. \A v \in Workers : wpc'[v] = IF v = w THEN "ready" ELSE wpc[v]
  BY <1>1 DEF PoolInv, PoolTypeOK
<1>4. PoolTypeOK'
  BY <1>1, <1>2 DEF PoolInv, PoolTypeOK, config, poolVars, controlVars, WorkerPlaces
<1>5. Control'
  BY <1>1 DEF PoolInv, Control, poolVars, controlVars
<1>6. \A s \in Submitters : spc'[s] # "idle" => stask'[s] \in Tasks
  BY <1>1, <1>2 DEF PoolInv
<1> QED
  BY <1>1, <1>2, <1>3, <1>4, <1>5, <1>6, QuietStep DEF SameStage, config, controlVars

LEMMA WorkerRunKeeps ==
    ASSUME PoolInv, NEW w \in Workers, WorkerRun(w)
    PROVE  PoolInv'
<1>1. /\ wpc[w] = "ready" /\ wpc' = [wpc EXCEPT ![w] = "run"] /\ busyCount' = busyCount + 1
      /\ UNCHANGED <<config, isRunning, taskQue, poolVars, queLock, wtask, submitVars,
                     controlVars, fate>>
  BY DEF WorkerRun
<1>2. \A v \in Workers : wpc'[v] = IF v = w THEN "run" ELSE wpc[v]
  BY <1>1 DEF PoolInv, PoolTypeOK
<1>3. /\ Active' = Active /\ Running' = Running \cup {w} /\ w \notin Running /\ w \in Active
      /\ \A v \in Workers : wpc[v] = "off" => wpc'[v] = "off"
      /\ \A v \in Workers : wpc'[v] = "leave" <=> wpc[v] = "leave"
  BY <1>1, <1>2 DEF Active, Running
<1>4. cpc # "stopped"
  BY <1>3 DEF PoolInv, Kept, Control
<1>5. busyCount' = Cardinality(Running')
  <2>1. Running \in SUBSET Workers
    BY DEF Running
  <2>2. Cardinality(Running \cup {w}) = Cardinality(Running) + 1
    BY <1>3, <2>1, OneMore
  <2> QED
    BY <1>1, <1>3, <1>4, <2>2 DEF PoolInv, Counts
<1>6. busyCount' \in 0..MaxSpawn
  <2>1. Running' \in SUBSET Workers
    BY DEF Running
  <2>2. Cardinality(Running') \in Nat /\ Cardinality(Running') <= MaxSpawn
    BY <2>1, WorkerSets
  <2> QED
    BY <1>5, <2>2, PoolAssumption
<1>7. PoolTypeOK'
  BY <1>1, <1>6 DEF PoolInv, PoolTypeOK, config, poolVars, submitVars, controlVars, WorkerPlaces
<1>8. Control'
  BY <1>1 DEF PoolInv, Control, poolVars, controlVars
<1>9. Kept'
  BY <1>1, <1>2, <1>3 DEF PoolInv, Kept, poolVars, submitVars, controlVars
<1>10. Counts'
  BY <1>1, <1>3, <1>4, <1>5 DEF PoolInv, Counts, poolVars, controlVars, config
<1> QED
  BY <1>1, <1>7, <1>8, <1>9, <1>10 DEF PoolInv, submitVars

LEMMA WorkerDoneKeeps ==
    ASSUME PoolInv, NEW w \in Workers, WorkerDone(w)
    PROVE  PoolInv'
<1>1. /\ wpc[w] = "run" /\ wpc' = [wpc EXCEPT ![w] = "top"] /\ busyCount' = busyCount - 1
      /\ fate' = [fate EXCEPT ![wtask[w]] = "done"] /\ wtask' = [wtask EXCEPT ![w] = NoTask]
      /\ UNCHANGED <<config, isRunning, taskQue, poolVars, queLock, submitVars, controlVars>>
  BY DEF WorkerDone
<1>2. \A v \in Workers : wpc'[v] = IF v = w THEN "top" ELSE wpc[v]
  BY <1>1 DEF PoolInv, PoolTypeOK
<1>3. /\ Active' = Active /\ Running' = Running \ {w} /\ w \in Running /\ w \in Active
      /\ \A v \in Workers : wpc[v] = "off" => wpc'[v] = "off"
      /\ \A v \in Workers : wpc'[v] = "leave" <=> wpc[v] = "leave"
  BY <1>1, <1>2 DEF Active, Running
<1>4. cpc # "stopped"
  BY <1>3 DEF PoolInv, Kept, Control
<1>5. busyCount' = Cardinality(Running')
  <2>1. Running \in SUBSET Workers
    BY DEF Running
  <2>2. Cardinality(Running \ {w}) = Cardinality(Running) - 1
    BY <1>3, <2>1, OneLess
  <2> QED
    BY <1>1, <1>3, <1>4, <2>2 DEF PoolInv, Counts
<1>6. busyCount' \in 0..MaxSpawn
  <2>1. Running' \in SUBSET Workers
    BY DEF Running
  <2>2. Cardinality(Running') \in Nat /\ Cardinality(Running') <= MaxSpawn
    BY <2>1, WorkerSets
  <2> QED
    BY <1>5, <2>2, PoolAssumption
<1>7. PoolTypeOK'
  BY <1>1, <1>6 DEF PoolInv, PoolTypeOK, config, poolVars, submitVars, controlVars, WorkerPlaces
<1>8. Control'
  BY <1>1 DEF PoolInv, Control, poolVars, controlVars
<1>9. Kept'
  BY <1>1, <1>2, <1>3 DEF PoolInv, Kept, poolVars, submitVars, controlVars
<1>10. Counts'
  BY <1>1, <1>3, <1>4, <1>5 DEF PoolInv, Counts, poolVars, controlVars, config
<1> QED
  BY <1>1, <1>7, <1>8, <1>9, <1>10 DEF PoolInv, submitVars

LEMMA WorkerLeaveKeeps ==
    ASSUME PoolInv, NEW w \in Workers, WorkerLeave(w)
    PROVE  PoolInv'
<1>1. /\ wpc[w] = "leave" /\ wpc' = [wpc EXCEPT ![w] = "gone"]
      /\ cpc' = IF cpc = "wait" THEN "eval" ELSE cpc
      /\ UNCHANGED <<config, isRunning, taskQue, busyCount, poolVars, queLock, wtask,
                     submitVars, cjoin, idleTimeouts, fate>>
  BY DEF WorkerLeave
<1>2. \A v \in Workers : wpc'[v] = IF v = w THEN "gone" ELSE wpc[v]
  BY <1>1 DEF PoolInv, PoolTypeOK
<1>3. /\ Active' = Active /\ Running' = Running
      /\ \A v \in Workers : wpc[v] = "off" => wpc'[v] = "off"
      /\ \A v \in Workers : wpc'[v] = "leave" => wpc[v] = "leave"
  BY <1>1, <1>2 DEF Active, Running
<1>4. PoolTypeOK'
  BY <1>1 DEF PoolInv, PoolTypeOK, config, poolVars, submitVars, WorkerPlaces, ControlPlaces
<1>5. Control'
  BY <1>1 DEF PoolInv, Control, poolVars
<1>6. Kept'
  BY <1>1, <1>3 DEF PoolInv, Kept, poolVars, submitVars
<1>7. Counts'
  BY <1>1, <1>3 DEF PoolInv, Counts, poolVars, config
<1> QED
  BY <1>1, <1>4, <1>5, <1>6, <1>7 DEF PoolInv, submitVars

\* The steps of a submitter that leave pool_ and the workers alone.
LEMMA SubmitterMoves ==
    ASSUME PoolInv, NEW s \in Submitters, NEW p \in SubmitPlaces, NEW t \in Tasks \cup {NoTask},
           spc[s] # "join", p # "idle" => t \in Tasks,
           spc' = [spc EXCEPT ![s] = p], stask' = [stask EXCEPT ![s] = t],
           taskQue' \in Seq(Tasks), Len(taskQue') <= MaxTasks, isRunning \/ taskQue' = taskQue,
           fate' \in [Tasks -> {"new", "accepted", "done", "refused"}],
           queLock' \in Workers \cup Submitters \cup {Controller, NoThread},
           UNCHANGED <<config, isRunning, busyCount, poolVars, workerVars, sjoin, controlVars>>
    PROVE  PoolInv'
<1>1. PoolTypeOK'
  BY DEF PoolInv, PoolTypeOK, config, poolVars, workerVars, controlVars
<1>2. Control'
  BY DEF PoolInv, Control, poolVars, controlVars
<1>3. \A r \in Submitters : /\ spc'[r] = IF r = s THEN p ELSE spc[r]
                            /\ stask'[r] = IF r = s THEN t ELSE stask[r]
  BY DEF PoolInv, PoolTypeOK
<1>4. \A r \in Submitters : spc'[r] # "idle" => stask'[r] \in Tasks
  BY <1>3 DEF PoolInv
<1>5. \A r \in Submitters : spc[r] = "join" => spc'[r] = "join"
  BY <1>3
<1> QED
  BY <1>1, <1>2, <1>4, <1>5, QuietStep DEF SameStage, config, workerVars, controlVars

\* The types a submitter's steps rely on.
LEMMA SubmitterTypes ==
    ASSUME PoolInv, NEW s \in Submitters
    PROVE  /\ taskQue \in Seq(Tasks) /\ Len(taskQue) <= MaxTasks /\ Len(taskQue) \in Nat
           /\ MaxTasks \in Nat
           /\ fate \in [Tasks -> {"new", "accepted", "done", "refused"}]
           /\ queLock \in Workers \cup Submitters \cup {Controller, NoThread}
           /\ spc \in [Submitters -> SubmitPlaces]
           /\ stask \in [Submitters -> Tasks \cup {NoTask}]
           /\ stask[s] \in Tasks \cup {NoTask}
           /\ spc[s] # "idle" => stask[s] \in Tasks
           /\ stask = [stask EXCEPT ![s] = stask[s]]
           /\ {"idle", "lock", "block", "wait", "notify", "add", "join"} = SubmitPlaces
<1>1. taskQue \in Seq(Tasks) /\ Len(taskQue) <= MaxTasks /\ MaxTasks \in Nat
  BY PoolAssumption DEF PoolInv, PoolTypeOK
<1>2. Len(taskQue) \in Nat
  BY <1>1, LenProperties
<1> QED
  BY <1>1, <1>2 DEF PoolInv, PoolTypeOK, SubmitPlaces

LEMMA SubmitKeeps ==
    ASSUME PoolInv, NEW s \in Submitters, NEW t \in Tasks, Submit(s, t)
    PROVE  PoolInv'
<1>1. /\ spc[s] = "idle"
      /\ UNCHANGED <<config, isRunning, taskQue, busyCount, poolVars, queLock, workerVars,
                     sjoin, controlVars>>
  BY DEF Submit
<1>2. CASE isRunning
  <2>1. /\ spc' = [spc EXCEPT ![s] = "lock"] /\ stask' = [stask EXCEPT ![s] = t] /\ fate' = fate
    BY <1>2 DEF Submit
  <2>2. /\ "lock" \in SubmitPlaces /\ t \in Tasks \cup {NoTask} /\ spc[s] # "join"
        /\ taskQue' \in Seq(Tasks) /\ Len(taskQue') <= MaxTasks /\ taskQue' = taskQue
        /\ fate' \in [Tasks -> {"new", "accepted", "done", "refused"}]
        /\ queLock' \in Workers \cup Submitters \cup {Controller, NoThread}
    BY <1>1, <2>1, SubmitterTypes
  <2> QED
    BY <1>1, <2>1, <2>2, SubmitterMoves
<1>3. CASE ~isRunning
  <2>1. fate' = [fate EXCEPT ![t] = "refused"] /\ spc' = spc /\ stask' = stask
    BY <1>3 DEF Submit
  <2>2. /\ "idle" \in SubmitPlaces /\ stask[s] \in Tasks \cup {NoTask} /\ spc[s] # "join"
        /\ spc' = [spc EXCEPT ![s] = "idle"] /\ stask' = [stask EXCEPT ![s] = stask[s]]
        /\ taskQue' \in Seq(Tasks) /\ Len(taskQue') <= MaxTasks /\ taskQue' = taskQue
        /\ fate' \in [Tasks -> {"new", "accepted", "done", "refused"}]
        /\ queLock' \in Workers \cup Submitters \cup {Controller, NoThread}
    BY <1>1, <2>1, SubmitterTypes
  <2> QED
    BY <1>1, <2>2, SubmitterMoves
<1> QED
  BY <1>2, <1>3

\* Admission to the queue: never past the limit.
LEMMA AdmitKeeps ==
    ASSUME PoolInv, NEW s \in Submitters, spc[s] \in {"lock", "wait"},
           HasRoom \/ ~isRunning, Admit(s),
           UNCHANGED <<config, isRunning, busyCount, poolVars, queLock, workerVars, sjoin,
                       controlVars>>
    PROVE  PoolInv'
<1>1. /\ taskQue \in Seq(Tasks) /\ Len(taskQue) <= MaxTasks /\ Len(taskQue) \in Nat
      /\ MaxTasks \in Nat /\ stask[s] \in Tasks /\ stask = [stask EXCEPT ![s] = stask[s]]
      /\ fate \in [Tasks -> {"new", "accepted", "done", "refused"}]
      /\ "idle" \in SubmitPlaces /\ "notify" \in SubmitPlaces
      /\ queLock' \in Workers \cup Submitters \cup {Controller, NoThread}
  BY SubmitterTypes
<1>2. CASE ~isRunning /\ Refuse(s) /\ Return(s) /\ UNCHANGED taskQue
  <2>1. /\ spc' = [spc EXCEPT ![s] = "idle"] /\ stask' = [stask EXCEPT ![s] = NoTask]
        /\ NoTask \in Tasks \cup {NoTask} /\ taskQue' = taskQue
        /\ fate' \in [Tasks -> {"new", "accepted", "done", "refused"}]
    BY <1>1, <1>2 DEF Return, Refuse
  <2> QED
    BY <1>1, <2>1, SubmitterMoves
<1>3. CASE /\ isRunning /\ taskQue' = Append(taskQue, stask[s])
           /\ fate' = [fate EXCEPT ![stask[s]] = "accepted"]
           /\ spc' = [spc EXCEPT ![s] = "notify"] /\ UNCHANGED stask
  <2>1. taskQue' \in Seq(Tasks) /\ Len(taskQue') = Len(taskQue) + 1
    BY <1>1, <1>3, AppendProperties
  <2>2. Len(taskQue') <= MaxTasks
    BY <1>1, <1>3, <2>1 DEF HasRoom
  <2>3. fate' \in [Tasks -> {"new", "accepted", "done", "refused"}]
    BY <1>1, <1>3
  <2>4. stask' = [stask EXCEPT ![s] = stask[s]] /\ stask[s] \in Tasks \cup {NoTask}
    BY <1>1, <1>3
  <2> QED
    BY <1>1, <1>3, <2>1, <2>2, <2>3, <2>4, SubmitterMoves
<1> QED
  BY <1>2, <1>3 DEF Admit

LEMMA SubmitLookKeeps ==
    ASSUME PoolInv, NEW s \in Submitters, SubmitLook(s)
    PROVE  PoolInv'
<1>1. /\ spc[s] = "lock"
      /\ UNCHANGED <<config, isRunning, busyCount, poolVars, workerVars, sjoin, controlVars>>
  BY DEF SubmitLook
<1>2. CASE HasRoom \/ ~isRunning
  BY <1>1, <1>2, AdmitKeeps DEF SubmitLook
<1>3. CASE ~(HasRoom \/ ~isRunning)
  <2>1. spc' = [spc EXCEPT ![s] = "block"] /\ queLock' = s /\ UNCHANGED <<taskQue, stask, fate>>
    BY <1>3 DEF SubmitLook
  <2>2. /\ "block" \in SubmitPlaces /\ stask[s] \in Tasks /\ stask[s] \in Tasks \cup {NoTask}
        /\ stask' = [stask EXCEPT ![s] = stask[s]]
        /\ taskQue' \in Seq(Tasks) /\ Len(taskQue') <= MaxTasks /\ taskQue' = taskQue
        /\ fate' \in [Tasks -> {"new", "accepted", "done", "refused"}]
        /\ queLock' \in Workers \cup Submitters \cup {Controller, NoThread}
    BY <1>1, <2>1, SubmitterTypes
  <2> QED
    BY <1>1, <2>1, <2>2, SubmitterMoves
<1> QED
  BY <1>2, <1>3

LEMMA SubmitBlockKeeps ==
    ASSUME PoolInv, NEW s \in Submitters, SubmitBlock(s)
    PROVE  PoolInv'
<1>1. /\ spc[s] = "block" /\ spc' = [spc EXCEPT ![s] = "wait"] /\ queLock' = NoThread
      /\ UNCHANGED <<config, isRunning, taskQue, busyCount, poolVars, workerVars, stask,
                     sjoin, controlVars, fate>>
  BY DEF SubmitBlock
<1>2. /\ "wait" \in SubmitPlaces /\ stask[s] \in Tasks /\ stask[s] \in Tasks \cup {NoTask}
      /\ stask' = [stask EXCEPT ![s] = stask[s]]
      /\ taskQue' \in Seq(Tasks) /\ Len(taskQue') <= MaxTasks /\ taskQue' = taskQue
      /\ fate' \in [Tasks -> {"new", "accepted", "done", "refused"}]
      /\ queLock' \in Workers \cup Submitters \cup {Controller, NoThread}
  BY <1>1, SubmitterTypes
<1> QED
  BY <1>1, <1>2, SubmitterMoves

LEMMA SubmitTimeoutKeeps ==
    ASSUME PoolInv, NEW s \in Submitters, SubmitTimeout(s)
    PROVE  PoolInv'
<1>1. /\ spc[s] = "wait"
      /\ UNCHANGED <<config, isRunning, busyCount, poolVars, queLock, workerVars, sjoin,
                     controlVars>>
  BY DEF SubmitTimeout
<1>2. CASE HasRoom \/ ~isRunning
  BY <1>1, <1>2, AdmitKeeps DEF SubmitTimeout
<1>3. CASE ~(HasRoom \/ ~isRunning)
  <2>1. Refuse(s) /\ taskQue' = taskQue
    BY <1>3 DEF SubmitTimeout
  <2>2. /\ "idle" \in SubmitPlaces /\ "add" \in SubmitPlaces
        /\ stask[s] \in Tasks /\ stask[s] \in Tasks \cup {NoTask} /\ NoTask \in Tasks \cup {NoTask}
        /\ stask = [stask EXCEPT ![s] = stask[s]]
        /\ taskQue' \in Seq(Tasks) /\ Len(taskQue') <= MaxTasks
        /\ fate' \in [Tasks -> {"new", "accepted", "done", "refused"}]
        /\ queLock' \in Workers \cup Submitters \cup {Controller, NoThread}
    BY <1>1, <2>1, SubmitterTypes DEF Refuse
  <2>3. \/ spc' = [spc EXCEPT ![s] = "add"] /\ stask' = [stask EXCEPT ![s] = stask[s]]
        \/ spc' = [spc EXCEPT ![s] = "idle"] /\ stask' = [stask EXCEPT ![s] = NoTask]
    BY <1>3, <2>2 DEF SubmitTimeout, Return
  <2> QED
    BY <1>1, <2>1, <2>2, <2>3, SubmitterMoves
<1> QED
  BY <1>2, <1>3

LEMMA SubmitNotifyKeeps ==
    ASSUME PoolInv, NEW s \in Submitters, SubmitNotify(s)
    PROVE  PoolInv'
<1>1. /\ spc[s] = "notify" /\ spc' = [spc EXCEPT ![s] = "add"] /\ NotifyOneWorker
      /\ UNCHANGED <<config, isRunning, taskQue, busyCount, poolVars, queLock, wtask, stask,
                     sjoin, controlVars, fate>>
  BY DEF SubmitNotify
<1>2. /\ wpc' \in [Workers -> WorkerPlaces]
      /\ \A w \in Workers : wpc'[w] = wpc[w] \/ (wpc[w] = "wait" /\ wpc'[w] = "top")
  BY <1>1 DEF NotifyOneWorker, PoolInv, PoolTypeOK, WorkerPlaces
<1>3. \A r \in Submitters : spc'[r] = IF r = s THEN "add" ELSE spc[r]
  BY <1>1 DEF PoolInv, PoolTypeOK
<1>4. PoolTypeOK'
  BY <1>1, <1>2 DEF PoolInv, PoolTypeOK, config, poolVars, controlVars, SubmitPlaces
<1>5. Control'
  BY <1>1 DEF PoolInv, Control, poolVars, controlVars
<1>6. \A r \in Submitters : spc'[r] # "idle" => stask'[r] \in Tasks
  BY <1>1, <1>3 DEF PoolInv
<1>7. \A r \in Submitters : spc[r] = "join" => spc'[r] = "join"
  BY <1>1, <1>3
<1> QED
  BY <1>1, <1>2, <1>4, <1>5, <1>6, <1>7, QuietStep DEF SameStage, config, controlVars

LEMMA AddThreadKeeps ==
    ASSUME PoolInv, NEW s \in Submitters, AddThread(s)
    PROVE  PoolInv'
<1>1. /\ spc[s] = "add"
      /\ UNCHANGED <<config, isRunning, taskQue, busyCount, queLock, wtask, controlVars, fate>>
  BY DEF AddThread
<1>2. CASE /\ isRunning /\ IsCache
           /\ nextId < MaxSpawn
           /\ nextId' = nextId + 1
           /\ wpc' = [wpc EXCEPT ![nextId] = "top"]
           /\ pool' = (pool \ exitedIds) \cup {nextId}
           /\ curThreadCount' = curThreadCount + 1
           /\ exitedIds' = {}
           /\ sjoin' = [sjoin EXCEPT ![s] = exitedIds]
           /\ spc' = [spc EXCEPT ![s] = "join"]
           /\ UNCHANGED stask
  <2>1. cpc = "running" /\ cpc' = "running" /\ cjoin = {} /\ curThreadCount < MaxThreads
    BY <1>1, <1>2 DEF PoolInv, Control, IsCache, controlVars
  <2>2. /\ nextId \in Nat /\ MaxSpawn \in Nat /\ MaxThreads \in Nat /\ MaxThreads <= MaxSpawn
        /\ curThreadCount \in Nat /\ initThreads \in Nat
        /\ curThreadCount = Cardinality(pool \ exitedIds) /\ initThreads <= curThreadCount
    BY <2>1, PoolAssumption DEF PoolInv, PoolTypeOK, Counts
  <2>3. nextId \in Workers /\ nextId \notin pool /\ pool \in SUBSET Workers
    BY <1>2, <2>2 DEF PoolInv, PoolTypeOK, Kept, Workers
  <2>4. /\ \A v \in Workers : wpc'[v] = IF v = nextId THEN "top" ELSE wpc[v]
        /\ wpc[nextId] = "off"
    BY <1>2, <2>2, <2>3 DEF PoolInv, PoolTypeOK, Kept
  <2>5. /\ \A r \in Submitters : /\ spc'[r] = IF r = s THEN "join" ELSE spc[r]
                                 /\ sjoin'[r] = IF r = s THEN exitedIds ELSE sjoin[r]
        /\ sjoin[s] = {}
    BY <1>1, <1>2 DEF PoolInv, PoolTypeOK, Kept
  <2>6. curThreadCount' = Cardinality(pool' \ exitedIds')
    <3>1. pool \ exitedIds \in SUBSET Workers /\ nextId \notin pool \ exitedIds
      BY <2>3
    <3>2. Cardinality((pool \ exitedIds) \cup {nextId}) = Cardinality(pool \ exitedIds) + 1
      BY <3>1, OneMore
    <3>3. pool' \ exitedIds' = (pool \ exitedIds) \cup {nextId}
      BY <1>2
    <3> QED
      BY <1>2, <2>2, <3>2, <3>3
  <2>7. /\ curThreadCount' \in initThreads..MaxThreads /\ curThreadCount' \in 0..MaxSpawn
        /\ nextId' \in 0..MaxSpawn
    BY <1>2, <2>1, <2>2
  <2>8. PoolTypeOK'
    <3>1. pool' \subseteq Workers /\ exitedIds' \subseteq Workers
      BY <1>2, <2>3
    <3>2. wpc' \in [Workers -> WorkerPlaces] /\ spc' \in [Submitters -> SubmitPlaces]
          /\ sjoin' \in [Submitters -> SUBSET Workers]
      BY <1>2 DEF PoolInv, PoolTypeOK, WorkerPlaces, SubmitPlaces
    <3> QED
      BY <1>1, <1>2, <2>7, <3>1, <3>2 DEF PoolInv, PoolTypeOK, config, controlVars
  <2>9. Control'
    BY <1>1, <2>1 DEF PoolInv, Control, controlVars
  <2>10. Active' = Active \cup {nextId} /\ Running' = Running
    BY <2>3, <2>4 DEF Active, Running
  <2>11. Kept'
    <3>1. exitedIds' \subseteq pool'
      BY <1>2
    <3>2. pool' \subseteq 0..(nextId' - 1)
      BY <1>2, <2>2 DEF PoolInv, Kept
    <3>3. \A w \in Workers : w >= nextId' => wpc'[w] = "off"
      BY <1>2, <2>2, <2>4 DEF PoolInv, Kept, Workers
    <3>4. Active' \subseteq (pool' \ exitedIds') \cup cjoin'
      BY <1>2, <2>1, <2>10 DEF PoolInv, Kept
    <3>5. \A w \in Workers : wpc'[w] = "leave" =>
            w \in pool' \cup cjoin' \/ \E r \in Submitters : w \in sjoin'[r]
      BY <1>2, <2>1, <2>4, <2>5 DEF PoolInv, Kept
    <3>6. \A r \in Submitters : sjoin'[r] # {} => spc'[r] = "join"
      BY <2>5 DEF PoolInv, Kept
    <3> QED
      BY <3>1, <3>2, <3>3, <3>4, <3>5, <3>6 DEF Kept
  <2>12. Counts'
    BY <1>1, <2>1, <2>6, <2>7, <2>10 DEF PoolInv, Counts, config
  <2>13. \A r \in Submitters : spc'[r] # "idle" => stask'[r] \in Tasks
    BY <1>1, <1>2, <2>5 DEF PoolInv
  <2> QED
    BY <2>8, <2>9, <2>11, <2>12, <2>13 DEF PoolInv
<1>3. CASE Return(s) /\ UNCHANGED <<poolVars, wpc, sjoin>>
  <2>1. /\ spc' = [spc EXCEPT ![s] = "idle"] /\ stask' = [stask EXCEPT ![s] = NoTask]
        /\ "idle" \in SubmitPlaces /\ NoTask \in Tasks \cup {NoTask}
        /\ taskQue' \in Seq(Tasks) /\ Len(taskQue') <= MaxTasks /\ taskQue' = taskQue
        /\ fate' \in [Tasks -> {"new", "accepted", "done", "refused"}]
        /\ queLock' \in Workers \cup Submitters \cup {Controller, NoThread}
    BY <1>1, <1>3, SubmitterTypes DEF Return
  <2> QED
    BY <1>1, <1>3, <2>1, SubmitterMoves DEF workerVars
<1> QED
  BY <1>2, <1>3 DEF AddThread

LEMMA SubmitJoinKeeps ==
    ASSUME PoolInv, NEW s \in Submitters, SubmitJoin(s)
    PROVE  PoolInv'
<1>1. /\ spc[s] = "join" /\ \A w \in sjoin[s] : wpc[w] = "gone"
      /\ sjoin' = [sjoin EXCEPT ![s] = {}]
      /\ spc' = [spc EXCEPT ![s] = "idle"] /\ stask' = [stask EXCEPT ![s] = NoTask]
      /\ UNCHANGED <<config, isRunning, taskQue, busyCount, poolVars, queLock, workerVars,
                     controlVars, fate>>
  BY DEF SubmitJoin, Return
<1>2. \A r \in Submitters : /\ spc'[r] = IF r = s THEN "idle" ELSE spc[r]
                            /\ stask'[r] = IF r = s THEN NoTask ELSE stask[r]
                            /\ sjoin'[r] = IF r = s THEN {} ELSE sjoin[r]
  BY <1>1 DEF PoolInv, PoolTypeOK
<1>3. PoolTypeOK'
  BY <1>1 DEF PoolInv, PoolTypeOK, config, poolVars, workerVars, controlVars, SubmitPlaces
<1>4. Control'
  BY <1>1 DEF PoolInv, Control, poolVars, controlVars
<1>5. Active' = Active /\ Running' = Running
  BY <1>1 DEF Active, Running, workerVars
<1>6. Kept'
  BY <1>1, <1>2, <1>5 DEF PoolInv, Kept, poolVars, workerVars, controlVars
<1>7. Counts'
  BY <1>1, <1>5 DEF PoolInv, Counts, poolVars, controlVars, config
<1>8. \A r \in Submitters : spc'[r] # "idle" => stask'[r] \in Tasks
  BY <1>2 DEF PoolInv
<1> QED
  BY <1>3, <1>4, <1>6, <1>7, <1>8 DEF PoolInv

LEMMA SetModeKeeps ==
    ASSUME PoolInv, SetMode
    PROVE  PoolInv'
<1>1. /\ cacheMode' = ~cacheMode
      /\ UNCHANGED <<initThreads, isRunning, taskQue, busyCount, poolVars, queLock, workerVars,
                     submitVars, controlVars, fate>>
  BY DEF SetMode
<1>2. cacheMode' \in BOOLEAN
  BY <1>1
<1>3. PoolTypeOK'
  BY <1>1, <1>2 DEF PoolInv, PoolTypeOK, poolVars, workerVars, submitVars, controlVars
<1>4. Control'
  BY <1>1 DEF PoolInv, Control, poolVars, controlVars
<1> QED
  BY <1>1, <1>3, <1>4, QuietStep
     DEF SameStage, PoolInv, workerVars, submitVars, controlVars

LEMMA StartKeeps ==
    ASSUME PoolInv, Start
    PROVE  PoolInv'
<1>1. /\ cpc = "new" /\ isRunning' = TRUE /\ nextId' = initThreads
      /\ pool' = 0..(initThreads - 1)
      /\ wpc' = [w \in Workers |-> IF w < initThreads THEN "top" ELSE "off"]
      /\ curThreadCount' = initThreads /\ cpc' = "running"
      /\ UNCHANGED <<config, taskQue, busyCount, exitedIds, queLock, wtask, submitVars,
                     cjoin, idleTimeouts, fate>>
  BY DEF Start
<1>2. /\ initThreads \in Nat /\ initThreads > 0 /\ initThreads <= MaxThreads
      /\ MaxThreads \in Nat /\ MaxSpawn \in Nat /\ MaxThreads <= MaxSpawn
  BY PoolAssumption DEF PoolInv, PoolTypeOK
<1>3. pool = {} /\ exitedIds = {} /\ cjoin = {} /\ Active = {}
  BY <1>1 DEF PoolInv, Control, Kept
<1>4. /\ \A w \in Workers : wpc'[w] = IF w < initThreads THEN "top" ELSE "off"
      /\ wpc' \in [Workers -> WorkerPlaces]
  BY <1>1 DEF WorkerPlaces
<1>5. Running = {} /\ Running' = {} /\ Active' \subseteq pool'
  <2>1. Running = {}
    BY <1>3 DEF Active, Running
  <2>2. Running' = {}
    BY <1>4 DEF Running
  <2>3. Active' \subseteq pool'
    BY <1>1, <1>2, <1>4 DEF Active, Workers
  <2> QED
    BY <2>1, <2>2, <2>3
<1>6. Cardinality(pool' \ exitedIds') = initThreads
  <2>1. Cardinality(0..(initThreads - 1)) = initThreads
    BY <1>2, FS_Interval
  <2>2. pool' \ exitedIds' = 0..(initThreads - 1)
    BY <1>1, <1>3
  <2> QED
    BY <2>1, <2>2
<1>7. PoolTypeOK'
  <2>1. pool' \subseteq Workers /\ curThreadCount' \in 0..MaxSpawn /\ nextId' \in 0..MaxSpawn
    BY <1>1, <1>2 DEF Workers
  <2> QED
    BY <1>1, <1>4, <2>1 DEF PoolInv, PoolTypeOK, config, submitVars, ControlPlaces
<1>8. Control'
  BY <1>1, <1>3 DEF Control
<1>9. Kept'
  <2>1. \A w \in Workers : w >= nextId' => wpc'[w] = "off"
    BY <1>1, <1>2, <1>4 DEF Workers
  <2> QED
    BY <1>1, <1>3, <1>4, <1>5, <2>1 DEF PoolInv, Kept, submitVars
<1>10. Counts'
  BY <1>1, <1>2, <1>5, <1>6 DEF PoolInv, Counts, config
<1> QED
  BY <1>1, <1>7, <1>8, <1>9, <1>10 DEF PoolInv, submitVars

\* The steps of stop() that leave the workers and the counters alone.
LEMMA StopMoves ==
    ASSUME PoolInv, NEW p \in ControlPlaces \ {"new", "running", "join", "stopped"},
           cpc \notin {"new", "join", "stopped", "collect"},
           cpc' = p, isRunning' = FALSE, p = "collect" => taskQue = <<>>,
           queLock' \in Workers \cup Submitters \cup {Controller, NoThread},
           UNCHANGED <<config, taskQue, busyCount, poolVars, workerVars, submitVars,
                       cjoin, idleTimeouts, fate>>
    PROVE  PoolInv'
<1>1. PoolTypeOK'
  BY DEF PoolInv, PoolTypeOK, config, poolVars, workerVars, submitVars
<1>2. Control'
  BY DEF PoolInv, Control, poolVars
<1> QED
  BY <1>1, <1>2, QuietStep DEF SameStage, PoolInv, config, workerVars, submitVars

\* What stop() knows once it has stored is_running_.
LEMMA StopTypes ==
    ASSUME PoolInv
    PROVE  /\ queLock \in Workers \cup Submitters \cup {Controller, NoThread}
           /\ {"notifyEmpty", "notifyFull", "eval", "block", "wait", "collect"}
                = ControlPlaces \ {"new", "running", "join", "stopped"}
           /\ cpc # "running" => isRunning = FALSE
  BY DEF PoolInv, PoolTypeOK, Control, ControlPlaces

LEMMA StopStoreKeeps ==
    ASSUME PoolInv, StopStore
    PROVE  PoolInv'
<1>1. /\ cpc = "running" /\ isRunning' = FALSE /\ cpc' = "notifyEmpty" /\ queLock' = queLock
      /\ UNCHANGED <<config, taskQue, busyCount, poolVars, workerVars, submitVars,
                     cjoin, idleTimeouts, fate>>
  BY DEF StopStore
<1>2. /\ "notifyEmpty" \in ControlPlaces \ {"new", "running", "join", "stopped"}
      /\ queLock' \in Workers \cup Submitters \cup {Controller, NoThread}
  BY <1>1, StopTypes
<1> QED
  BY <1>1, <1>2, StopMoves

LEMMA StopNotifyEmptyKeeps ==
    ASSUME PoolInv, StopNotifyEmpty
    PROVE  PoolInv'
<1>1. /\ cpc = "notifyEmpty" /\ cpc' = "notifyFull"
      /\ wpc' = [w \in Workers |-> IF wpc[w] = "wait" THEN "top" ELSE wpc[w]]
      /\ UNCHANGED <<config, isRunning, taskQue, busyCount, poolVars, queLock, wtask,
                     submitVars, cjoin, idleTimeouts, fate>>
  BY DEF StopNotifyEmpty, NotifyAllWorkers
<1>2. /\ wpc' \in [Workers -> WorkerPlaces]
      /\ \A w \in Workers : wpc'[w] = wpc[w] \/ (wpc[w] = "wait" /\ wpc'[w] = "top")
  BY <1>1 DEF PoolInv, PoolTypeOK, WorkerPlaces
<1>3. PoolTypeOK'
  BY <1>1, <1>2 DEF PoolInv, PoolTypeOK, config, poolVars, submitVars, ControlPlaces
<1>4. Control'
  BY <1>1 DEF PoolInv, Control, poolVars
<1>5. \A s \in Submitters : spc'[s] # "idle" => stask'[s] \in Tasks
  BY <1>1 DEF PoolInv, submitVars
<1> QED
  BY <1>1, <1>2, <1>3, <1>4, <1>5, QuietStep DEF SameStage, config, submitVars

LEMMA StopNotifyFullKeeps ==
    ASSUME PoolInv, StopNotifyFull
    PROVE  PoolInv'
<1>1. /\ cpc = "notifyFull" /\ cpc' = "eval"
      /\ spc' = [s \in Submitters |-> IF spc[s] = "wait" THEN "lock" ELSE spc[s]]
      /\ UNCHANGED <<config, isRunning, taskQue, busyCount, poolVars, queLock, workerVars,
                     stask, sjoin, cjoin, idleTimeouts, fate>>
  BY DEF StopNotifyFull, NotifyAllSubmitters
<1>2. /\ spc' \in [Submitters -> SubmitPlaces]
      /\ \A s \in Submitters : spc'[s] = spc[s] \/ (spc[s] = "wait" /\ spc'[s] = "lock")
  BY <1>1 DEF PoolInv, PoolTypeOK, SubmitPlaces
<1>3. PoolTypeOK'
  BY <1>1, <1>2 DEF PoolInv, PoolTypeOK, config, poolVars, workerVars, ControlPlaces
<1>4. Control'
  BY <1>1 DEF PoolInv, Control, poolVars
<1>5. \A s \in Submitters : spc'[s] # "idle" => stask'[s] \in Tasks
  BY <1>1, <1>2 DEF PoolInv
<1> QED
  BY <1>1, <1>2, <1>3, <1>4, <1>5, QuietStep DEF SameStage, config, workerVars

LEMMA StopLookKeeps ==
    ASSUME PoolInv, StopLook
    PROVE  PoolInv'
<1>1. /\ cpc = "eval" /\ isRunning' = isRunning
      /\ UNCHANGED <<config, taskQue, busyCount, poolVars, workerVars, submitVars,
                     cjoin, idleTimeouts, fate>>
  BY DEF StopLook
<1>2. \/ taskQue = <<>> /\ cpc' = "collect" /\ queLock' = queLock
      \/ cpc' = "block" /\ queLock' = Controller
  BY DEF StopLook, CheckExit
<1>3. isRunning' = FALSE
  BY <1>1, StopTypes
<1>4. queLock' \in Workers \cup Submitters \cup {Controller, NoThread}
  BY <1>2, StopTypes
<1> QED
  BY <1>1, <1>2, <1>3, <1>4, StopMoves, StopTypes

LEMMA StopBlockKeeps ==
    ASSUME PoolInv, StopBlock
    PROVE  PoolInv'
<1>1. /\ cpc = "block" /\ cpc' = "wait" /\ queLock' = NoThread /\ isRunning' = isRunning
      /\ UNCHANGED <<config, taskQue, busyCount, poolVars, workerVars, submitVars,
                     cjoin, idleTimeouts, fate>>
  BY DEF StopBlock
<1>2. isRunning' = FALSE
  BY <1>1, StopTypes
<1> QED
  BY <1>1, <1>2, StopMoves, StopTypes

\* joinAndClearThreads takes over every thread that pool_ held.
LEMMA StopCollectKeeps ==
    ASSUME PoolInv, StopCollect
    PROVE  PoolInv'
<1>1. /\ cpc = "collect" /\ cjoin' = pool /\ pool' = {} /\ exitedIds' = {} /\ cpc' = "join"
      /\ UNCHANGED <<config, isRunning, taskQue, busyCount, curThreadCount, nextId, queLock,
                     workerVars, submitVars, idleTimeouts, fate>>
  BY DEF StopCollect
<1>2. PoolTypeOK'
  BY <1>1 DEF PoolInv, PoolTypeOK, config, workerVars, submitVars, ControlPlaces
<1>3. Control'
  BY <1>1 DEF PoolInv, Control
<1>4. Active' = Active /\ Running' = Running /\ cjoin = {}
  BY <1>1 DEF PoolInv, Control, Active, Running, workerVars
<1>5. Kept'
  BY <1>1, <1>4 DEF PoolInv, Kept, workerVars, submitVars
<1>6. Counts'
  <2>1. Cardinality(Active) <= curThreadCount
    BY <1>1, BusyBound
  <2> QED
    BY <1>1, <1>4, <2>1 DEF PoolInv, Counts
<1> QED
  BY <1>1, <1>2, <1>3, <1>5, <1>6 DEF PoolInv, submitVars

LEMMA StopJoinKeeps ==
    ASSUME PoolInv, StopJoin
    PROVE  PoolInv'
<1>1. /\ cpc = "join" /\ \A w \in cjoin : wpc[w] = "gone"
      /\ cpc' = "stopped" /\ cjoin' = {} /\ curThreadCount' = 0 /\ busyCount' = 0
      /\ UNCHANGED <<config, isRunning, taskQue, nextId, pool, exitedIds, queLock,
                     workerVars, submitVars, idleTimeouts, fate>>
  BY DEF StopJoin
<1>2. PoolTypeOK'
  <2>1. 0 \in 0..MaxSpawn
    BY PoolAssumption
  <2> QED
    BY <1>1, <2>1 DEF PoolInv, PoolTypeOK, config, workerVars, submitVars, ControlPlaces
<1>3. Control'
  BY <1>1 DEF PoolInv, Control
<1>4. Active = {} /\ Active' = Active /\ pool = {}
  BY <1>1 DEF PoolInv, Control, Kept, Active, workerVars
<1>5. Kept'
  BY <1>1, <1>4 DEF PoolInv, Kept, workerVars, submitVars
<1>6. Counts'
  BY <1>1 DEF Counts
<1> QED
  BY <1>1, <1>2, <1>3, <1>5, <1>6 DEF PoolInv, submitVars

LEMMA InitHolds == Init => PoolInv
<1> SUFFICES ASSUME Init PROVE PoolInv
  OBVIOUS
<1>1. PoolTypeOK
  <2>1. /\ <<>> \in Seq(Tasks) /\ Len(<<>>) = 0 /\ 0 <= MaxTasks /\ 0 \in 0..MaxSpawn
        /\ 0 \in 0..MaxIdleTimeouts
    BY PoolAssumption
  <2> QED
    BY <2>1 DEF Init, PoolTypeOK, WorkerPlaces, SubmitPlaces, ControlPlaces
<1>2. Control
  BY DEF Init, Control
<1>3. Active = {} /\ Running = {}
  BY DEF Init, Active, Running
<1>4. Kept
  BY <1>3 DEF Init, Kept
<1>5. Counts
  <2>1. pool \ exitedIds = {} /\ Cardinality({}) = 0
    BY FS_EmptySet DEF Init
  <2> QED
    BY <1>3, <2>1 DEF Init, Counts
<1> QED
  BY <1>1, <1>2, <1>4, <1>5 DEF Init, PoolInv

LEMMA StepKeeps == PoolInv /\ [Next]_vars => PoolInv'
<1> SUFFICES ASSUME PoolInv, [Next]_vars PROVE PoolInv'
  OBVIOUS
<1>1. CASE UNCHANGED vars
  <2>1. PoolTypeOK' /\ Control'
    BY <1>1 DEF PoolInv, PoolTypeOK, Control, vars
  <2> QED
    BY <1>1, <2>1, QuietStep DEF SameStage, PoolInv, vars, poolVars
<1>2. ASSUME NEW w \in Workers, WorkerStep(w) \/ WorkerTimeout(w) PROVE PoolInv'
  BY <1>2, WorkerLookKeeps, WorkerBlockKeeps, WorkerTimeoutKeeps, MarkThreadExitedKeeps,
     WorkerNotifyKeeps, WorkerRunKeeps, WorkerDoneKeeps, WorkerLeaveKeeps DEF WorkerStep
<1>3. ASSUME NEW s \in Submitters,
             SubmitStep(s) \/ SubmitTimeout(s) \/ \E t \in Tasks : Submit(s, t)
      PROVE PoolInv'
  BY <1>3, SubmitKeeps, SubmitLookKeeps, SubmitBlockKeeps, SubmitTimeoutKeeps,
     SubmitNotifyKeeps, AddThreadKeeps, SubmitJoinKeeps DEF SubmitStep
<1>4. ASSUME SetMode \/ Start \/ StopStore \/ StopStep PROVE PoolInv'
  BY <1>4, SetModeKeeps, StartKeeps, StopStoreKeeps, StopNotifyEmptyKeeps, StopNotifyFullKeeps,
     StopLookKeeps, StopBlockKeeps, StopCollectKeeps, StopJoinKeeps DEF StopStep
<1> QED
  BY <1>1, <1>2, <1>3, <1>4 DEF Next

-----------------------------------------------------------------------------
(* Notifications: WakeInv is kept, given PoolInv.                          *)

\* Two sets that differ in one element at most.
LEMMA OneDiffers ==
    ASSUME NEW A, NEW B, NEW i, IsFiniteSet(A), IsFiniteSet(B), A \ {i} = B \ {i}
    PROVE  /\ Cardinality(A) \in Nat /\ Cardinality(B) \in Nat
           /\ i \in B /\ i \notin A => Cardinality(B) = Cardinality(A) + 1
           /\ i \notin B /\ i \in A => Cardinality(B) = Cardinality(A) - 1
           /\ (i \in B <=> i \in A) => Cardinality(B) = Cardinality(A)
<1>1. Cardinality(A) \in Nat /\ Cardinality(B) \in Nat
  BY FS_CardinalityType
<1>2. ASSUME i \in B, i \notin A PROVE Cardinality(B) = Cardinality(A) + 1
  <2>1. B = A \cup {i}
    BY <1>2
  <2> QED
    BY <1>2, <2>1, FS_AddElement
<1>3. ASSUME i \in A, i \notin B PROVE Cardinality(B) = Cardinality(A) - 1
  <2>1. A = B \cup {i}
    BY <1>3
  <2>2. Cardinality(A) = Cardinality(B) + 1
    BY <1>3, <2>1, FS_AddElement
  <2> QED
    BY <1>1, <2>2
<1>4. ASSUME i \in A <=> i \in B PROVE Cardinality(B) = Cardinality(A)
  <2>1. B = A
    BY <1>4
  <2> QED
    BY <2>1
<1> QED
  BY <1>1, <1>2, <1>3, <1>4

\* How a step of one worker, or of one submitter, changes the number of those at a
\* place.
LEMMA WorkerCount ==
    ASSUME PoolInv, NEW w \in Workers, wpc' \in [Workers -> WorkerPlaces],
           \A j \in Workers \ {w} : wpc'[j] = wpc[j], NEW p
    PROVE  /\ Cardinality(At(wpc, p)) \in Nat /\ Cardinality(At(wpc', p)) \in Nat
           /\ wpc'[w] = p /\ wpc[w] # p => Cardinality(At(wpc', p)) = Cardinality(At(wpc, p)) + 1
           /\ wpc'[w] # p /\ wpc[w] = p => Cardinality(At(wpc', p)) = Cardinality(At(wpc, p)) - 1
           /\ (wpc'[w] = p <=> wpc[w] = p) => Cardinality(At(wpc', p)) = Cardinality(At(wpc, p))
<1> DEFINE A == At(wpc, p)
           B == At(wpc', p)
<1>1. wpc \in [Workers -> WorkerPlaces]
  BY DEF PoolInv, PoolTypeOK
<1>2. /\ A \in SUBSET Workers /\ B \in SUBSET Workers /\ A \ {w} = B \ {w}
      /\ (w \in A <=> wpc[w] = p) /\ (w \in B <=> wpc'[w] = p)
  BY <1>1 DEF At
<1>3. IsFiniteSet(A) /\ IsFiniteSet(B)
  BY <1>2, WorkerSets
<1> HIDE DEF A, B
<1>4. /\ Cardinality(A) \in Nat /\ Cardinality(B) \in Nat
      /\ wpc'[w] = p /\ wpc[w] # p => Cardinality(B) = Cardinality(A) + 1
      /\ wpc'[w] # p /\ wpc[w] = p => Cardinality(B) = Cardinality(A) - 1
      /\ (wpc'[w] = p <=> wpc[w] = p) => Cardinality(B) = Cardinality(A)
  BY <1>2, <1>3, OneDiffers
<1> QED
  BY <1>4 DEF A, B

LEMMA SubmitterCount ==
    ASSUME PoolInv, NEW s \in Submitters, spc' \in [Submitters -> SubmitPlaces],
           \A j \in Submitters \ {s} : spc'[j] = spc[j], NEW p
    PROVE  /\ Cardinality(At(spc, p)) \in Nat /\ Cardinality(At(spc', p)) \in Nat
           /\ spc'[s] = p /\ spc[s] # p => Cardinality(At(spc', p)) = Cardinality(At(spc, p)) + 1
           /\ spc'[s] # p /\ spc[s] = p => Cardinality(At(spc', p)) = Cardinality(At(spc, p)) - 1
           /\ (spc'[s] = p <=> spc[s] = p) => Cardinality(At(spc', p)) = Cardinality(At(spc, p))
<1> DEFINE A == At(spc, p)
           B == At(spc', p)
<1>1. spc \in [Submitters -> SubmitPlaces]
  BY DEF PoolInv, PoolTypeOK
<1>2. /\ A \in SUBSET Submitters /\ B \in SUBSET Submitters /\ A \ {s} = B \ {s}
      /\ (s \in A <=> spc[s] = p) /\ (s \in B <=> spc'[s] = p)
  BY <1>1 DEF At
<1>3. IsFiniteSet(A) /\ IsFiniteSet(B)
  BY <1>2, PoolAssumption, FS_Subset
<1> HIDE DEF A, B
<1>4. /\ Cardinality(A) \in Nat /\ Cardinality(B) \in Nat
      /\ spc'[s] = p /\ spc[s] # p => Cardinality(B) = Cardinality(A) + 1
      /\ spc'[s] # p /\ spc[s] = p => Cardinality(B) = Cardinality(A) - 1
      /\ (spc'[s] = p <=> spc[s] = p) => Cardinality(B) = Cardinality(A)
  BY <1>2, <1>3, OneDiffers
<1> QED
  BY <1>4 DEF A, B

\* The numbers of threads at the places that matter.
LEMMA Numbers ==
    ASSUME PoolInv
    PROVE  /\ Cardinality(At(wpc, "took")) \in Nat /\ Cardinality(At(wpc, "top")) \in Nat
           /\ Cardinality(At(spc, "lock")) \in Nat /\ Cardinality(At(spc, "notify")) \in Nat
           /\ Len(taskQue) \in Nat /\ MaxTasks \in Nat /\ taskQue \in Seq(Tasks)
           /\ wpc \in [Workers -> WorkerPlaces] /\ spc \in [Submitters -> SubmitPlaces]
<1>1. /\ wpc \in [Workers -> WorkerPlaces] /\ spc \in [Submitters -> SubmitPlaces]
      /\ taskQue \in Seq(Tasks) /\ MaxTasks \in Nat /\ IsFiniteSet(Submitters)
  BY PoolAssumption DEF PoolInv, PoolTypeOK
<1>2. \A p : At(wpc, p) \in SUBSET Workers /\ At(spc, p) \in SUBSET Submitters
  BY <1>1 DEF At
<1>3. \A p : Cardinality(At(wpc, p)) \in Nat
  BY <1>2, WorkerSets
<1>4. \A p : Cardinality(At(spc, p)) \in Nat
  BY <1>1, <1>2, FS_Subset, FS_CardinalityType
<1>5. Len(taskQue) \in Nat
  BY <1>1, LenProperties
<1> QED
  BY <1>1, <1>3, <1>4, <1>5

\* A worker moves and no submitter does: it comes to the front of the queue before
\* it takes a task, and goes away from there, or to sleep, only with nothing queued.
LEMMA WorkerMoveWakes ==
    ASSUME PoolInv, NoMissedNotification, NEW w \in Workers,
           wpc' \in [Workers -> WorkerPlaces], \A v \in Workers \ {w} : wpc'[v] = wpc[v],
           wpc[w] # "took", UNCHANGED <<spc, isRunning>>,
           Len(taskQue') = IF wpc'[w] = "took" THEN Len(taskQue) - 1 ELSE Len(taskQue),
           wpc'[w] = "took" => wpc[w] = "top",
           (wpc[w] = "top" /\ wpc'[w] # "took") \/ wpc'[w] = "wait" => Len(taskQue) = 0
    PROVE  NoMissedNotification'
<1>1. /\ Len(taskQue) \in Nat /\ MaxTasks \in Nat /\ wpc \in [Workers -> WorkerPlaces]
      /\ Cardinality(At(spc, "lock")) \in Nat /\ Cardinality(At(spc, "notify")) \in Nat
      /\ IsFiniteSet(Workers)
  BY Numbers, WorkerSets
<1>2. /\ Cardinality(At(wpc, "took")) \in Nat /\ Cardinality(At(wpc', "took")) \in Nat
      /\ wpc'[w] = "took" => Cardinality(At(wpc', "took")) = Cardinality(At(wpc, "took")) + 1
      /\ wpc'[w] # "took" => Cardinality(At(wpc', "took")) = Cardinality(At(wpc, "took"))
  BY WorkerCount
<1>3. /\ Cardinality(At(wpc, "top")) \in Nat /\ Cardinality(At(wpc', "top")) \in Nat
      /\ wpc[w] # "top" => Cardinality(At(wpc', "top")) >= Cardinality(At(wpc, "top"))
      /\ wpc'[w] # "top" => Cardinality(At(wpc', "top")) >= Cardinality(At(wpc, "top")) - 1
  <2>1. /\ Cardinality(At(wpc, "top")) \in Nat /\ Cardinality(At(wpc', "top")) \in Nat
        /\ wpc'[w] = "top" /\ wpc[w] # "top" => Cardinality(At(wpc', "top")) = Cardinality(At(wpc, "top")) + 1
        /\ wpc'[w] # "top" /\ wpc[w] = "top" => Cardinality(At(wpc', "top")) = Cardinality(At(wpc, "top")) - 1
        /\ (wpc'[w] = "top" <=> wpc[w] = "top") => Cardinality(At(wpc', "top")) = Cardinality(At(wpc, "top"))
    BY WorkerCount
  <2> QED
    BY <2>1
<1>4. ASSUME isRunning, NEW s \in Submitters, spc[s] = "wait"
      PROVE MaxTasks - Len(taskQue') <= Cardinality(At(wpc', "took")) + Cardinality(At(spc, "lock"))
  <2>1. MaxTasks - Len(taskQue) <= Cardinality(At(wpc, "took")) + Cardinality(At(spc, "lock"))
    BY <1>4 DEF NoMissedNotification
  <2> QED
    BY <1>1, <1>2, <2>1
<1>5. ASSUME isRunning, NEW v \in Workers, wpc'[v] = "wait"
      PROVE Len(taskQue') <= Cardinality(At(spc, "notify")) + Cardinality(At(wpc', "top"))
  <2>1. CASE (wpc[w] = "top" /\ wpc'[w] # "took") \/ wpc'[w] = "wait"
    <3>1. Len(taskQue') = 0
      BY <1>1, <2>1
    <3>2. 0 <= Cardinality(At(spc, "notify")) + Cardinality(At(wpc', "top"))
      BY <1>1, <1>3
    <3> QED
      BY <3>1, <3>2
  <2>2. CASE ~((wpc[w] = "top" /\ wpc'[w] # "took") \/ wpc'[w] = "wait")
    <3>1. v # w /\ wpc[v] = "wait"
      BY <1>5, <2>2
    <3>2. Len(taskQue) <= Cardinality(At(spc, "notify")) + Cardinality(At(wpc, "top"))
      BY <1>5, <3>1 DEF NoMissedNotification
    <3> QED
      BY <1>1, <1>3, <2>2, <3>2
  <2> QED
    BY <2>1, <2>2
<1> QED
  BY <1>4, <1>5 DEF NoMissedNotification

\* A submitter moves and no worker does: it looks for room before it gives up or
\* pushes, and gives up, or sleeps, only with a full queue.
LEMMA SubmitMoveWakes ==
    ASSUME PoolInv, NoMissedNotification, NEW s \in Submitters,
           spc' \in [Submitters -> SubmitPlaces], \A r \in Submitters \ {s} : spc'[r] = spc[r],
           spc[s] # "notify", UNCHANGED <<wpc, isRunning>>,
           Len(taskQue') = IF spc'[s] = "notify" THEN Len(taskQue) + 1 ELSE Len(taskQue),
           (spc[s] = "lock" /\ spc'[s] # "notify") \/ spc'[s] = "wait" => Len(taskQue) >= MaxTasks
    PROVE  NoMissedNotification'
<1>1. /\ Len(taskQue) \in Nat /\ MaxTasks \in Nat /\ spc \in [Submitters -> SubmitPlaces]
      /\ Cardinality(At(wpc, "took")) \in Nat /\ Cardinality(At(wpc, "top")) \in Nat
      /\ IsFiniteSet(Submitters)
  BY Numbers, PoolAssumption
<1>2. /\ Cardinality(At(spc, "notify")) \in Nat /\ Cardinality(At(spc', "notify")) \in Nat
      /\ spc'[s] = "notify" => Cardinality(At(spc', "notify")) = Cardinality(At(spc, "notify")) + 1
      /\ spc'[s] # "notify" => Cardinality(At(spc', "notify")) = Cardinality(At(spc, "notify"))
  BY SubmitterCount
<1>3. /\ Cardinality(At(spc, "lock")) \in Nat /\ Cardinality(At(spc', "lock")) \in Nat
      /\ spc[s] # "lock" => Cardinality(At(spc', "lock")) >= Cardinality(At(spc, "lock"))
      /\ spc'[s] # "lock" => Cardinality(At(spc', "lock")) >= Cardinality(At(spc, "lock")) - 1
  <2>1. /\ Cardinality(At(spc, "lock")) \in Nat /\ Cardinality(At(spc', "lock")) \in Nat
        /\ spc'[s] = "lock" /\ spc[s] # "lock" => Cardinality(At(spc', "lock")) = Cardinality(At(spc, "lock")) + 1
        /\ spc'[s] # "lock" /\ spc[s] = "lock" => Cardinality(At(spc', "lock")) = Cardinality(At(spc, "lock")) - 1
        /\ (spc'[s] = "lock" <=> spc[s] = "lock") => Cardinality(At(spc', "lock")) = Cardinality(At(spc, "lock"))
    BY SubmitterCount
  <2> QED
    BY <2>1
<1>4. ASSUME isRunning, NEW w \in Workers, wpc[w] = "wait"
      PROVE Len(taskQue') <= Cardinality(At(spc', "notify")) + Cardinality(At(wpc, "top"))
  <2>1. Len(taskQue) <= Cardinality(At(spc, "notify")) + Cardinality(At(wpc, "top"))
    BY <1>4 DEF NoMissedNotification
  <2> QED
    BY <1>1, <1>2, <2>1
<1>5. ASSUME isRunning, NEW r \in Submitters, spc'[r] = "wait"
      PROVE MaxTasks - Len(taskQue') <= Cardinality(At(wpc, "took")) + Cardinality(At(spc', "lock"))
  <2>1. CASE (spc[s] = "lock" /\ spc'[s] # "notify") \/ spc'[s] = "wait"
    <3>1. Len(taskQue') >= MaxTasks /\ Len(taskQue') \in Nat
      BY <1>1, <2>1
    <3> QED
      BY <1>1, <1>3, <3>1
  <2>2. CASE ~((spc[s] = "lock" /\ spc'[s] # "notify") \/ spc'[s] = "wait")
    <3>1. r # s /\ spc[r] = "wait"
      BY <1>5, <2>2
    <3>2. MaxTasks - Len(taskQue) <= Cardinality(At(wpc, "took")) + Cardinality(At(spc, "lock"))
      BY <1>5, <3>1 DEF NoMissedNotification
    <3> QED
      BY <1>1, <1>3, <2>2, <3>2
  <2> QED
    BY <2>1, <2>2
<1> QED
  BY <1>4, <1>5 DEF NoMissedNotification

\* What the steps below take from PoolInv.
LEMMA Places ==
    ASSUME PoolInv, PoolInv'
    PROVE  /\ wpc \in [Workers -> WorkerPlaces] /\ wpc' \in [Workers -> WorkerPlaces]
           /\ spc \in [Submitters -> SubmitPlaces] /\ spc' \in [Submitters -> SubmitPlaces]
           /\ taskQue \in Seq(Tasks) /\ Len(taskQue) \in Nat /\ Len(taskQue) <= MaxTasks
           /\ MaxTasks \in Nat /\ (taskQue = <<>> <=> Len(taskQue) = 0)
           /\ isRunning <=> cpc = "running"
<1>1. /\ wpc' \in [Workers -> WorkerPlaces] /\ spc' \in [Submitters -> SubmitPlaces]
      /\ Len(taskQue) <= MaxTasks /\ (isRunning <=> cpc = "running")
  BY DEF PoolInv, PoolTypeOK, Control
<1>2. taskQue = <<>> <=> Len(taskQue) = 0
  BY Numbers, EmptySeq
<1> QED
  BY <1>1, <1>2, Numbers

\* At most one thread is about to block, and none while the mutex is free.
LEMMA Alone ==
    ASSUME Blocking
    PROVE  /\ Free => /\ \A w \in Workers : wpc[w] # "block"
                      /\ \A s \in Submitters : spc[s] # "block"
                      /\ cpc # "block"
           /\ \A w \in Workers : wpc[w] = "block" =>
                /\ \A v \in Workers \ {w} : wpc[v] # "block"
                /\ \A s \in Submitters : spc[s] # "block"
                /\ cpc # "block"
           /\ \A s \in Submitters : spc[s] = "block" =>
                /\ \A w \in Workers : wpc[w] # "block"
                /\ \A r \in Submitters \ {s} : spc[r] # "block"
                /\ cpc # "block"
           /\ cpc = "block" => /\ \A w \in Workers : wpc[w] # "block"
                               /\ \A s \in Submitters : spc[s] # "block"
  BY ThreadAssumption DEF Blocking, Free

\* Nobody comes to block, and who is about to still holds the mutex.
LEMMA BlockingStays ==
    ASSUME Blocking, UNCHANGED <<queLock, taskQue>>,
           \A w \in Workers : wpc'[w] = "block" => wpc[w] = "block",
           \A s \in Submitters : spc'[s] = "block" => spc[s] = "block",
           cpc' = "block" => cpc = "block",
           cpc' = "new" => \A s \in Submitters : spc'[s] = "idle"
    PROVE  Blocking'
  BY DEF Blocking, HasRoom

LEMMA NobodyBlocks ==
    ASSUME \A w \in Workers : wpc'[w] # "block", \A s \in Submitters : spc'[s] # "block",
           cpc' # "block", cpc' = "new" => \A s \in Submitters : spc'[s] = "idle"
    PROVE  Blocking'
  BY DEF Blocking

LEMMA SameWakes ==
    ASSUME WakeInv, UNCHANGED <<wpc, spc, taskQue, isRunning, queLock, cpc>>
    PROVE  WakeInv'
<1>1. Blocking'
  BY BlockingStays DEF WakeInv, Blocking
<1>2. NoMissedNotification'
  BY DEF WakeInv, NoMissedNotification
<1> QED
  BY <1>1, <1>2 DEF WakeInv

\* The steps of a worker that have nothing to do with the queue.
LEMMA WorkerGoesWakes ==
    ASSUME PoolInv, PoolInv', WakeInv, NEW w \in Workers, NEW q,
           wpc' = [wpc EXCEPT ![w] = q],
           wpc[w] \notin {"took", "top", "block"}, q \notin {"took", "wait", "block"},
           UNCHANGED <<spc, isRunning, taskQue, queLock>>,
           cpc' = "block" => cpc = "block", cpc' = "new" => cpc = "new"
    PROVE  WakeInv'
<1>1. wpc'[w] = q /\ \A v \in Workers \ {w} : wpc'[v] = wpc[v]
  BY Places
<1>2. wpc' \in [Workers -> WorkerPlaces] /\ \A v \in Workers : wpc'[v] = "block" => wpc[v] = "block"
  BY <1>1, Places
<1>3. Blocking'
  <2>1. cpc' = "new" => \A s \in Submitters : spc'[s] = "idle"
    BY DEF WakeInv, Blocking
  <2> QED
    BY <1>2, <2>1, BlockingStays DEF WakeInv
<1>4. NoMissedNotification'
  BY <1>1, <1>2, WorkerMoveWakes DEF WakeInv
<1> QED
  BY <1>3, <1>4 DEF WakeInv

LEMMA WorkerLookWakes ==
    ASSUME PoolInv, PoolInv', WakeInv, NEW w \in Workers, WorkerLook(w)
    PROVE  WakeInv'
<1>1. wpc[w] = "top" /\ Free /\ UNCHANGED <<isRunning, spc, cpc>>
  BY DEF WorkerLook, submitVars, controlVars
<1>2. /\ \A v \in Workers : wpc[v] # "block"
      /\ \A s \in Submitters : spc[s] # "block"
      /\ cpc # "block" /\ (cpc = "new" => \A s \in Submitters : spc[s] = "idle")
  BY <1>1, Alone DEF WakeInv, Blocking
<1>3. wpc' \in [Workers -> WorkerPlaces] /\ \A v \in Workers \ {w} : wpc'[v] = wpc[v]
  BY Places DEF WorkerLook
<1>4. CASE /\ taskQue = <<>> /\ wpc' = [wpc EXCEPT ![w] = "block"] /\ queLock' = w
           /\ UNCHANGED taskQue
  <2>1. wpc'[w] = "block" /\ Len(taskQue) = 0 /\ Len(taskQue') = Len(taskQue)
    BY <1>4, Places
  <2>2. NoMissedNotification'
    BY <1>1, <1>3, <2>1, WorkerMoveWakes DEF WakeInv
  <2>3. Blocking'
    BY <1>1, <1>2, <1>3, <1>4 DEF Blocking
  <2> QED
    BY <2>2, <2>3 DEF WakeInv
<1>5. CASE /\ MayLeave /\ wpc' = [wpc EXCEPT ![w] = "leave"] /\ UNCHANGED <<taskQue, queLock>>
  <2>1. wpc'[w] = "leave" /\ Len(taskQue) = 0 /\ Len(taskQue') = Len(taskQue)
    BY <1>5, Places DEF MayLeave
  <2>2. NoMissedNotification'
    BY <1>1, <1>3, <2>1, WorkerMoveWakes DEF WakeInv
  <2>3. Blocking'
    BY <1>1, <1>2, <1>3, <2>1, NobodyBlocks
  <2> QED
    BY <2>2, <2>3 DEF WakeInv
<1>6. CASE /\ taskQue # <<>> /\ taskQue' = Tail(taskQue) /\ wpc' = [wpc EXCEPT ![w] = "took"]
           /\ UNCHANGED queLock
  <2>1. wpc'[w] = "took"
    BY <1>6, Places
  <2>2. Len(taskQue') = Len(taskQue) - 1
    BY <1>6, Places, HeadTailProperties
  <2>3. NoMissedNotification'
    BY <1>1, <1>3, <2>1, <2>2, WorkerMoveWakes DEF WakeInv
  <2>4. Blocking'
    BY <1>1, <1>2, <1>3, <2>1, NobodyBlocks
  <2> QED
    BY <2>3, <2>4 DEF WakeInv
<1> QED
  BY <1>4, <1>5, <1>6 DEF WorkerLook

\* The worker that blocks found the queue empty, and it still is.
LEMMA WorkerBlockWakes ==
    ASSUME PoolInv, PoolInv', WakeInv, NEW w \in Workers, WorkerBlock(w)
    PROVE  WakeInv'
<1>1. /\ wpc[w] = "block" /\ wpc' = [wpc EXCEPT ![w] = "wait"]
      /\ UNCHANGED <<isRunning, taskQue, spc, cpc>>
  BY DEF WorkerBlock, submitVars, controlVars
<1>2. wpc' \in [Workers -> WorkerPlaces] /\ wpc'[w] = "wait"
      /\ \A v \in Workers \ {w} : wpc'[v] = wpc[v]
  BY <1>1, Places
<1>3. taskQue = <<>> /\ (cpc = "new" => \A s \in Submitters : spc[s] = "idle")
  BY <1>1 DEF WakeInv, Blocking
<1>4. Len(taskQue) = 0 /\ Len(taskQue') = Len(taskQue)
  BY <1>1, <1>3, Places
<1>5. NoMissedNotification'
  BY <1>1, <1>2, <1>4, WorkerMoveWakes DEF WakeInv
<1>6. Blocking'
  <2>1. /\ \A v \in Workers \ {w} : wpc[v] # "block"
        /\ \A s \in Submitters : spc[s] # "block"
        /\ cpc # "block"
    BY <1>1, Alone DEF WakeInv
  <2> QED
    BY <1>1, <1>2, <1>3, <2>1, NobodyBlocks
<1> QED
  BY <1>5, <1>6 DEF WakeInv

LEMMA WorkerQuietWakes ==
    ASSUME PoolInv, PoolInv', WakeInv, NEW w \in Workers,
           WorkerTimeout(w) \/ MarkThreadExited(w) \/ WorkerRun(w) \/ WorkerDone(w) \/ WorkerLeave(w)
    PROVE  WakeInv'
<1>1. CASE WorkerTimeout(w)
  <2>1. /\ wpc[w] = "wait" /\ UNCHANGED <<spc, isRunning, taskQue, queLock, cpc>>
        /\ wpc' = [wpc EXCEPT ![w] = "mark"] \/ wpc' = [wpc EXCEPT ![w] = "top"]
    BY <1>1 DEF WorkerTimeout, submitVars
  <2> QED
    BY <2>1, WorkerGoesWakes
<1>2. CASE MarkThreadExited(w)
  <2>1. /\ wpc[w] = "mark" /\ UNCHANGED <<spc, isRunning, taskQue, queLock, cpc>>
        /\ wpc' = [wpc EXCEPT ![w] = "leave"] \/ wpc' = [wpc EXCEPT ![w] = "top"]
    BY <1>2 DEF MarkThreadExited, submitVars, controlVars
  <2> QED
    BY <2>1, WorkerGoesWakes
<1>3. CASE WorkerRun(w)
  <2>1. /\ wpc[w] = "ready" /\ UNCHANGED <<spc, isRunning, taskQue, queLock, cpc>>
        /\ wpc' = [wpc EXCEPT ![w] = "run"]
    BY <1>3 DEF WorkerRun, submitVars, controlVars
  <2> QED
    BY <2>1, WorkerGoesWakes
<1>4. CASE WorkerDone(w)
  <2>1. /\ wpc[w] = "run" /\ UNCHANGED <<spc, isRunning, taskQue, queLock, cpc>>
        /\ wpc' = [wpc EXCEPT ![w] = "top"]
    BY <1>4 DEF WorkerDone, submitVars, controlVars
  <2> QED
    BY <2>1, WorkerGoesWakes
<1>5. CASE WorkerLeave(w)
  <2>1. /\ wpc[w] = "leave" /\ UNCHANGED <<spc, isRunning, taskQue, queLock>>
        /\ wpc' = [wpc EXCEPT ![w] = "gone"]
        /\ (cpc' = "block" => cpc = "block") /\ (cpc' = "new" => cpc = "new")
    BY <1>5 DEF WorkerLeave, submitVars
  <2> QED
    BY <2>1, WorkerGoesWakes
<1> QED
  BY <1>1, <1>2, <1>3, <1>4, <1>5

\* The place a worker has freed is handed to a waiting submitter, if there is one.
LEMMA WorkerNotifyWakes ==
    ASSUME PoolInv, PoolInv', WakeInv, NEW w \in Workers, WorkerNotify(w)
    PROVE  WakeInv'
<1>1. /\ wpc[w] = "took" /\ wpc' = [wpc EXCEPT ![w] = "ready"] /\ NotifyOneSubmitter
      /\ UNCHANGED <<isRunning, taskQue, queLock, cpc>>
  BY DEF WorkerNotify, controlVars
<1>2. /\ wpc' \in [Workers -> WorkerPlaces] /\ wpc'[w] = "ready"
      /\ \A v \in Workers \ {w} : wpc'[v] = wpc[v]
  BY <1>1, Places
<1>3. /\ Cardinality(At(wpc, "took")) \in Nat
      /\ Cardinality(At(wpc', "took")) = Cardinality(At(wpc, "took")) - 1
  BY <1>1, <1>2, WorkerCount
<1>4. Cardinality(At(wpc', "top")) = Cardinality(At(wpc, "top"))
  BY <1>1, <1>2, WorkerCount
<1>5. \A v \in Workers : /\ wpc'[v] = "block" => wpc[v] = "block"
                         /\ wpc'[v] = "wait" => wpc[v] = "wait"
  BY <1>2
<1>6. CASE (\A s \in Submitters : spc[s] # "wait") /\ UNCHANGED spc
  <2>1. Blocking'
    BY <1>1, <1>5, <1>6, BlockingStays DEF WakeInv, Blocking
  <2>2. NoMissedNotification'
    BY <1>1, <1>4, <1>5, <1>6 DEF WakeInv, NoMissedNotification
  <2> QED
    BY <2>1, <2>2 DEF WakeInv
<1>7. ASSUME NEW s \in Submitters, spc[s] = "wait", spc' = [spc EXCEPT ![s] = "lock"]
      PROVE WakeInv'
  <2>1. /\ spc' \in [Submitters -> SubmitPlaces] /\ spc'[s] = "lock"
        /\ \A r \in Submitters \ {s} : spc'[r] = spc[r]
    BY <1>7, Places
  <2>2. /\ Cardinality(At(spc, "lock")) \in Nat
        /\ Cardinality(At(spc', "lock")) = Cardinality(At(spc, "lock")) + 1
    BY <1>7, <2>1, SubmitterCount
  <2>3. Cardinality(At(spc', "notify")) = Cardinality(At(spc, "notify"))
    BY <1>7, <2>1, SubmitterCount
  <2>4. Blocking'
    <3>1. cpc # "new" /\ \A r \in Submitters : spc'[r] = "block" => spc[r] = "block"
      BY <1>7, <2>1 DEF WakeInv, Blocking
    <3> QED
      BY <1>1, <1>5, <3>1, BlockingStays DEF WakeInv
  <2>5. ASSUME isRunning, NEW r \in Submitters, spc'[r] = "wait"
        PROVE MaxTasks - Len(taskQue) <= Cardinality(At(wpc', "took")) + Cardinality(At(spc', "lock"))
    <3>1. MaxTasks - Len(taskQue) <= Cardinality(At(wpc, "took")) + Cardinality(At(spc, "lock"))
      BY <1>7, <2>5 DEF WakeInv, NoMissedNotification
    <3> QED
      BY <1>3, <2>2, <3>1, Places
  <2>6. ASSUME isRunning, NEW v \in Workers, wpc'[v] = "wait"
        PROVE Len(taskQue) <= Cardinality(At(spc', "notify")) + Cardinality(At(wpc', "top"))
    BY <1>4, <1>5, <2>3, <2>6 DEF WakeInv, NoMissedNotification
  <2>7. NoMissedNotification'
    BY <1>1, <2>5, <2>6 DEF NoMissedNotification
  <2> QED
    BY <2>4, <2>7 DEF WakeInv
<1> QED
  BY <1>1, <1>6, <1>7 DEF NotifyOneSubmitter

\* The steps of a submitter that have nothing to do with the queue.
LEMMA SubmitterGoesWakes ==
    ASSUME PoolInv, PoolInv', WakeInv, NEW s \in Submitters, NEW q,
           spc' = [spc EXCEPT ![s] = q],
           spc[s] \notin {"notify", "lock", "block"}, q \notin {"notify", "wait", "block"},
           UNCHANGED <<wpc, isRunning, taskQue, queLock, cpc>>, spc[s] # "idle" \/ isRunning
    PROVE  WakeInv'
<1>1. /\ spc'[s] = q /\ spc' \in [Submitters -> SubmitPlaces]
      /\ \A r \in Submitters \ {s} : spc'[r] = spc[r]
  BY Places
<1>2. \A r \in Submitters : spc'[r] = "block" => spc[r] = "block"
  BY <1>1
<1>3. Blocking'
  <2>1. cpc # "new"
    BY Places DEF WakeInv, Blocking
  <2> QED
    BY <1>2, <2>1, BlockingStays DEF WakeInv
<1>4. NoMissedNotification'
  BY <1>1, SubmitMoveWakes DEF WakeInv
<1> QED
  BY <1>3, <1>4 DEF WakeInv

\* Admission: a submitter that looks takes the place, unless the pool stops.
LEMMA AdmitWakes ==
    ASSUME PoolInv, PoolInv', WakeInv, NEW s \in Submitters, spc[s] \in {"lock", "wait"},
           Free, Admit(s), UNCHANGED <<wpc, isRunning, queLock, cpc>>
    PROVE  WakeInv'
<1>1. /\ \A v \in Workers : wpc[v] # "block"
      /\ \A r \in Submitters : spc[r] # "block"
      /\ cpc # "block" /\ cpc # "new"
  BY Alone DEF WakeInv, Blocking
<1>2. /\ spc' \in [Submitters -> SubmitPlaces] /\ spc'[s] \in {"idle", "notify"}
      /\ \A r \in Submitters \ {s} : spc'[r] = spc[r]
  BY Places DEF Admit, Return
<1>3. Blocking'
  BY <1>1, <1>2, NobodyBlocks
<1>4. CASE ~isRunning
  BY <1>3, <1>4 DEF WakeInv, NoMissedNotification
<1>5. CASE isRunning
  <2>1. /\ taskQue' = Append(taskQue, stask[s]) /\ spc' = [spc EXCEPT ![s] = "notify"]
        /\ stask[s] \in Tasks
    BY <1>5 DEF Admit, PoolInv
  <2>2. spc'[s] = "notify"
    BY <2>1, Places
  <2>3. Len(taskQue') = Len(taskQue) + 1
    BY <2>1, Places, AppendProperties
  <2>4. NoMissedNotification'
    BY <1>2, <2>2, <2>3, SubmitMoveWakes DEF WakeInv
  <2> QED
    BY <1>3, <2>4 DEF WakeInv
<1> QED
  BY <1>4, <1>5

LEMMA SubmitWakes ==
    ASSUME PoolInv, PoolInv', WakeInv, NEW s \in Submitters, NEW t \in Tasks, Submit(s, t)
    PROVE  WakeInv'
<1>1. spc[s] = "idle" /\ UNCHANGED <<wpc, isRunning, taskQue, queLock, cpc>>
  BY DEF Submit, workerVars, controlVars
<1>2. CASE isRunning
  <2>1. spc' = [spc EXCEPT ![s] = "lock"]
    BY <1>2 DEF Submit
  <2> QED
    BY <1>1, <1>2, <2>1, SubmitterGoesWakes
<1>3. CASE ~isRunning
  <2>1. spc' = spc
    BY <1>3 DEF Submit
  <2> QED
    BY <1>1, <2>1, SameWakes
<1> QED
  BY <1>2, <1>3

LEMMA SubmitLookWakes ==
    ASSUME PoolInv, PoolInv', WakeInv, NEW s \in Submitters, SubmitLook(s)
    PROVE  WakeInv'
<1>1. spc[s] = "lock" /\ Free /\ UNCHANGED <<wpc, isRunning, cpc>>
  BY DEF SubmitLook, workerVars, controlVars
<1>2. CASE HasRoom \/ ~isRunning
  BY <1>1, <1>2, AdmitWakes DEF SubmitLook
<1>3. CASE ~(HasRoom \/ ~isRunning)
  <2>1. spc' = [spc EXCEPT ![s] = "block"] /\ queLock' = s /\ taskQue' = taskQue
    BY <1>3 DEF SubmitLook
  <2>2. /\ spc' \in [Submitters -> SubmitPlaces] /\ spc'[s] = "block"
        /\ \A r \in Submitters \ {s} : spc'[r] = spc[r]
    BY <2>1, Places
  <2>3. Len(taskQue) >= MaxTasks
    BY <1>3, Places DEF HasRoom
  <2>4. NoMissedNotification'
    BY <1>1, <2>1, <2>2, <2>3, SubmitMoveWakes DEF WakeInv
  <2>5. /\ \A v \in Workers : wpc[v] # "block"
        /\ \A r \in Submitters : spc[r] # "block"
        /\ cpc # "block" /\ cpc # "new"
    BY <1>1, Alone DEF WakeInv, Blocking
  <2>6. Blocking'
    BY <1>1, <1>3, <2>1, <2>2, <2>5 DEF Blocking, HasRoom
  <2> QED
    BY <2>4, <2>6 DEF WakeInv
<1> QED
  BY <1>2, <1>3

\* The submitter that blocks found the queue full, and it still is.
LEMMA SubmitBlockWakes ==
    ASSUME PoolInv, PoolInv', WakeInv, NEW s \in Submitters, SubmitBlock(s)
    PROVE  WakeInv'
<1>1. /\ spc[s] = "block" /\ spc' = [spc EXCEPT ![s] = "wait"]
      /\ UNCHANGED <<wpc, isRunning, taskQue, cpc>>
  BY DEF SubmitBlock, workerVars, controlVars
<1>2. /\ spc' \in [Submitters -> SubmitPlaces] /\ spc'[s] = "wait"
      /\ \A r \in Submitters \ {s} : spc'[r] = spc[r]
  BY <1>1, Places
<1>3. ~HasRoom /\ cpc # "new"
  BY <1>1 DEF WakeInv, Blocking
<1>4. Len(taskQue) >= MaxTasks /\ Len(taskQue') = Len(taskQue)
  BY <1>1, <1>3, Places DEF HasRoom
<1>5. NoMissedNotification'
  BY <1>1, <1>2, <1>4, SubmitMoveWakes DEF WakeInv
<1>6. Blocking'
  <2>1. /\ \A v \in Workers : wpc[v] # "block"
        /\ \A r \in Submitters \ {s} : spc[r] # "block"
        /\ cpc # "block"
    BY <1>1, Alone DEF WakeInv
  <2> QED
    BY <1>1, <1>2, <1>3, <2>1, NobodyBlocks
<1> QED
  BY <1>5, <1>6 DEF WakeInv

LEMMA SubmitTimeoutWakes ==
    ASSUME PoolInv, PoolInv', WakeInv, NEW s \in Submitters, SubmitTimeout(s)
    PROVE  WakeInv'
<1>1. spc[s] = "wait" /\ Free /\ UNCHANGED <<wpc, isRunning, queLock, cpc>>
  BY DEF SubmitTimeout, workerVars, controlVars
<1>2. CASE HasRoom \/ ~isRunning
  BY <1>1, <1>2, AdmitWakes DEF SubmitTimeout
<1>3. CASE ~(HasRoom \/ ~isRunning)
  <2>1. /\ taskQue' = taskQue
        /\ spc' = [spc EXCEPT ![s] = "add"] \/ spc' = [spc EXCEPT ![s] = "idle"]
    BY <1>3 DEF SubmitTimeout, Return
  <2> QED
    BY <1>1, <2>1, SubmitterGoesWakes
<1> QED
  BY <1>2, <1>3

\* The task a submitter has pushed is handed to a waiting worker, if there is one.
LEMMA SubmitNotifyWakes ==
    ASSUME PoolInv, PoolInv', WakeInv, NEW s \in Submitters, SubmitNotify(s)
    PROVE  WakeInv'
<1>1. /\ spc[s] = "notify" /\ spc' = [spc EXCEPT ![s] = "add"] /\ NotifyOneWorker
      /\ UNCHANGED <<isRunning, taskQue, queLock, cpc>>
  BY DEF SubmitNotify, controlVars
<1>2. /\ spc' \in [Submitters -> SubmitPlaces] /\ spc'[s] = "add"
      /\ \A r \in Submitters \ {s} : spc'[r] = spc[r]
  BY <1>1, Places
<1>3. /\ Cardinality(At(spc, "notify")) \in Nat
      /\ Cardinality(At(spc', "notify")) = Cardinality(At(spc, "notify")) - 1
  BY <1>1, <1>2, SubmitterCount
<1>4. Cardinality(At(spc', "lock")) = Cardinality(At(spc, "lock"))
  BY <1>1, <1>2, SubmitterCount
<1>5. /\ cpc # "new"
      /\ \A r \in Submitters : /\ spc'[r] = "block" => spc[r] = "block"
                               /\ spc'[r] = "wait" => spc[r] = "wait"
  BY <1>1, <1>2 DEF WakeInv, Blocking
<1>6. CASE (\A w \in Workers : wpc[w] # "wait") /\ UNCHANGED wpc
  <2>1. Blocking'
    BY <1>1, <1>5, <1>6, BlockingStays DEF WakeInv
  <2>2. NoMissedNotification'
    BY <1>1, <1>4, <1>5, <1>6 DEF WakeInv, NoMissedNotification
  <2> QED
    BY <2>1, <2>2 DEF WakeInv
<1>7. ASSUME NEW w \in Workers, wpc[w] = "wait", wpc' = [wpc EXCEPT ![w] = "top"]
      PROVE WakeInv'
  <2>1. /\ wpc' \in [Workers -> WorkerPlaces] /\ wpc'[w] = "top"
        /\ \A v \in Workers \ {w} : wpc'[v] = wpc[v]
    BY <1>7, Places
  <2>2. /\ Cardinality(At(wpc, "top")) \in Nat
        /\ Cardinality(At(wpc', "top")) = Cardinality(At(wpc, "top")) + 1
    BY <1>7, <2>1, WorkerCount
  <2>3. Cardinality(At(wpc', "took")) = Cardinality(At(wpc, "took"))
    BY <1>7, <2>1, WorkerCount
  <2>4. Blocking'
    <3>1. \A v \in Workers : wpc'[v] = "block" => wpc[v] = "block"
      BY <1>7, <2>1
    <3> QED
      BY <1>1, <1>5, <3>1, BlockingStays DEF WakeInv
  <2>5. ASSUME isRunning, NEW v \in Workers, wpc'[v] = "wait"
        PROVE Len(taskQue) <= Cardinality(At(spc', "notify")) + Cardinality(At(wpc', "top"))
    <3>1. Len(taskQue) <= Cardinality(At(spc, "notify")) + Cardinality(At(wpc, "top"))
      BY <1>7, <2>5 DEF WakeInv, NoMissedNotification
    <3> QED
      BY <1>3, <2>2, <3>1, Places
  <2>6. ASSUME isRunning, NEW r \in Submitters, spc'[r] = "wait"
        PROVE MaxTasks - Len(taskQue) <= Cardinality(At(wpc', "took")) + Cardinality(At(spc', "lock"))
    BY <1>4, <1>5, <2>3, <2>6 DEF WakeInv, NoMissedNotification
  <2>7. NoMissedNotification'
    BY <1>1, <2>5, <2>6 DEF NoMissedNotification
  <2> QED
    BY <2>4, <2>7 DEF WakeInv
<1> QED
  BY <1>1, <1>6, <1>7 DEF NotifyOneWorker

\* A new worker looks first of all.
LEMMA AddThreadWakes ==
    ASSUME PoolInv, PoolInv', WakeInv, NEW s \in Submitters, AddThread(s)
    PROVE  WakeInv'
<1>1. spc[s] = "add" /\ UNCHANGED <<isRunning, taskQue, queLock, cpc>>
  BY DEF AddThread, controlVars
<1>2. CASE Return(s) /\ UNCHANGED wpc
  BY <1>1, <1>2, SubmitterGoesWakes DEF Return
<1>3. CASE /\ nextId < MaxSpawn /\ wpc' = [wpc EXCEPT ![nextId] = "top"]
           /\ spc' = [spc EXCEPT ![s] = "join"]
  <2>1. nextId \in Workers /\ wpc[nextId] = "off"
    <3>1. nextId \in Nat /\ MaxSpawn \in Nat
      BY PoolAssumption DEF PoolInv, PoolTypeOK
    <3>2. nextId \in Workers
      BY <1>3, <3>1 DEF Workers
    <3> QED
      BY <3>1, <3>2 DEF PoolInv, Kept
  <2>2. /\ wpc' \in [Workers -> WorkerPlaces] /\ wpc'[nextId] = "top"
        /\ \A v \in Workers \ {nextId} : wpc'[v] = wpc[v]
    BY <1>3, <2>1, Places
  <2>3. /\ spc' \in [Submitters -> SubmitPlaces] /\ spc'[s] = "join"
        /\ \A r \in Submitters \ {s} : spc'[r] = spc[r]
    BY <1>3, Places
  <2>4. Cardinality(At(wpc', "took")) = Cardinality(At(wpc, "took"))
    BY <2>1, <2>2, WorkerCount
  <2>5. /\ Cardinality(At(wpc, "top")) \in Nat
        /\ Cardinality(At(wpc', "top")) = Cardinality(At(wpc, "top")) + 1
    BY <2>1, <2>2, WorkerCount
  <2>6. Cardinality(At(spc', "lock")) = Cardinality(At(spc, "lock"))
    BY <1>1, <2>3, SubmitterCount
  <2>7. Cardinality(At(spc', "notify")) = Cardinality(At(spc, "notify"))
    BY <1>1, <2>3, SubmitterCount
  <2>8. /\ \A v \in Workers : /\ wpc'[v] = "block" => wpc[v] = "block"
                              /\ wpc'[v] = "wait" => wpc[v] = "wait"
        /\ \A r \in Submitters : /\ spc'[r] = "block" => spc[r] = "block"
                                 /\ spc'[r] = "wait" => spc[r] = "wait"
        /\ cpc # "new"
    BY <1>1, <2>2, <2>3 DEF WakeInv, Blocking
  <2>9. Blocking'
    BY <1>1, <2>8, BlockingStays DEF WakeInv
  <2>10. ASSUME isRunning, NEW v \in Workers, wpc'[v] = "wait"
         PROVE Len(taskQue) <= Cardinality(At(spc', "notify")) + Cardinality(At(wpc', "top"))
    <3>1. Len(taskQue) <= Cardinality(At(spc, "notify")) + Cardinality(At(wpc, "top"))
      BY <2>8, <2>10 DEF WakeInv, NoMissedNotification
    <3> QED
      BY <2>5, <2>7, <3>1, Numbers
  <2>11. ASSUME isRunning, NEW r \in Submitters, spc'[r] = "wait"
         PROVE MaxTasks - Len(taskQue) <= Cardinality(At(wpc', "took")) + Cardinality(At(spc', "lock"))
    BY <2>4, <2>6, <2>8, <2>11 DEF WakeInv, NoMissedNotification
  <2>12. NoMissedNotification'
    BY <1>1, <2>10, <2>11 DEF NoMissedNotification
  <2> QED
    BY <2>9, <2>12 DEF WakeInv
<1> QED
  BY <1>2, <1>3 DEF AddThread

LEMMA SubmitJoinWakes ==
    ASSUME PoolInv, PoolInv', WakeInv, NEW s \in Submitters, SubmitJoin(s)
    PROVE  WakeInv'
<1>1. /\ spc[s] = "join" /\ spc' = [spc EXCEPT ![s] = "idle"]
      /\ UNCHANGED <<wpc, isRunning, taskQue, queLock, cpc>>
  BY DEF SubmitJoin, Return, workerVars, controlVars
<1> QED
  BY <1>1, SubmitterGoesWakes

\* start(): nobody has submitted yet, and no worker waits.
LEMMA StartWakes ==
    ASSUME PoolInv, PoolInv', WakeInv, Start
    PROVE  WakeInv'
<1>1. /\ cpc = "new" /\ cpc' = "running" /\ UNCHANGED <<taskQue, queLock, spc>>
      /\ wpc' = [w \in Workers |-> IF w < initThreads THEN "top" ELSE "off"]
  BY DEF Start, submitVars
<1>2. /\ \A w \in Workers : wpc'[w] # "block" /\ wpc'[w] # "wait"
      /\ \A s \in Submitters : spc'[s] = "idle"
  BY <1>1 DEF WakeInv, Blocking
<1>3. Blocking'
  BY <1>1, <1>2, NobodyBlocks
<1>4. NoMissedNotification'
  BY <1>2 DEF NoMissedNotification
<1> QED
  BY <1>3, <1>4 DEF WakeInv

\* stop(): from the store of is_running_ on only the mutex matters.
LEMMA StopWakes ==
    ASSUME PoolInv, PoolInv', WakeInv, StopStore \/ StopStep
    PROVE  WakeInv'
<1>1. cpc' \notin {"new", "running"}
  BY DEF StopStore, StopStep, StopNotifyEmpty, StopNotifyFull, StopLook, StopBlock, StopCollect,
         StopJoin
<1>2. NoMissedNotification'
  BY <1>1 DEF PoolInv, Control, NoMissedNotification
<1>3. CASE StopStore \/ StopNotifyEmpty \/ StopNotifyFull \/ StopCollect \/ StopJoin
  <2>1. cpc' # "block" /\ UNCHANGED <<queLock, taskQue>>
    BY <1>3 DEF StopStore, StopNotifyEmpty, StopNotifyFull, StopCollect, StopJoin
  <2>2. \A w \in Workers : wpc'[w] = "block" => wpc[w] = "block"
    BY <1>3 DEF StopStore, StopNotifyEmpty, StopNotifyFull, StopCollect, StopJoin, workerVars,
                NotifyAllWorkers
  <2>3. \A s \in Submitters : spc'[s] = "block" => spc[s] = "block"
    BY <1>3 DEF StopStore, StopNotifyEmpty, StopNotifyFull, StopCollect, StopJoin, submitVars,
                NotifyAllSubmitters
  <2> QED
    BY <1>1, <1>2, <2>1, <2>2, <2>3, BlockingStays DEF WakeInv
<1>4. CASE StopLook
  <2>1. /\ \A v \in Workers : wpc[v] # "block"
        /\ \A r \in Submitters : spc[r] # "block"
    BY <1>4, Alone DEF StopLook, WakeInv
  <2>2. UNCHANGED <<wpc, spc>> /\ (cpc' = "block" => queLock' = Controller)
    BY <1>4 DEF StopLook, workerVars, submitVars
  <2> QED
    BY <1>1, <1>2, <2>1, <2>2 DEF WakeInv, Blocking
<1>5. CASE StopBlock
  <2>1. /\ \A v \in Workers : wpc[v] # "block"
        /\ \A r \in Submitters : spc[r] # "block"
    BY <1>5, Alone DEF StopBlock, WakeInv
  <2>2. UNCHANGED <<wpc, spc>> /\ cpc' = "wait"
    BY <1>5 DEF StopBlock, workerVars, submitVars
  <2>3. Blocking'
    BY <2>1, <2>2, NobodyBlocks
  <2> QED
    BY <1>2, <2>3 DEF WakeInv
<1> QED
  BY <1>3, <1>4, <1>5 DEF StopStep

LEMMA InitWakes == Init => WakeInv
  BY DEF Init, WakeInv, Blocking, NoMissedNotification

LEMMA StepWakes == PoolInv /\ WakeInv /\ [Next]_vars => WakeInv'
<1> SUFFICES ASSUME PoolInv, WakeInv, [Next]_vars PROVE WakeInv'
  OBVIOUS
<1>1. PoolInv'
  BY StepKeeps
<1>2. CASE UNCHANGED vars
  BY <1>2, SameWakes DEF vars
<1>3. ASSUME NEW w \in Workers, WorkerStep(w) \/ WorkerTimeout(w) PROVE WakeInv'
  BY <1>1, <1>3, WorkerLookWakes, WorkerBlockWakes, WorkerNotifyWakes, WorkerQuietWakes
     DEF WorkerStep
<1>4. ASSUME NEW s \in Submitters,
             SubmitStep(s) \/ SubmitTimeout(s) \/ \E t \in Tasks : Submit(s, t)
      PROVE WakeInv'
  BY <1>1, <1>4, SubmitWakes, SubmitLookWakes, SubmitBlockWakes, SubmitTimeoutWakes,
     SubmitNotifyWakes, AddThreadWakes, SubmitJoinWakes DEF SubmitStep
<1>5. CASE SetMode
  BY <1>5, SameWakes DEF SetMode, workerVars, submitVars, controlVars
<1>6. CASE Start \/ StopStore \/ StopStep
  BY <1>1, <1>6, StartWakes, StopWakes
<1> QED
  BY <1>2, <1>3, <1>4, <1>5, <1>6 DEF Next

-----------------------------------------------------------------------------
(* The theorems.                                                           *)

\* PoolInv holds in every reachable state of the pool: a worker that still runs
\* is in pool_ unmarked or is one stop() joins, one on its way out is joined by
\* somebody, and the counters count them.
THEOREM PoolInvariant == Spec => []PoolInv
  BY InitHolds, StepKeeps, PTL DEF Spec

\* For every configuration: cur_thread_count_ counts the unmarked threads of
\* pool_ and stays within its limits while the pool runs, busy_count_ never
\* exceeds it (the unsigned difference in isCache and isClear does not wrap),
\* and the queue stays within task_que_max_threshhold_.
THEOREM PoolAlwaysAccounted == Spec => []PoolAccounting
<1>1. PoolInv => PoolAccounting
  <2> SUFFICES ASSUME PoolInv PROVE PoolAccounting
    OBVIOUS
  <2>1. PoolTypeOK /\ exitedIds \subseteq pool
    BY DEF PoolInv, Kept
  <2>2. busyCount <= curThreadCount
    BY BusyBound
  <2> QED
    BY <2>1, <2>2 DEF PoolInv, Counts, PoolAccounting
<1> QED
  BY <1>1, PoolInvariant, PTL

\* For every configuration: when stop() has returned the counters are those of an
\* empty pool, nothing is queued, and once no submitter is inside, every worker
\* ever started has left.
THEOREM QuietWhenStopped == Spec => []QuietAfterStop
<1>1. PoolInv => QuietAfterStop
  <2> SUFFICES ASSUME PoolInv, cpc = "stopped" PROVE QuietAfterStop
    BY DEF QuietAfterStop
  <2>1. /\ curThreadCount = 0 /\ busyCount = 0 /\ pool = {} /\ taskQue = <<>> /\ cjoin = {}
    BY DEF PoolInv, Control, Counts
  <2>2. ASSUME \A s \in Submitters : spc[s] = "idle", NEW w \in Workers
        PROVE wpc[w] \in {"off", "gone"}
    <3>1. \A s \in Submitters : sjoin[s] = {}
      BY <2>2 DEF PoolInv, Kept
    <3>2. w \notin Active /\ wpc[w] # "leave"
      BY <2>1, <3>1 DEF PoolInv, Kept
    <3> QED
      BY <3>2 DEF Active
  <2> QED
    BY <2>1, <2>2 DEF QuietAfterStop
<1> QED
  BY <1>1, PoolInvariant, PTL

\* For every number of tasks, submitters and workers: no notification of the pool
\* is missed or spent on the wrong waiter.  While submitters wait, every free place
\* has a worker yet to notify or a submitter about to look; while workers wait,
\* every queued task has a submitter yet to notify or a worker about to look.
THEOREM NotificationsSuffice == Spec => []NoMissedNotification
<1>1. PoolInv /\ WakeInv /\ [Next]_vars => (PoolInv /\ WakeInv)'
  BY StepKeeps, StepWakes
<1>2. Init => PoolInv /\ WakeInv
  BY InitHolds, InitWakes
<1>3. PoolInv /\ WakeInv => NoMissedNotification
  BY DEF WakeInv
<1> QED
  BY <1>1, <1>2, <1>3, PTL DEF Spec
=============================================================================
