-------------------------- MODULE EventLoopThread --------------------------
(***************************************************************************)
(* EventLoopThread (src/base/event_loop_thread.cpp) on top of Thread       *)
(* (src/base/thread.cpp): an owner starts a thread that constructs an      *)
(* EventLoop, lends it out through _loop, and runs it; the destructor      *)
(* quits the loop, joins the thread and destroys the loop.                 *)
(*                                                                         *)
(* EXTENDS EventLoop: LoopThread is the new thread, and every step taken   *)
(* there is a step of EventLoop, restricted to what the two threads of     *)
(* this class let happen.  Added is the life cycle around it, and the      *)
(* thread-local pointer t_loopInThread by which the constructor of         *)
(* EventLoop refuses a second loop in one thread.                          *)
(***************************************************************************)
EXTENDS EventLoop

CONSTANT
    Owner,              \* the thread that owns the EventLoopThread object
    MaxOwnLoops         \* bound on the loops the owner keeps for itself

ASSUME OwnerAssumption == Owner \in Threads
ASSUME MaxOwnLoopsAssumption == MaxOwnLoops \in Nat

VARIABLES
    loopSet,            \* _loop != nullptr
    tpc,                \* where threadFunc is
    opc,                \* where the owner is
    inThread,           \* t_loopInThread of each thread is not null
    ownLoops            \* live EventLoops the owner constructed in its thread

threadVars == <<loopSet, tpc, opc, inThread, ownLoops>>
allVars == <<vars, threadVars>>

(***************************************************************************)
(* tpc: "off" not started, "up" in threadFunc, "built" loop constructed    *)
(*   and init callback running, "published" _loop assigned (then loop()),  *)
(*   "exited" threadFunc returned.                                         *)
(* opc: "new", "waiting" in startLoop's cond wait, "started", "quitting"   *)
(*   in the destructor's quit(), "joining", "joined", "gone" destroyed,    *)
(*   "aborted" abort() in the constructor of a second loop: the end.       *)
(***************************************************************************)
ThreadTypeOK ==
    /\ TypeOK
    /\ loopSet \in BOOLEAN
    /\ tpc \in {"off", "up", "built", "published", "exited"}
    /\ opc \in {"new", "waiting", "started", "quitting", "joining", "joined",
                "gone", "aborted"}
    /\ inThread \in [{Owner, LoopThread} -> BOOLEAN]
    /\ ownLoops \in 0..MaxOwnLoops

ThreadInit ==
    /\ Init
    /\ loopSet = FALSE
    /\ tpc = "off"
    /\ opc = "new"
    /\ inThread = [t \in {Owner, LoopThread} |-> FALSE]
    /\ ownLoops = 0

-----------------------------------------------------------------------------
(* threadFunc, on the new thread.                                          *)

\* The constructor of EventLoop; a new thread has no loop yet.
Construct ==
    /\ tpc = "up"
    /\ ~inThread[LoopThread]
    /\ tpc' = "built"
    /\ inThread' = [inThread EXCEPT ![LoopThread] = TRUE]
    /\ UNCHANGED <<vars, loopSet, opc, ownLoops>>

\* _callback has returned; _loop assigned under _mutex, waiter notified.
Publish ==
    /\ tpc = "built"
    /\ AtPlace("init")
    /\ tpc' = "published"
    /\ loopSet' = TRUE
    /\ UNCHANGED <<vars, opc, inThread, ownLoops>>

\* loop->loop() and everything in it, as in EventLoop.
RunLoop ==
    /\ tpc = "published"
    /\ LoopStep \/ PollReturn
    /\ UNCHANGED threadVars

\* Mutant of ThreadExit: the thread waits for the queue to empty.
ThreadExitWaits ==
    /\ tpc = "published"
    /\ AtPlace("done")
    /\ pendingFuncs = <<>>
    /\ tpc' = "exited"
    /\ UNCHANGED <<vars, loopSet, opc, inThread, ownLoops>>

\* loop() returned, threadFunc drops its reference and the thread ends.
ThreadExit ==
    /\ tpc = "published"
    /\ AtPlace("done")
    /\ tpc' = "exited"
    /\ UNCHANGED <<vars, loopSet, opc, inThread, ownLoops>>

-----------------------------------------------------------------------------
(* The owner.                                                              *)

\* startLoop: Thread::start returns once the thread is up (its semaphore).
StartLoop ==
    /\ opc = "new"
    /\ opc' = "waiting"
    /\ tpc' = "up"
    /\ UNCHANGED <<vars, loopSet, inThread, ownLoops>>

\* Mutant of StartLoopReturn: the wait without its predicate.
StartLoopReturnSpurious ==
    /\ opc = "waiting"
    /\ opc' = "started"
    /\ UNCHANGED <<vars, loopSet, tpc, inThread, ownLoops>>

\* The wait for _loop != nullptr ends.
StartLoopReturn ==
    /\ opc = "waiting"
    /\ loopSet
    /\ opc' = "started"
    /\ UNCHANGED <<vars, loopSet, tpc, inThread, ownLoops>>

\* ~EventLoopThread, up to the store in quit().  Without a loop there is
\* nothing to do.  Other callers are done with the loop by now.
Destroy ==
    \/ /\ opc = "new" /\ ~loopSet
       /\ opc' = "gone"
       /\ UNCHANGED <<vars, loopSet, tpc, inThread, ownLoops>>
    \/ /\ opc = "started" /\ loopSet
       /\ \A t \in Threads : stage[t] = "idle"
       /\ Quit(Owner)
       /\ opc' = "quitting"
       /\ UNCHANGED <<loopSet, tpc, inThread, ownLoops>>

\* quit() has returned: _thread.join() begins.
BeginJoin ==
    /\ opc = "quitting"
    /\ stage[Owner] = "idle"
    /\ opc' = "joining"
    /\ UNCHANGED <<vars, loopSet, tpc, inThread, ownLoops>>

Join ==
    /\ opc = "joining"
    /\ tpc = "exited"
    /\ opc' = "joined"
    /\ UNCHANGED <<vars, loopSet, tpc, inThread, ownLoops>>

\* _loop.reset(): the last reference, so ~EventLoop runs here, on the owner's
\* thread, and clears the owner's t_loopInThread.
Reset ==
    /\ opc = "joined"
    /\ opc' = "gone"
    /\ loopSet' = FALSE
    /\ inThread' = [inThread EXCEPT ![Owner] = FALSE]
    /\ UNCHANGED <<vars, tpc, ownLoops>>

\* The owner may construct an EventLoop of its own (the base loop) ...
BuildOwnLoop ==
    /\ opc \in {"new", "started", "gone"}
    /\ stage[Owner] = "idle"
    /\ IF inThread[Owner]
       THEN opc' = "aborted" /\ UNCHANGED <<inThread, ownLoops>>
       ELSE /\ ownLoops < MaxOwnLoops
            /\ ownLoops' = ownLoops + 1
            /\ inThread' = [inThread EXCEPT ![Owner] = TRUE]
            /\ UNCHANGED opc
    /\ UNCHANGED <<vars, loopSet, tpc>>

\* ... and destroy it.
DestroyOwnLoop ==
    /\ opc \in {"new", "started", "gone"}
    /\ stage[Owner] = "idle"
    /\ ownLoops > 0
    /\ ownLoops' = ownLoops - 1
    /\ inThread' = [inThread EXCEPT ![Owner] = FALSE]
    /\ UNCHANGED <<vars, loopSet, tpc, opc>>

\* Calls into the loop: by the init callback or by code the loop runs, and by
\* other threads between startLoop's return and the destructor.
UseLoop(t) ==
    /\ IF IsInLoopThread(t)
       THEN tpc = "built" \/ (tpc = "published" /\ pc # "init")
       ELSE opc = "started"
    /\ Call(t)
    /\ UNCHANGED threadVars

FinishCall(t) == (QueueWakeup(t) \/ QuitWakeup(t)) /\ UNCHANGED threadVars

-----------------------------------------------------------------------------
ThreadFunc == Construct \/ Publish \/ ThreadExit
OwnerStep == StartLoopReturn \/ BeginJoin \/ Join \/ Reset

ThreadNext ==
    /\ opc # "aborted"
    /\ \/ ThreadFunc \/ RunLoop
       \/ OwnerStep \/ StartLoop \/ Destroy \/ BuildOwnLoop \/ DestroyOwnLoop
       \/ \E t \in AllThreads : UseLoop(t) \/ FinishCall(t)

(***************************************************************************)
(* Fairness.  User code (callbacks, functors) returns, so the loop thread  *)
(* keeps taking steps; a thread inside queueInLoop or quit finishes the    *)
(* call; epoll_wait returns when the eventfd is readable; the thread       *)
(* function and the owner's waits make progress when they can.  Nobody has *)
(* to call anything, and other channels need never become ready.  The poll *)
(* timeout is left out on purpose: a lost wakeup must not be excused by    *)
(* the next timeout.                                                       *)
(***************************************************************************)
ThreadFairness ==
    /\ WF_allVars(opc # "aborted" /\ ThreadFunc)
    /\ WF_allVars(opc # "aborted" /\ RunLoop /\ (pc # "poll" \/ evfd > 0))
    /\ WF_allVars(opc # "aborted" /\ OwnerStep)
    /\ \A t \in AllThreads : WF_allVars(opc # "aborted" /\ FinishCall(t))

ThreadSpec == ThreadInit /\ [][ThreadNext]_allVars /\ ThreadFairness

\* With the poll timeout: the loop never sleeps for good.
TimeoutSpec == ThreadSpec /\ WF_allVars(opc # "aborted" /\ RunLoop)

-----------------------------------------------------------------------------
(* Properties.                                                             *)

\* Where the two threads are while the loop is lent, and when it is destroyed.
Lent ==
    /\ opc \in {"started", "quitting", "joining"}
         => tpc \in {"published", "exited"} /\ loopSet
    /\ tpc \in {"built", "published"} => opc \notin {"joined", "gone"}

\* Everything keeps its type, and the loop handed out by startLoop is ready for
\* use: constructed, its init callback finished, and alive until the destructor
\* has joined its thread (startLoop against threadFunc, and _loop.reset() against
\* loop()).
LentLoopAlive == ThreadTypeOK /\ Lent

\* The strengthening that makes it inductive: where each of the two threads
\* can be, given the place of the other.
LifeInv ==
    /\ Lent
    /\ loopSet => tpc \in {"published", "exited"}
    /\ opc = "new" => tpc = "off" /\ ~loopSet
    /\ opc = "joined" => tpc = "exited"
    /\ opc = "gone" => tpc \in {"off", "exited"}

\* A functor queued while the loop runs is executed without the help of a poll
\* timeout, unless the loop quits first (or the process aborts).
QueuedRuns ==
    \A f \in Funcs :
        f \in Range(pendingFuncs) /\ f \notin early
            ~> f \in Range(executed) \/ pc = "done" \/ opc = "aborted"

\* If the quit of the destructor is still in force once loop() has begun, the
\* destructor returns.
LiveQuitJoins == opc = "quitting" /\ quit /\ pc # "init" ~> opc = "gone"

\* The destructor returns, as a test that destroys an EventLoopThread right
\* after startLoop() takes for granted.
DestructorReturns == opc = "quitting" ~> opc = "gone"
=============================================================================
