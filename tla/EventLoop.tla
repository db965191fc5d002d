----------------------------- MODULE EventLoop -----------------------------
(***************************************************************************)
(* EventLoop (src/net/event_loop.cpp): one thread runs loop(), every       *)
(* thread may call queueInLoop, runInLoop and quit.                        *)
(*                                                                         *)
(* The loop thread sleeps in epoll_wait; what wakes it is the readiness of *)
(* a channel, and the channel of the eventfd is how other threads reach    *)
(* it.  The hard part is the order of three unsynchronised steps: a caller *)
(* appends to _pendingFuncs under the mutex and writes the eventfd after   *)
(* unlocking it; the loop drains the eventfd in one step and takes the     *)
(* queue in another.                                                       *)
(*                                                                         *)
(* A functor is a model value submitted once.  Channels other than the     *)
(* eventfd's are one abstract "io" channel whose user callback may call    *)
(* back into the loop.                                                     *)
(***************************************************************************)
EXTENDS Naturals, Sequences, Functions

CONSTANTS
    Threads,            \* threads other than the loop's own
    LoopThread,         \* the thread that constructed the loop (_threadId)
    Funcs,              \* functors
    EvfdMax             \* largest value of the eventfd counter (2^64 - 2)

ASSUME ThreadsAssumption == LoopThread \notin Threads
ASSUME EvfdAssumption == EvfdMax \in Nat \ {0}

VARIABLES
    pc,                 \* where the loop thread is
    quit,               \* _quit
    callingPendingFunc, \* _callingPendingFunc
    pendingFuncs,       \* _pendingFuncs
    tmp,                \* doPendingFuncs: what is left of tmp_func
    evfd,               \* counter of the eventfd behind _wakeupFd
    active,             \* _activeChannels not handled yet
    stage,              \* per thread: the call into the loop it is inside of
    executed,           \* history: queued functors started, in order
    direct,             \* history: functors runInLoop called directly
    early               \* history: queued by the loop thread before loop()

vars == <<pc, quit, callingPendingFunc, pendingFuncs, tmp, evfd, active,
          stage, executed, direct, early>>

AllThreads == Threads \cup {LoopThread}

(***************************************************************************)
(* Places of the loop thread:                                              *)
(*   init    constructed, loop() not entered (thread initialisation code)  *)
(*   check   at `while(!_quit)'           poll    inside _poller->poll     *)
(*   events  in the loop over _activeChannels                              *)
(*   event   inside the callback of the "io" channel                       *)
(*   swap    _callingPendingFunc set, before tmp_func.swap                 *)
(*   for     between two functors         func    inside a functor         *)
(*   done    loop() returned                                               *)
(***************************************************************************)
UserCode == {"init", "event", "func"}
Places == UserCode \cup {"check", "poll", "events", "swap", "for", "done"}

Submitted == Range(executed) \cup Range(tmp) \cup Range(pendingFuncs) \cup direct

TypeOK ==
    /\ pc \in Places
    /\ quit \in BOOLEAN
    /\ callingPendingFunc \in BOOLEAN
    /\ pendingFuncs \in Seq(Funcs)
    /\ tmp \in Seq(Funcs)
    /\ evfd \in 0..EvfdMax
    /\ active \subseteq {"wakeup", "io"}
    /\ stage \in [AllThreads -> {"idle", "queued", "quit"}]
    /\ executed \in Seq(Funcs)
    /\ direct \subseteq Funcs
    /\ early \subseteq Funcs

Init ==
    /\ pc = "init"
    /\ quit = TRUE
    /\ callingPendingFunc = FALSE
    /\ pendingFuncs = <<>>
    /\ tmp = <<>>
    /\ evfd = 0
    /\ active = {}
    /\ stage = [t \in AllThreads |-> "idle"]
    /\ executed = <<>>
    /\ direct = {}
    /\ early = {}

-----------------------------------------------------------------------------
(* Calls into the loop, from any thread.                                   *)

\* isInLoopThread(), for a call made by thread t.
IsInLoopThread(t) == t = LoopThread

\* Thread t can make a call now: the loop thread only from user code.
CanCall(t) ==
    /\ stage[t] = "idle"
    /\ IsInLoopThread(t) => pc \in UserCode

\* The write to the eventfd: it adds one, or fails with EAGAIN (which is only
\* logged) when the counter is at its maximum.
Wakeup == evfd' = IF evfd < EvfdMax THEN evfd + 1 ELSE evfd

\* queueInLoop up to lock.unlock().
QueueInLoop(t, f) ==
    /\ CanCall(t)
    /\ f \notin Submitted
    /\ pendingFuncs' = Append(pendingFuncs, f)
    /\ stage' = [stage EXCEPT ![t] = "queued"]
    /\ early' = IF pc = "init" /\ IsInLoopThread(t) THEN early \cup {f} ELSE early
    /\ UNCHANGED <<pc, quit, callingPendingFunc, tmp, evfd, active, executed, direct>>

\* Mutants of QueueWakeup: the wakeup omitted while functors run; a wakeup
\* given only when the queue was empty before.
QueueWakeupIgnoresCalling(t) ==
    /\ stage[t] = "queued"
    /\ IF ~IsInLoopThread(t) THEN Wakeup ELSE UNCHANGED evfd
    /\ stage' = [stage EXCEPT ![t] = "idle"]
    /\ UNCHANGED <<pc, quit, callingPendingFunc, pendingFuncs, tmp, active,
                   executed, direct, early>>

QueueWakeupOnlyFirst(t) ==
    /\ stage[t] = "queued"
    /\ IF Len(pendingFuncs) <= 1 /\ (~IsInLoopThread(t) \/ callingPendingFunc)
       THEN Wakeup ELSE UNCHANGED evfd
    /\ stage' = [stage EXCEPT ![t] = "idle"]
    /\ UNCHANGED <<pc, quit, callingPendingFunc, pendingFuncs, tmp, active,
                   executed, direct, early>>

\* The rest of queueInLoop.
QueueWakeup(t) ==
    /\ stage[t] = "queued"
    /\ IF ~IsInLoopThread(t) \/ callingPendingFunc THEN Wakeup ELSE UNCHANGED evfd
    /\ stage' = [stage EXCEPT ![t] = "idle"]
    /\ UNCHANGED <<pc, quit, callingPendingFunc, pendingFuncs, tmp, active,
                   executed, direct, early>>

\* runInLoop: a direct call on the loop thread, queueInLoop elsewhere.
RunInLoop(t, f) ==
    IF IsInLoopThread(t)
    THEN /\ CanCall(t)
         /\ f \notin Submitted
         /\ direct' = direct \cup {f}
         /\ UNCHANGED <<pc, quit, callingPendingFunc, pendingFuncs, tmp, evfd,
                        active, stage, executed, early>>
    ELSE QueueInLoop(t, f)

\* quit(): the store, and for another thread the wakeup that follows it.
Quit(t) ==
    /\ CanCall(t)
    /\ quit' = TRUE
    /\ stage' = IF IsInLoopThread(t) THEN stage ELSE [stage EXCEPT ![t] = "quit"]
    /\ UNCHANGED <<pc, callingPendingFunc, pendingFuncs, tmp, evfd, active,
                   executed, direct, early>>

\* Mutant of QuitWakeup: the wakeup forgotten.
QuitWakeupForgotten(t) ==
    /\ stage[t] = "quit"
    /\ stage' = [stage EXCEPT ![t] = "idle"]
    /\ UNCHANGED <<pc, quit, callingPendingFunc, pendingFuncs, tmp, evfd,
                   active, executed, direct, early>>

QuitWakeup(t) ==
    /\ stage[t] = "quit"
    /\ Wakeup
    /\ stage' = [stage EXCEPT ![t] = "idle"]
    /\ UNCHANGED <<pc, quit, callingPendingFunc, pendingFuncs, tmp, active,
                   executed, direct, early>>

Call(t) ==
    \/ \E f \in Funcs : QueueInLoop(t, f) \/ RunInLoop(t, f)
    \/ Quit(t)

-----------------------------------------------------------------------------
(* The loop thread.                                                        *)

\* The loop thread takes a step of its own, not inside a call it made.
AtPlace(p) == pc = p /\ stage[LoopThread] = "idle"

\* loop() starts: _quit is cleared, whatever it was.
EnterLoop ==
    /\ AtPlace("init")
    /\ quit' = FALSE
    /\ pc' = "check"
    /\ UNCHANGED <<callingPendingFunc, pendingFuncs, tmp, evfd, active, stage,
                   executed, direct, early>>

\* while(!_quit)
CheckQuit ==
    /\ AtPlace("check")
    /\ pc' = IF quit THEN "done" ELSE "poll"
    /\ UNCHANGED <<quit, callingPendingFunc, pendingFuncs, tmp, evfd, active,
                   stage, executed, direct, early>>

\* epoll_wait returns with channels that are ready, or with none (the 10 s
\* timeout, a signal).  The eventfd may be missing from a full event array.
PollReturn ==
    /\ AtPlace("poll")
    /\ pc' = "events"
    /\ active' \in SUBSET {"wakeup", "io"}
    /\ "wakeup" \in active' => evfd > 0
    /\ UNCHANGED <<quit, callingPendingFunc, pendingFuncs, tmp, evfd, stage,
                   executed, direct, early>>

\* The wakeup channel's handler: the read returns the counter and zeroes it.
HandleRead ==
    /\ AtPlace("events")
    /\ "wakeup" \in active
    /\ evfd' = 0
    /\ active' = active \ {"wakeup"}
    /\ UNCHANGED <<pc, quit, callingPendingFunc, pendingFuncs, tmp, stage,
                   executed, direct, early>>

\* Any other channel's handler: user code, which may call into the loop.
HandleIo ==
    /\ AtPlace("events")
    /\ "io" \in active
    /\ pc' = "event"
    /\ active' = active \ {"io"}
    /\ UNCHANGED <<quit, callingPendingFunc, pendingFuncs, tmp, evfd, stage,
                   executed, direct, early>>

HandleIoReturn ==
    /\ AtPlace("event")
    /\ pc' = "events"
    /\ UNCHANGED <<quit, callingPendingFunc, pendingFuncs, tmp, evfd, active,
                   stage, executed, direct, early>>

\* doPendingFuncs, first statement.
BeginPending ==
    /\ AtPlace("events")
    /\ active = {}
    /\ callingPendingFunc' = TRUE
    /\ pc' = "swap"
    /\ UNCHANGED <<quit, pendingFuncs, tmp, evfd, active, stage, executed,
                   direct, early>>

\* tmp_func.swap(_pendingFuncs) under the mutex.
SwapPending ==
    /\ AtPlace("swap")
    /\ tmp' = pendingFuncs
    /\ pendingFuncs' = <<>>
    /\ pc' = "for"
    /\ UNCHANGED <<quit, callingPendingFunc, evfd, active, stage, executed,
                   direct, early>>

\* Mutant of CallFunc: the batch run from its back.
CallFuncLast ==
    /\ AtPlace("for")
    /\ tmp # <<>>
    /\ executed' = Append(executed, tmp[Len(tmp)])
    /\ tmp' = SubSeq(tmp, 1, Len(tmp) - 1)
    /\ pc' = "func"
    /\ UNCHANGED <<quit, callingPendingFunc, pendingFuncs, evfd, active, stage,
                   direct, early>>

\* The next functor of the batch is called ...
CallFunc ==
    /\ AtPlace("for")
    /\ tmp # <<>>
    /\ executed' = Append(executed, Head(tmp))
    /\ tmp' = Tail(tmp)
    /\ pc' = "func"
    /\ UNCHANGED <<quit, callingPendingFunc, pendingFuncs, evfd, active, stage,
                   direct, early>>

\* ... and returns.
FuncReturn ==
    /\ AtPlace("func")
    /\ pc' = "for"
    /\ UNCHANGED <<quit, callingPendingFunc, pendingFuncs, tmp, evfd, active,
                   stage, executed, direct, early>>

\* The batch is over.
EndPending ==
    /\ AtPlace("for")
    /\ tmp = <<>>
    /\ callingPendingFunc' = FALSE
    /\ pc' = "check"
    /\ UNCHANGED <<quit, pendingFuncs, tmp, evfd, active, stage, executed,
                   direct, early>>

\* The loop thread's steps that do not wait for anything but its own code.
LoopStep ==
    \/ EnterLoop \/ CheckQuit
    \/ HandleRead \/ HandleIo \/ HandleIoReturn
    \/ BeginPending \/ SwapPending \/ CallFunc \/ FuncReturn \/ EndPending

Next ==
    \/ LoopStep
    \/ PollReturn
    \/ \E t \in AllThreads : Call(t) \/ QueueWakeup(t) \/ QuitWakeup(t)

\* Fairness is a matter of the threads: see EventLoopThread.
Spec == Init /\ [][Next]_vars

-----------------------------------------------------------------------------
(* Properties.                                                             *)

\* Thread t is inside a call that is going to write the eventfd.
Owes(t) == \/ stage[t] = "quit"
           \/ stage[t] = "queued" /\ (~IsInLoopThread(t) \/ callingPendingFunc)

\* Some wakeup is in the eventfd or about to be written to it.
WakeupOwed == evfd > 0 \/ \E t \in AllThreads : Owes(t)

\* No lost wakeup (queueInLoop against handleRead and doPendingFuncs): the
\* loop never sleeps in poll on a functor unless a wakeup is due, except on
\* functors its own thread queued before loop() began.
NoLostWakeup ==
    pc = "poll" /\ ~WakeupOwed => Range(pendingFuncs) \subseteq early

\* No stranded quit: once loop() has begun, the loop never sleeps in poll with
\* _quit set unless a wakeup is due.
NoStrandedQuit == pc = "poll" /\ quit => WakeupOwed

\* The strengthening that makes the two inductive: the flag and the batch
\* follow the place of the loop thread, and outside the part of an iteration
\* that ends in a swap a functor is early or a wakeup for it is due.
WakeInv ==
    /\ callingPendingFunc <=> pc \in {"swap", "for", "func"}
    /\ pc \notin {"for", "func"} => tmp = <<>>
    /\ stage[LoopThread] = "idle" \/ (stage[LoopThread] = "queued" /\ pc \in UserCode)
    /\ pc \in {"init", "check", "poll", "for", "func"} /\ ~WakeupOwed
         => Range(pendingFuncs) \subseteq early
    /\ NoStrandedQuit

\* Implementation of the abstract executor: the two queues read back to back
\* are the line of accepted functors; each runs once, in order of acceptance.
Executor == INSTANCE LoopExecutor WITH todo <- tmp \o pendingFuncs, ran <- executed
ImplementsExecutor == Executor!Spec
=============================================================================
