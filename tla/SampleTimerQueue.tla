-------------------------- MODULE SampleTimerQueue --------------------------
(***************************************************************************)
(* SampleTimerQueue (src/net/sample_timer_queue.cpp) and Timer             *)
(* (src/net/timer.cpp): timers ordered by expiration, one timerfd armed    *)
(* for the earliest, and a handler that runs the batch of expired timers.  *)
(*                                                                         *)
(* Everything happens on the loop thread, but not in one piece: a timer    *)
(* callback may add and cancel timers of the batch it is part of, other    *)
(* threads' calls arrive through the loop's queue of functors, and the     *)
(* clock and the timerfd run on while callbacks run.                       *)
(*                                                                         *)
(* Timers are numbered in the order of their creation (sequence_).  Time   *)
(* is in units of a millisecond, from 1 to MaxTime.                        *)
(***************************************************************************)
EXTENDS Integers, Sequences

CONSTANTS
    MaxTimers,          \* bound on the timers ever created
    MaxTime,            \* bound on the clock
    Delays,             \* when a new timer is due, relative to now
    Intervals,          \* interval_ of a new timer, 0 for a one-shot timer
    MaxPending          \* bound on calls of other threads waiting for the loop

ASSUME TimerAssumption ==
    /\ MaxTimers \in Nat /\ MaxTime \in Nat \ {0} /\ MaxPending \in Nat
    /\ Delays \subseteq Int /\ Intervals \subseteq Nat

VARIABLES
    clock,              \* GetMonotonicMS()
    created,            \* timers made so far (s_createNum)
    expiration,         \* expiration_ of each timer
    interval,           \* interval_ of each timer
    timers,             \* _timers: pairs <<when, timer>>
    activeTimers,       \* _activeTimers
    cancelingTimers,    \* _cancelingTimers
    runningTimers,      \* _runningTimers
    fdAt,               \* when the timerfd will fire, 0 when disarmed
    fdReady,            \* the timerfd is readable
    pending,            \* queued calls of other threads, in order
    pc,                 \* "idle", "batch", "callback" or "abort" (failed assert)
    now,                \* handleRead: `now' of the batch
    expired,            \* handleRead: expired_timers
    todo,               \* those the for loop has not come to
    cur,                \* the timer whose callback runs, or 0
    canceled,           \* history: timers cancelInLoop was called for
    dead                \* history: those it unregistered or marked canceling

vars == <<clock, created, expiration, interval, timers, activeTimers,
          cancelingTimers, runningTimers, fdAt, fdReady, pending, pc, now,
          expired, todo, cur, canceled, dead>>

Timers == 1..MaxTimers
Made == 1..created
callingExpiredTimers == pc \in {"batch", "callback"}   \* _callingExipiredTimers

TypeOK ==
    /\ clock \in 1..MaxTime
    /\ created \in 0..MaxTimers
    /\ expiration \in [Timers -> Int]
    /\ interval \in [Timers -> Nat]
    /\ timers \subseteq (Int \X Timers)
    /\ activeTimers \subseteq Timers
    /\ cancelingTimers \subseteq Timers
    /\ runningTimers \subseteq Timers
    /\ fdAt \in Nat
    /\ fdReady \in BOOLEAN
    /\ pending \in Seq({"add", "cancel"} \X Timers)
    /\ pc \in {"idle", "batch", "callback", "abort"}
    /\ now \in 0..MaxTime
    /\ expired \subseteq Timers
    /\ todo \subseteq expired
    /\ cur \in 0..MaxTimers
    /\ canceled \subseteq Timers
    /\ dead \subseteq canceled

Init ==
    /\ clock = 1
    /\ created = 0
    /\ expiration = [t \in Timers |-> 0]
    /\ interval = [t \in Timers |-> 0]
    /\ timers = {} /\ activeTimers = {} /\ cancelingTimers = {} /\ runningTimers = {}
    /\ fdAt = 0 /\ fdReady = FALSE
    /\ pending = <<>>
    /\ pc = "idle"
    /\ now = 0 /\ expired = {} /\ todo = {} /\ cur = 0
    /\ canceled = {} /\ dead = {}

-----------------------------------------------------------------------------
(* The set of pending expirations and the timerfd.                         *)

\* WillExpiredTimerComparer, as "not after".
NotAfter(a, b) == a[1] < b[1] \/ (a[1] = b[1] /\ a[2] <= b[2])

\* _timers.begin(), of a set that is not empty.
Begin(ts) == CHOOSE a \in ts : \A b \in ts : NotAfter(a, b)

\* Mutants of ResetTimerFd: the time from now, unclamped; no clamp, so that a past
\* or present time disarms.
ResetTimerFdRelative(next) ==
    /\ fdAt' = next - clock
    /\ fdReady' = FALSE
ResetTimerFdUnclamped(next) ==
    /\ fdAt' = IF next > clock THEN next ELSE 0
    /\ fdReady' = FALSE

\* resetTimerFd: timerfd_settime replaces the old setting and clears an
\* expiration that was not read yet; HowManyFromNow clamps to the future.
ResetTimerFd(next) ==
    /\ fdAt' = IF next > clock THEN next ELSE clock + 1
    /\ fdReady' = FALSE

\* Mutant of AddTimerInLoop: the timerfd armed only for the first timer.
AddTimerInLoopFirstOnly(t, when) ==
    /\ activeTimers' = activeTimers \cup {t}
    /\ timers' = timers \cup {<<when, t>>}
    /\ IF timers = {} THEN ResetTimerFd(when) ELSE UNCHANGED <<fdAt, fdReady>>

\* addTimerInLoop with insert: register, and arm the timerfd if t comes first.
AddTimerInLoop(t, when) ==
    /\ activeTimers' = activeTimers \cup {t}
    /\ timers' = timers \cup {<<when, t>>}
    /\ IF timers = {} \/ when < Begin(timers)[1]
       THEN ResetTimerFd(when)
       ELSE UNCHANGED <<fdAt, fdReady>>

\* Mutant of CancelInLoop: the timer dropped from one of the two registers only.
CancelInLoopHalf(t) ==
    /\ canceled' = canceled \cup {t}
    /\ dead' = IF t \in activeTimers THEN dead \cup {t} ELSE dead
    /\ activeTimers' = activeTimers \ {t}
    /\ UNCHANGED <<timers, cancelingTimers, pc>>

\* cancelInLoop: unregister a timer that is counting; of one that is not, only
\* a member of the current batch can be marked, and the assertion aborts if it
\* is marked already.
CancelInLoop(t) ==
    /\ canceled' = canceled \cup {t}
    /\ \/ /\ t \in activeTimers
          /\ timers' = timers \ {<<expiration[t], t>>}
          /\ activeTimers' = activeTimers \ {t}
          /\ dead' = dead \cup {t}
          /\ UNCHANGED <<cancelingTimers, pc>>
       \/ /\ t \notin activeTimers /\ callingExpiredTimers /\ t \in cancelingTimers
          /\ pc' = "abort"
          /\ UNCHANGED <<timers, activeTimers, cancelingTimers, dead>>
       \/ /\ t \notin activeTimers /\ callingExpiredTimers /\ t \notin cancelingTimers
          /\ <<expiration[t], t>> \in timers \/ t \in runningTimers
          /\ cancelingTimers' = cancelingTimers \cup {t}
          /\ dead' = dead \cup {t}
          /\ UNCHANGED <<timers, activeTimers, pc>>
       \/ /\ t \notin activeTimers
          /\ callingExpiredTimers =>
               /\ t \notin cancelingTimers
               /\ <<expiration[t], t>> \notin timers /\ t \notin runningTimers
          /\ UNCHANGED <<timers, activeTimers, cancelingTimers, dead, pc>>

-----------------------------------------------------------------------------
(* Calls.                                                                  *)

\* A Timer object: due at clock + d, repeated every i if i > 0.
NewTimer(d, i) ==
    /\ created < MaxTimers
    /\ created' = created + 1
    /\ expiration' = [expiration EXCEPT ![created + 1] = clock + d]
    /\ interval' = [interval EXCEPT ![created + 1] = i]

\* User code on the loop thread calls addTimer: runInLoop runs it at once.
LoopAdd(d, i) ==
    /\ pc \in {"idle", "callback"}
    /\ NewTimer(d, i)
    /\ AddTimerInLoop(created + 1, clock + d)
    /\ UNCHANGED <<clock, cancelingTimers, runningTimers, pending, pc, now,
                   expired, todo, cur, canceled, dead>>

\* ... or cancel.
LoopCancel(t) ==
    /\ pc \in {"idle", "callback"}
    /\ t \in Made
    /\ CancelInLoop(t)
    /\ UNCHANGED <<clock, created, expiration, interval, runningTimers, fdAt,
                   fdReady, pending, now, expired, todo, cur>>

\* Another thread calls addTimer or cancel: queueInLoop.
ForeignAdd(d, i) ==
    /\ Len(pending) < MaxPending
    /\ NewTimer(d, i)
    /\ pending' = Append(pending, <<"add", created + 1>>)
    /\ pc # "abort"
    /\ UNCHANGED <<clock, timers, activeTimers, cancelingTimers, runningTimers,
                   fdAt, fdReady, pc, now, expired, todo, cur, canceled, dead>>

ForeignCancel(t) ==
    /\ Len(pending) < MaxPending
    /\ t \in Made
    /\ pending' = Append(pending, <<"cancel", t>>)
    /\ pc # "abort"
    /\ UNCHANGED <<clock, created, expiration, interval, timers, activeTimers,
                   cancelingTimers, runningTimers, fdAt, fdReady, pc, now,
                   expired, todo, cur, canceled, dead>>

\* The loop runs a queued call, between handlers.
RunPending ==
    /\ pc = "idle" /\ pending # <<>>
    /\ pending' = Tail(pending)
    /\ LET t == Head(pending)[2] IN
         \/ /\ Head(pending)[1] = "add"
            /\ AddTimerInLoop(t, expiration[t])
            /\ UNCHANGED <<cancelingTimers, pc, canceled, dead>>
         \/ /\ Head(pending)[1] = "cancel"
            /\ CancelInLoop(t)
            /\ UNCHANGED <<fdAt, fdReady>>
    /\ UNCHANGED <<clock, created, expiration, interval, runningTimers, now,
                   expired, todo, cur>>

-----------------------------------------------------------------------------
(* The clock and the handler of the timerfd.                               *)

\* Time passes, whatever the loop thread is doing; a one-shot timerfd fires.
Tick ==
    /\ clock < MaxTime /\ pc # "abort"
    /\ clock' = clock + 1
    /\ IF fdAt # 0 /\ fdAt <= clock + 1
       THEN fdAt' = 0 /\ fdReady' = TRUE
       ELSE UNCHANGED <<fdAt, fdReady>>
    /\ UNCHANGED <<created, expiration, interval, timers, activeTimers,
                   cancelingTimers, runningTimers, pending, pc, now, expired,
                   todo, cur, canceled, dead>>

\* Mutant of Due: a millisecond early.
DueEarly(a) == a[1] <= clock + 1

\* getExpired: what lower_bound of (now, the largest sequence) cuts off.
Due(a) == a[1] <= clock

\* handleRead up to the for loop: read the timerfd, and getExpired, which
\* leaves _runningTimers alone when nothing is due.
HandleRead ==
    /\ pc = "idle" /\ fdReady
    /\ LET due == {a \in timers : Due(a)}
           ids == {a[2] : a \in due}
       IN  /\ expired' = ids
           /\ todo' = ids
           /\ timers' = timers \ due
           /\ activeTimers' = activeTimers \ ids
           /\ runningTimers' = IF due = {} THEN runningTimers ELSE ids
    /\ fdReady' = FALSE
    /\ now' = clock
    /\ cancelingTimers' = {}
    /\ pc' = "batch"
    /\ UNCHANGED <<clock, created, expiration, interval, fdAt, pending, cur,
                   canceled, dead>>

\* The timer the for loop comes to: the batch is in the order of _timers.
NextInBatch ==
    CHOOSE t \in todo :
        \A u \in todo : NotAfter(<<expiration[t], t>>, <<expiration[u], u>>)

\* A timer cancelled by an earlier callback of the batch is skipped ...
SkipCanceled ==
    /\ pc = "batch" /\ todo # {}
    /\ NextInBatch \in cancelingTimers
    /\ todo' = todo \ {NextInBatch}
    /\ UNCHANGED <<clock, created, expiration, interval, timers, activeTimers,
                   cancelingTimers, runningTimers, fdAt, fdReady, pending, pc,
                   now, expired, cur, canceled, dead>>

\* ... and any other is run.
RunTimer ==
    /\ pc = "batch" /\ todo # {}
    /\ NextInBatch \notin cancelingTimers
    /\ cur' = NextInBatch
    /\ todo' = todo \ {NextInBatch}
    /\ pc' = "callback"
    /\ UNCHANGED <<clock, created, expiration, interval, timers, activeTimers,
                   cancelingTimers, runningTimers, fdAt, fdReady, pending, now,
                   expired, canceled, dead>>

TimerReturn ==
    /\ pc = "callback"
    /\ runningTimers' = runningTimers \ {cur}
    /\ cur' = 0
    /\ pc' = "batch"
    /\ UNCHANGED <<clock, created, expiration, interval, timers, activeTimers,
                   cancelingTimers, fdAt, fdReady, pending, now, expired, todo,
                   canceled, dead>>

\* Mutant of Again: cancelled or not.
AgainAll == {t \in expired : interval[t] > 0}

\* The timers of the batch that reset() starts again: repeated, not cancelled.
Again == {t \in expired \ cancelingTimers : interval[t] > 0}

\* The end of handleRead, reset() included: repeated timers that were not
\* cancelled start again from `now', and the timerfd is armed for the earliest
\* timer, if its expiration is positive.
Reset ==
    /\ pc = "batch" /\ todo = {}
    /\ expiration' = [t \in Timers |->
                        IF t \in Again THEN now + interval[t] ELSE expiration[t]]
    /\ activeTimers' = activeTimers \cup Again
    /\ LET after == timers \cup {<<now + interval[t], t>> : t \in Again}
       IN  /\ timers' = after
           /\ IF after # {} /\ Begin(after)[1] > 0
              THEN ResetTimerFd(Begin(after)[1])
              ELSE UNCHANGED <<fdAt, fdReady>>
    /\ expired' = {}
    /\ pc' = "idle"
    /\ UNCHANGED <<clock, created, interval, cancelingTimers, runningTimers,
                   pending, now, todo, cur, canceled, dead>>

Next ==
    \/ \E d \in Delays, i \in Intervals : LoopAdd(d, i) \/ ForeignAdd(d, i)
    \/ \E t \in Timers : LoopCancel(t) \/ ForeignCancel(t)
    \/ RunPending
    \/ Tick
    \/ HandleRead \/ SkipCanceled \/ RunTimer \/ TimerReturn \/ Reset

Spec == Init /\ [][Next]_vars

-----------------------------------------------------------------------------
(* Properties.                                                             *)

\* The two registers agree, as getExpired asserts before and after it splits
\* them: a timer is counting exactly if _timers holds it, under its current
\* expiration and nothing else; and what runs or waits to run in a batch is not
\* counting at the same time.
RegistersAgree ==
    /\ timers = {<<expiration[t], t>> : t \in activeTimers}
    /\ callingExpiredTimers => expired \cap activeTimers = {}

\* The timerfd never forgets a timer: between handlers, while some timer counts,
\* the timerfd is readable or will be by the time the earliest one is due (or
\* on the next tick, if that time has passed).
TimerFdArmed ==
    pc = "idle" /\ timers # {} =>
        \/ fdReady
        \/ fdAt # 0 /\ (fdAt <= Begin(timers)[1] \/ fdAt <= clock + 1)

\* A cancellation that found its timer (counting, in the batch, or running) is
\* final: the callback of that timer is not called again.
DeadTimersStayDead == [][cur' \in dead => cur' = cur]_vars

\* cancel() as the tests of the timer queue name it: a repeated timer cancelled
\* from a callback of the batch it expired in is not put back, so its callback
\* is not called again.
CancelIsFinal == [][cur' \in canceled => cur' = cur]_vars

\* No callback is called before its time, and none of a batch twice.
RunWhenDue ==
    [][cur' # cur /\ cur' # 0 =>
         /\ expiration[cur'] <= clock
         /\ cur' \in runningTimers /\ cur' \notin todo']_vars
-----------------------------------------------------------------------------
(* The inductive invariant behind the properties.                          *)

\* Nothing is known to the queue that was not made, and a timer whose add is
\* still queued is known to nobody else and is queued once.
QueuedAddsAreFresh ==
    /\ activeTimers \cup expired \cup runningTimers \cup canceled \subseteq Made
    /\ \A k \in DOMAIN pending : pending[k][2] \in Made
    /\ \A k \in DOMAIN pending : pending[k][1] = "add" =>
         /\ pending[k][2] \notin activeTimers \cup expired \cup runningTimers \cup dead
         /\ \A j \in DOMAIN pending :
               pending[j][1] = "add" /\ pending[j][2] = pending[k][2] => j = k

\* Where handleRead is: what it still has to run is due and in _runningTimers;
\* what is left over there was skipped, so it is dead.
BatchState ==
    /\ pc = "idle" => expired = {} /\ todo = {} /\ runningTimers \subseteq dead
    /\ pc \in {"idle", "batch"} => cur = 0
    /\ pc = "callback" => cur \in expired \ todo
    /\ callingExpiredTimers =>
         /\ todo \subseteq runningTimers
         /\ runningTimers \subseteq todo \cup {cur} \cup dead
         /\ \A t \in expired : expiration[t] <= clock

\* A dead timer does not count, and is marked if it is in the batch.
DeadAreOut ==
    /\ cancelingTimers \subseteq dead
    /\ dead \cap activeTimers = {}
    /\ callingExpiredTimers => dead \cap expired \subseteq cancelingTimers

\* The timerfd comes no later than every pending timer, between handlers; and
\* during a batch no later than every timer reset() would not arm it for.
FdCovers(ts) ==
    ts # {} =>
        \/ fdReady
        \/ fdAt # 0 /\ \A a \in ts : fdAt <= a[1] \/ fdAt <= clock + 1
FdArmed ==
    /\ pc = "idle" => FdCovers(timers)
    /\ callingExpiredTimers => FdCovers({a \in timers : a[1] <= 0})

TimerInv ==
    /\ TypeOK /\ RegistersAgree
    /\ QueuedAddsAreFresh /\ BatchState /\ DeadAreOut /\ FdArmed
=============================================================================
