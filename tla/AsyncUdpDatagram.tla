-------------------------- MODULE AsyncUdpDatagram --------------------------
(***************************************************************************)
(* AsyncUdpDatagram (src/net/async_udp_datagram.cpp): a UDP socket on an   *)
(* event loop, with a queue of datagrams the socket did not take, graceful *)
(* and forced closing, callbacks that may call back into it, and shared    *)
(* ownership by its user, by queued functors and by the event in progress. *)
(*                                                                         *)
(* What is on the loop thread's stack is in `stack', innermost last:       *)
(*   "event"     Channel::handleEvent      "functors"  doPendingFuncs      *)
(*   "write"     handleWrite, in its loop                                  *)
(*   "message", "error", "complete"        a user callback                 *)
(* A user may call the datagram from a callback, from other code of the    *)
(* loop thread (an empty stack) and from other threads.                    *)
(***************************************************************************)
EXTENDS Channel, Integers, FiniteSets, SequencesExt

CONSTANTS
    MaxSends,           \* bound on calls of send
    MaxQueue,           \* bound on functors queued by other threads
    MaxDepth            \* bound on the depth of the stack; an error callback of
                        \* handleWrite is at 3, deeper ones are of nested sends

ASSUME UdpAssumption ==
    MaxSends \in Nat /\ MaxQueue \in Nat /\ MaxDepth \in Nat \ 0..2

VARIABLES
    d,                  \* the datagram, a record of Datagrams
    userRef,            \* the user holds its AsyncUdpDatagramPtr
    sends,              \* calls of send made
    queue,              \* _pendingFuncs of the loop, those of this datagram
    batch,              \* doPendingFuncs: tmp_func
    next,               \* the functor of batch that comes next
    stack,              \* what runs on the loop thread
    active,             \* the channel waits in _activeChannels
    revents             \* Channel::_revents, those not yet handled

vars == <<d, userRef, sends, queue, batch, next, stack, active, revents>>

Calls == {"start", "send", "close", "forceClose"}
Callbacks == {"message", "error", "complete"}
Functors == Calls \cup {"complete", "destroy"}

(***************************************************************************)
(* state    state_              removed  channel_removed_                  *)
(* pending  pending_datagrams_, each datagram the number sendInLoop gave   *)
(*          it                                                             *)
(* taken    history: datagrams sendInLoop took                             *)
(* sent     history: those the socket took, in order                       *)
(* forced   history: forceCloseInLoop ran                                  *)
(* lost     history: datagrams thrown away by clear()                      *)
(* alive    not deleted        undefined  undefined behaviour was met      *)
(***************************************************************************)
Datagrams ==
    [state : {"kNew", "kActive", "kClosing", "kClosed"},
     index : Indices, reading : BOOLEAN, writing : BOOLEAN,
     removed : BOOLEAN, pending : Seq(1..MaxSends), taken : 0..MaxSends,
     sent : Seq(1..MaxSends), forced : BOOLEAN, lost : SUBSET (1..MaxSends),
     alive : BOOLEAN, undefined : BOOLEAN]

UdpTypeOK ==
    /\ d \in Datagrams
    /\ userRef \in BOOLEAN
    /\ sends \in 0..MaxSends
    /\ queue \in Seq(Functors) /\ batch \in Seq(Functors)
    /\ next \in 1..(Len(batch) + 1)
    /\ stack \in Seq(Callbacks \cup {"event", "functors", "write"})
    /\ Len(stack) <= MaxDepth
    /\ active \in BOOLEAN
    /\ revents \subseteq {"error", "read", "write"}

Init ==
    /\ d = [state |-> "kNew", index |-> "new", reading |-> FALSE, writing |-> FALSE,
            removed |-> FALSE, pending |-> <<>>, taken |-> 0, sent |-> <<>>,
            forced |-> FALSE, lost |-> {}, alive |-> TRUE, undefined |-> FALSE]
    /\ userRef = TRUE
    /\ sends = 0
    /\ queue = <<>> /\ batch = <<>> /\ next = 1
    /\ stack = <<>>
    /\ active = FALSE /\ revents = {}

-----------------------------------------------------------------------------
(* The operations that run on the loop thread, as functions of d.          *)

StartInLoop(k) ==
    IF k.state # "kNew" THEN k ELSE EnableReading([k EXCEPT !.state = "kActive"])

\* Mutant of RemoveChannelInLoop: the channel quiet, but left in the poller.
RemoveChannelInLoopKeeps(k) ==
    IF k.state = "kClosed" THEN k
    ELSE [(IF ~k.removed /\ k.index # "new" THEN DisableAll(k) ELSE k)
            EXCEPT !.removed = TRUE, !.lost = @ \cup ToSet(k.pending),
                   !.pending = <<>>, !.state = "kClosed"]

RemoveChannelInLoop(k) ==
    IF k.state = "kClosed" THEN k
    ELSE [(IF ~k.removed /\ k.index # "new" THEN RemoveChannel(DisableAll(k)) ELSE k)
            EXCEPT !.removed = TRUE, !.lost = @ \cup ToSet(k.pending),
                   !.pending = <<>>, !.state = "kClosed"]

ForceCloseInLoop(k) ==
    IF k.state = "kClosed" THEN k
    ELSE RemoveChannelInLoop([k EXCEPT !.forced = TRUE, !.pending = <<>>,
                                       !.lost = @ \cup ToSet(k.pending)])

\* Mutant of CloseInLoop: what is pending does not hold it up.
CloseInLoopNow(k) ==
    IF k.state \in {"kClosed", "kClosing"} THEN k
    ELSE RemoveChannelInLoop([k EXCEPT !.state = "kClosing"])

CloseInLoop(k) ==
    IF k.state \in {"kClosed", "kClosing"} THEN k
    ELSE IF ~k.removed /\ k.writing /\ k.pending # <<>>
         THEN DisableReading([k EXCEPT !.state = "kClosing"])
         ELSE RemoveChannelInLoop([k EXCEPT !.state = "kClosing"])

\* sendInLoop tries the socket itself only past all earlier datagrams.
SendsDirectly(k) == ~k.writing /\ k.pending = <<>>

\* What ::sendto does: takes the datagram, EAGAIN, or fails (a short write is
\* handled as a failure).
Results == {"taken", "again", "fail"}

\* Mutants of SendInLoop: a datagram that overtakes the pending ones; a pending
\* datagram without the interest in writing.
SendInLoopOvertakes(k, r) ==
    LET n == k.taken + 1 IN
    IF k.state # "kActive" THEN k
    ELSE IF r = "taken" THEN [k EXCEPT !.taken = n, !.sent = Append(@, n)]
    ELSE IF r = "fail" THEN k
    ELSE LET s == [k EXCEPT !.taken = n, !.pending = Append(@, n)]
         IN  IF k.writing THEN s ELSE EnableWriting(s)
SendInLoopSilent(k, r) ==
    LET n == k.taken + 1 IN
    IF k.state # "kActive" \/ (SendsDirectly(k) /\ r = "fail") THEN k
    ELSE IF SendsDirectly(k) /\ r = "taken"
         THEN [k EXCEPT !.taken = n, !.sent = Append(@, n)]
    ELSE [k EXCEPT !.taken = n, !.pending = Append(@, n)]

\* sendInLoop, r being what a direct ::sendto does: a datagram is dropped when
\* the state is not kActive or the socket fails; what the socket does not take
\* now is queued, and the interest in writing raised.
SendInLoop(k, r) ==
    LET n == k.taken + 1 IN
    IF k.state # "kActive" \/ (SendsDirectly(k) /\ r = "fail") THEN k
    ELSE IF SendsDirectly(k) /\ r = "taken"
         THEN [k EXCEPT !.taken = n, !.sent = Append(@, n)]
    ELSE LET s == [k EXCEPT !.taken = n, !.pending = Append(@, n)]
         IN  IF k.writing THEN s ELSE EnableWriting(s)

\* notifyError is called, and queueWriteCompleteCallback.
SendFails(k, r) == k.state = "kActive" /\ SendsDirectly(k) /\ r = "fail"
SendCompletes(k, r) == k.state = "kActive" /\ SendsDirectly(k) /\ r = "taken"

\* Mutant of Drained: a close that waits for the queue is forgotten.
DrainedForgets(k) == DisableWriting(k)

\* handleWrite past its loop: a close that waits for the queue is carried out.
Drained(k) ==
    IF k.state = "kClosing" THEN RemoveChannelInLoop(DisableWriting(k))
    ELSE DisableWriting(k)

\* Mutant of DestroyInLoop: deleted as it is.
DestroyInLoopOpen(k) == [k EXCEPT !.alive = FALSE]

DestroyInLoop(k) == [ForceCloseInLoop(k) EXCEPT !.alive = FALSE]

-----------------------------------------------------------------------------
(* Ownership.                                                              *)

\* Mutant of Strong: the functors of calls capture a bare `this'.
StrongNone(fs) == FALSE

\* Functors of calls hold the datagram (shared_from_this), the write-complete
\* functor only a weak_ptr, the one Destroy queues a plain pointer.
Strong(fs) == \E i \in DOMAIN fs : fs[i] \in Calls

\* Some shared_ptr keeps the datagram: the user's, a queued functor's, that of
\* a functor of the batch (they go with the whole batch), the guard of
\* handleEvent, or what the write-complete functor locked.
Held(ref, q, b, stk) ==
    ref \/ Strong(q) \/ Strong(b) \/ "event" \in ToSet(stk) \/ "complete" \in ToSet(stk)

\* Mutant of DropRef: deleted also where the last reference went before, and
\* Destroy has left the work to a functor.
DropRefAgain(k, was, is) == IF ~is THEN DestroyInLoop(k) ELSE k

\* The loop thread lets go of references; was and is: held before, held after.
\* Destroy, the deleter, runs once, when the last reference goes.
DropRef(k, was, is) == IF was /\ ~is THEN DestroyInLoop(k) ELSE k

-----------------------------------------------------------------------------
(* Calls of the user.                                                      *)

Running == ~d.undefined

\* What runs on the loop thread: the innermost frame, or code of other parts.
Top(stk) == IF stk = <<>> THEN "other" ELSE Last(stk)

\* User code runs on the loop thread.
UserCode == Top(stack) \in Callbacks \cup {"other"}

\* start, close, forceClose on the loop thread: each ends in the function of
\* its name, whose test of state_ includes that of the call itself.
LoopCall(op) ==
    /\ Running /\ UserCode /\ userRef
    /\ \/ op = "start" /\ d' = StartInLoop(d)
       \/ op = "close" /\ d' = CloseInLoop(d)
       \/ op = "forceClose" /\ d' = ForceCloseInLoop(d)
    /\ UNCHANGED <<userRef, sends, queue, batch, next, stack, active, revents>>

\* sendInLoop on the loop thread; a failure calls the error callback.
DoSend(r) ==
    /\ SendFails(d, r) => Len(stack) < MaxDepth
    /\ d' = SendInLoop(d, r)
    /\ queue' = IF SendCompletes(d, r) THEN Append(queue, "complete") ELSE queue
    /\ stack' = IF SendFails(d, r) THEN Append(stack, "error") ELSE stack

LoopSend(r) ==
    /\ Running /\ UserCode /\ userRef /\ sends < MaxSends
    /\ sends' = sends + 1
    /\ DoSend(r)
    /\ UNCHANGED <<userRef, batch, next, active, revents>>

\* The same calls from another thread: state_ is read there, and a functor that
\* holds the datagram is queued.
Passes(op) ==
    CASE op = "start" -> d.state = "kNew"
      [] op = "send" -> d.state = "kActive"
      [] op = "close" -> d.state \notin {"kClosed", "kClosing"}
      [] op = "forceClose" -> d.state # "kClosed"

ForeignCall(op) ==
    /\ Running /\ userRef /\ Len(queue) < MaxQueue
    /\ Passes(op)
    /\ sends' = IF op = "send" THEN sends + 1 ELSE sends
    /\ sends' <= MaxSends
    /\ queue' = Append(queue, op)
    /\ UNCHANGED <<d, userRef, batch, next, stack, active, revents>>

\* The user lets go of its pointer: on the loop thread, unless that pointer is
\* what a call in progress was made through ...
LoopRelease ==
    /\ Running /\ UserCode /\ userRef
    /\ stack # <<>> => Head(stack) \in {"event", "functors"}
    /\ userRef' = FALSE
    /\ d' = DropRef(d, TRUE, Held(FALSE, queue, batch, stack))
    /\ UNCHANGED <<sends, queue, batch, next, stack, active, revents>>

\* ... or on another, where Destroy leaves the work to the loop unless the
\* datagram is closed or was never started.
ForeignRelease ==
    /\ Running /\ userRef
    /\ stack # <<>> => Head(stack) \in {"event", "functors"}
    /\ userRef' = FALSE
    /\ IF Held(FALSE, queue, batch, stack) THEN UNCHANGED <<d, queue>>
       ELSE IF d.state \in {"kNew", "kClosed"}
            THEN d' = DestroyInLoop(d) /\ UNCHANGED queue
            ELSE queue' = Append(queue, "destroy") /\ UNCHANGED d
    /\ UNCHANGED <<sends, batch, next, stack, active, revents>>

-----------------------------------------------------------------------------
(* The loop: queued functors.                                              *)

\* doPendingFuncs, after the channels of this turn.
TakeFunctors ==
    /\ Running /\ stack = <<>> /\ ~active /\ queue # <<>>
    /\ batch' = queue /\ next' = 1
    /\ queue' = <<>>
    /\ stack' = <<"functors">>
    /\ UNCHANGED <<d, userRef, sends, active, revents>>

\* One functor; of the write-complete functor, the lock and the test of state_.
RunFunctor(r) ==
    /\ Running /\ stack = <<"functors">> /\ next <= Len(batch)
    /\ next' = next + 1
    /\ LET f == batch[next] IN
         \/ f = "start" /\ d' = StartInLoop(d) /\ UNCHANGED <<queue, stack>>
         \/ f = "close" /\ d' = CloseInLoop(d) /\ UNCHANGED <<queue, stack>>
         \/ f = "forceClose" /\ d' = ForceCloseInLoop(d) /\ UNCHANGED <<queue, stack>>
         \/ f = "destroy" /\ d' = DestroyInLoop(d) /\ UNCHANGED <<queue, stack>>
         \/ f = "send" /\ DoSend(r)
         \/ /\ f = "complete"
            /\ stack' = IF d.alive /\ Held(userRef, queue, batch, stack) /\ d.state = "kActive"
                        THEN Append(stack, "complete") ELSE stack
            /\ UNCHANGED <<d, queue>>
    /\ UNCHANGED <<userRef, sends, batch, active, revents>>

\* tmp_func goes, and with it the references its functors hold.
EndBatch ==
    /\ Running /\ stack = <<"functors">> /\ next > Len(batch)
    /\ batch' = <<>> /\ next' = 1
    /\ stack' = <<>>
    /\ d' = DropRef(d, Held(userRef, queue, batch, stack), Held(userRef, queue, <<>>, <<>>))
    /\ UNCHANGED <<userRef, sends, queue, active, revents>>

-----------------------------------------------------------------------------
(* The loop: events.                                                       *)

\* poll puts the channel, with what happened, among the active ones.
Poll(evs) ==
    /\ Running /\ stack = <<>> /\ ~active /\ d.index = "added"
    /\ evs # {}
    /\ "read" \in evs => d.reading
    /\ "write" \in evs => d.writing
    /\ active' = TRUE /\ revents' = evs
    /\ UNCHANGED <<d, userRef, sends, queue, batch, next, stack>>

\* The loop comes to the channel.  Its pointer dangles if the datagram was
\* deleted since poll; otherwise handleEvent locks the tie, or returns.
HandleEvent ==
    /\ Running /\ stack = <<>> /\ active
    /\ active' = FALSE
    /\ IF ~d.alive
       THEN d' = [d EXCEPT !.undefined = TRUE] /\ UNCHANGED <<stack, revents>>
       ELSE IF Held(userRef, queue, batch, stack)
            THEN stack' = <<"event">> /\ UNCHANGED <<d, revents>>
            ELSE revents' = {} /\ UNCHANGED <<d, stack>>
    /\ UNCHANGED <<userRef, sends, queue, batch, next>>

\* handleEventWithGuard: errors first, then reading, then writing.
HandleError ==
    /\ Running /\ stack = <<"event">> /\ "error" \in revents
    /\ revents' = revents \ {"error"}
    /\ stack' = Append(stack, "error")
    /\ UNCHANGED <<d, userRef, sends, queue, batch, next, active>>

\* recvFrom gives a datagram, or fails.
HandleRead(ok) ==
    /\ Running /\ stack = <<"event">> /\ "error" \notin revents /\ "read" \in revents
    /\ revents' = revents \ {"read"}
    /\ stack' = IF d.state = "kActive" /\ ok THEN Append(stack, "message") ELSE stack
    /\ UNCHANGED <<d, userRef, sends, queue, batch, next, active>>

HandleWrite ==
    /\ Running /\ stack = <<"event">> /\ revents = {"write"}
    /\ revents' = {}
    /\ stack' = IF d.state \in {"kActive", "kClosing"} /\ d.writing
                THEN Append(stack, "write") ELSE stack
    /\ UNCHANGED <<d, userRef, sends, queue, batch, next, active>>

\* One turn of handleWrite's loop: the first pending datagram is taken, put off,
\* or failed, in which case it is dropped once the error callback returns.
WriteOne(r) ==
    /\ Running /\ Top(stack) = "write" /\ d.pending # <<>>
    /\ \/ /\ r = "taken"
          /\ d' = [d EXCEPT !.sent = Append(@, Head(d.pending)), !.pending = Tail(@)]
          /\ UNCHANGED stack
       \/ r = "again" /\ stack' = Front(stack) /\ UNCHANGED d
       \/ r = "fail" /\ stack' = Append(stack, "error") /\ UNCHANGED d
    /\ UNCHANGED <<userRef, sends, queue, batch, next, active, revents>>

WriteDone ==
    /\ Running /\ Top(stack) = "write" /\ d.pending = <<>>
    /\ d' = Drained(d)
    /\ queue' = Append(queue, "complete")
    /\ stack' = Front(stack)
    /\ UNCHANGED <<userRef, sends, batch, next, active, revents>>

\* A callback returns.  handleWrite goes on with pop_front, which is undefined
\* when the callback emptied the queue; the write-complete functor lets go of
\* what it locked.
CallbackReturn ==
    /\ Running /\ Top(stack) \in Callbacks
    /\ stack' = Front(stack)
    /\ d' = IF Top(stack') = "write"
            THEN IF d.pending = <<>> THEN [d EXCEPT !.undefined = TRUE]
                 ELSE [d EXCEPT !.pending = Tail(@)]
            ELSE IF Top(stack) = "complete" THEN DropRef(d, TRUE, Held(userRef, queue, batch, stack'))
            ELSE d
    /\ UNCHANGED <<userRef, sends, queue, batch, next, active, revents>>

EndEvent ==
    /\ Running /\ stack = <<"event">> /\ revents = {}
    /\ stack' = <<>>
    /\ d' = DropRef(d, TRUE, Held(userRef, queue, batch, <<>>))
    /\ UNCHANGED <<userRef, sends, queue, batch, next, active, revents>>

Loop ==
    \/ TakeFunctors \/ EndBatch \/ HandleEvent \/ HandleError
    \/ HandleWrite \/ WriteDone \/ CallbackReturn \/ EndEvent
    \/ \E r \in Results : RunFunctor(r) \/ WriteOne(r)
    \/ \E ok \in BOOLEAN : HandleRead(ok)

Next ==
    \/ \E op \in Calls \ {"send"} : LoopCall(op)
    \/ \E op \in Calls : ForeignCall(op)
    \/ \E r \in Results : LoopSend(r)
    \/ LoopRelease \/ ForeignRelease
    \/ \E evs \in SUBSET {"error", "read", "write"} : Poll(evs)
    \/ Loop

\* The loop thread goes on and callbacks return; every turn of the loop ends with
\* doPendingFuncs; the socket becomes writable again and again, and then takes a
\* datagram or fails it.
Fairness ==
    /\ WF_vars(Loop)
    /\ SF_vars(TakeFunctors)
    /\ SF_vars(\E evs \in SUBSET {"error", "read", "write"} : "write" \in evs /\ Poll(evs))
    /\ SF_vars(\E r \in {"taken", "fail"} : WriteOne(r))

Spec == Init /\ [][Next]_vars /\ Fairness

-----------------------------------------------------------------------------
(* Properties.                                                             *)

\* Everything keeps its type, and datagrams reach the socket, and wait in
\* pending_datagrams_, in the order sendInLoop took them, none twice: neither a
\* direct send nor a send from a callback of handleWrite overtakes what waits.
DatagramOrder ==
    /\ UdpTypeOK
    /\ LET all == d.sent \o d.pending IN
       \A i, j \in 1..Len(all) : i < j => all[i] < all[j]

\* Outside handlers, the interest in writing is raised exactly while datagrams
\* wait: otherwise one is stuck, or the loop spins on EPOLLOUT.
WritingIffPending == stack = <<>> => (d.writing <=> d.pending # <<>>)

\* A closed or deleted datagram has left the poller and waits for nothing, up
\* to the point where undefined behaviour was met.
ClosedIsUnregistered ==
    d.state = "kClosed" \/ ~d.alive =>
        d.index = "new" /\ ~d.reading /\ ~d.writing /\ d.pending = <<>>

\* close() waits for what is pending (the header calls it graceful): datagrams
\* are thrown away only by forceClose or destruction.
OnlyForceLoses == d.lost # {} => d.forced

\* A datagram is deleted once, and exactly when nothing refers to it any more:
\* it is alive as long as its user has it, a handler or a callback of its own
\* runs, a call of it is queued or in the batch that is being run, or its
\* deletion was left to a functor that is still to run; and no longer.
DeletedIffUnused ==
    d.alive <=> \/ userRef
                \/ ~(ToSet(stack) \subseteq {"functors"})
                \/ \E f \in Calls : f \in ToSet(queue) \cup ToSet(batch)
                \/ "destroy" \in ToSet(queue) \cup ToSet(SubSeq(batch, next, Len(batch)))

\* forceClose closes at once, throws away what is pending and takes the channel
\* out of the poller, as the header says of it, whatever calls it: handleWrite,
\* whose error callback did, finds nothing undefined to do when it goes on.
ForceCloseIsSafe == d.forced /\ Top(stack) = "write" => ~d.undefined

\* A graceful close completes once the socket takes what is pending.
CloseCompletes == d.state = "kClosing" ~> d.state = "kClosed"

-----------------------------------------------------------------------------
(* The inductive invariant behind the invariants.                          *)

\* state_ and the channel agree; what waits is waited for; only a forced close
\* threw datagrams away; what is deleted is closed.
Consistent(k) ==
    /\ k.removed <=> k.state = "kClosed"
    /\ k.state \in {"kNew", "kClosed"} =>
         k.index = "new" /\ ~k.reading /\ ~k.writing /\ k.pending = <<>>
    /\ k.state = "kActive" => k.index = "added" /\ k.reading
    /\ k.state = "kClosing" => k.index = "added" /\ ~k.reading /\ k.writing
    /\ k.pending # <<>> => k.writing
    /\ ~k.alive => k.state = "kClosed"
    /\ k.lost # {} => k.forced

\* What was sent, then what is pending, then what will be taken.
Increasing(s) == \A i, j \in 1..Len(s) : i < j => s[i] < s[j]
InOrder(k) ==
    /\ Increasing(k.sent) /\ Increasing(k.pending)
    /\ \A i \in 1..Len(k.sent) :
         k.sent[i] <= k.taken /\ \A j \in 1..Len(k.pending) : k.sent[i] < k.pending[j]
    /\ \A j \in 1..Len(k.pending) : k.pending[j] <= k.taken

\* Handlers nest one way only.
Nested(stk) ==
    \A i \in 1..Len(stk) :
        /\ stk[i] \in {"event", "functors"} => i = 1
        /\ stk[i] = "write" => i = 2 /\ stk[1] = "event"

\* While handleWrite drains the queue (and only then) the interest in writing
\* outlives what is pending.
WriteFrame ==
    /\ d.writing /\ d.pending = <<>> => Len(stack) >= 2 /\ stack[2] = "write"
    /\ Len(stack) = 2 /\ stack[2] = "write" /\ Running => d.writing

\* How many functors f of fs there are from the n-th on, and still to run.
From(fs, n, f) == {i \in n..Len(fs) : fs[i] = f}
Left(f) == Cardinality(From(queue, 1, f)) + Cardinality(From(batch, next, f))

\* No more datagrams are taken than sends were called: each call is still
\* queued at most once.
SendsAccounted == d.taken + Left("send") <= sends

\* A batch is run by doPendingFuncs.  A call of user code outside handlers is made
\* through the user's pointer, one inside a functor is kept by that functor or by
\* what it locked.
FramesHeld ==
    /\ batch # <<>> => stack # <<>> /\ stack[1] = "functors"
    /\ stack # <<>> /\ stack[1] \in Callbacks => userRef
    /\ Len(stack) >= 2 /\ stack[1] = "functors" => stack[2] = "complete" \/ Strong(batch)

\* A datagram that is held is alive, and nobody is to delete it; one that is
\* alive and not held has exactly one destroyInLoop to come; one that is
\* deleted is not held, and has none.
Ownership ==
    LET held == Held(userRef, queue, batch, stack) IN
    /\ held => d.alive
    /\ Left("destroy") = IF d.alive /\ ~held THEN 1 ELSE 0

UdpInv ==
    /\ UdpTypeOK
    /\ Consistent(d) /\ InOrder(d)
    /\ Nested(stack) /\ WriteFrame /\ SendsAccounted
    /\ FramesHeld /\ Ownership
=============================================================================
