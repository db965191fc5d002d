----------------------- MODULE EventLoopThreadProofs -----------------------
(***************************************************************************)
(* Proofs about EventLoop and EventLoopThread, for every set of threads    *)
(* and functors.  First the loop: type correctness, no lost wakeup, no     *)
(* stranded quit, and the implementation of LoopExecutor (its safety part  *)
(* is all it has).  Then the thread: the composition only takes steps of   *)
(* EventLoop, and the loop it lends out is alive while it is lent.         *)
(***************************************************************************)
EXTENDS EventLoopThread, SequenceTheorems, TLAPS

-----------------------------------------------------------------------------
(* EventLoop.                                                              *)

\* What appending to a queue does to the set of its elements.
LEMMA RangeAppend ==
    ASSUME NEW S, NEW s \in Seq(S), NEW e \in S
    PROVE  Range(Append(s, e)) = Range(s) \cup {e}
<1>1. /\ DOMAIN s = 1..Len(s) /\ Len(s) \in Nat
      /\ DOMAIN Append(s, e) = 1..(Len(s) + 1)
      /\ Append(s, e)[Len(s) + 1] = e
      /\ \A i \in 1..Len(s) : Append(s, e)[i] = s[i]
  BY LenProperties, AppendProperties
<1>2. \A i \in 1..(Len(s) + 1) : i \in 1..Len(s) \/ i = Len(s) + 1
  BY <1>1
<1>3. Len(s) + 1 \in 1..(Len(s) + 1) /\ 1..Len(s) \subseteq 1..(Len(s) + 1)
  BY <1>1
<1> QED
  BY <1>1, <1>2, <1>3, Zenon DEF Range

\* The type invariant of EventLoop.
THEOREM TypeCorrect == Spec => []TypeOK
<1>1. Init => TypeOK
  <2>1. <<>> \in Seq(Funcs)
    BY EmptySeq
  <2>2. 0 \in 0..EvfdMax
    BY EvfdAssumption
  <2> QED
    BY <2>1, <2>2 DEF Init, TypeOK, Places, UserCode
<1>2. TypeOK /\ [Next]_vars => TypeOK'
  <2> SUFFICES ASSUME TypeOK, [Next]_vars PROVE TypeOK'
    OBVIOUS
  <2> USE EvfdAssumption DEF TypeOK, Places, UserCode
  <2>1. ASSUME NEW t \in AllThreads, NEW f \in Funcs, QueueInLoop(t, f)
        PROVE  TypeOK'
    BY <2>1 DEF QueueInLoop
  <2>2. ASSUME NEW t \in AllThreads, NEW f \in Funcs, RunInLoop(t, f)
        PROVE  TypeOK'
    BY <2>1, <2>2 DEF RunInLoop
  <2>3. ASSUME NEW t \in AllThreads, Quit(t) PROVE TypeOK'
    BY <2>3 DEF Quit
  <2>4. ASSUME NEW t \in AllThreads, QueueWakeup(t) PROVE TypeOK'
    BY <2>4 DEF QueueWakeup, Wakeup
  <2>5. ASSUME NEW t \in AllThreads, QuitWakeup(t) PROVE TypeOK'
    BY <2>5 DEF QuitWakeup, Wakeup
  <2>6. CASE EnterLoop
    BY <2>6 DEF EnterLoop
  <2>7. CASE CheckQuit
    BY <2>7 DEF CheckQuit
  <2>8. CASE PollReturn
    BY <2>8 DEF PollReturn
  <2>9. CASE HandleRead
    BY <2>9 DEF HandleRead
  <2>10. CASE HandleIo
    BY <2>10 DEF HandleIo
  <2>11. CASE HandleIoReturn
    BY <2>11 DEF HandleIoReturn
  <2>12. CASE BeginPending
    BY <2>12 DEF BeginPending
  <2>13. CASE SwapPending
    BY <2>13 DEF SwapPending
  <2>14. CASE CallFunc
    <3>1. Head(tmp) \in Funcs /\ Tail(tmp) \in Seq(Funcs)
      BY <2>14, HeadTailProperties DEF CallFunc
    <3> QED
      BY <2>14, <3>1 DEF CallFunc
  <2>15. CASE FuncReturn
    BY <2>15 DEF FuncReturn
  <2>16. CASE EndPending
    BY <2>16 DEF EndPending
  <2>17. CASE UNCHANGED vars
    BY <2>17 DEF vars
  <2> QED
    BY <2>1, <2>2, <2>3, <2>4, <2>5, <2>6, <2>7, <2>8, <2>9, <2>10, <2>11,
       <2>12, <2>13, <2>14, <2>15, <2>16, <2>17 DEF Next, LoopStep, Call
<1> QED
  BY <1>1, <1>2, PTL DEF Spec

\* WakeInv is an invariant: no step of the loop thread or of a caller, in any
\* order, leaves the loop asleep on work nobody will wake it for.
THEOREM WakeInvariant == Spec => []WakeInv
<1> USE EvfdAssumption, ThreadsAssumption DEF IsInLoopThread, AllThreads
<1>1. Init => WakeInv
  BY DEF Init, WakeInv, NoStrandedQuit, Range, UserCode
<1>2. TypeOK /\ WakeInv /\ [Next]_vars => WakeInv'
  <2> SUFFICES ASSUME TypeOK, WakeInv, [Next]_vars PROVE WakeInv'
    OBVIOUS
  <2> USE DEF WakeInv, NoStrandedQuit, TypeOK, UserCode
  <2>1. ASSUME NEW t \in AllThreads, NEW f \in Funcs, QueueInLoop(t, f)
        PROVE  WakeInv'
    <3>1. Range(pendingFuncs)' = Range(pendingFuncs) \cup {f}
      BY <2>1, RangeAppend DEF QueueInLoop
    <3>2. WakeupOwed => WakeupOwed'
      BY <2>1 DEF QueueInLoop, CanCall, WakeupOwed, Owes
    <3>3. t # LoopThread \/ pc = "func" => WakeupOwed'
      BY <2>1 DEF QueueInLoop, WakeupOwed, Owes
    <3>4. pc = "init" /\ t = LoopThread => f \in early' /\ early \subseteq early'
      BY <2>1 DEF QueueInLoop
    <3>5. t = LoopThread => pc \in UserCode
      BY <2>1 DEF QueueInLoop, CanCall
    <3> QED
      BY <2>1, <3>1, <3>2, <3>3, <3>4, <3>5 DEF QueueInLoop
  <2>2. ASSUME NEW t \in AllThreads, NEW f \in Funcs, RunInLoop(t, f)
        PROVE  WakeInv'
    <3>1. CASE t = LoopThread
      <4>1. WakeupOwed' <=> WakeupOwed
        BY <2>2, <3>1 DEF RunInLoop, WakeupOwed, Owes
      <4> QED
        BY <2>2, <3>1, <4>1 DEF RunInLoop
    <3> QED
      BY <2>1, <2>2, <3>1 DEF RunInLoop
  <2>3. ASSUME NEW t \in AllThreads, Quit(t) PROVE WakeInv'
    <3>1. WakeupOwed => WakeupOwed'
      BY <2>3 DEF Quit, CanCall, WakeupOwed, Owes
    <3>2. t # LoopThread => WakeupOwed'
      BY <2>3 DEF Quit, WakeupOwed, Owes
    <3> QED
      BY <2>3, <3>1, <3>2 DEF Quit, CanCall
  <2>4. ASSUME NEW t \in AllThreads, QueueWakeup(t) PROVE WakeInv'
    <3>1. CASE t # LoopThread \/ callingPendingFunc
      <4>1. evfd' > 0
        BY <2>4, <3>1 DEF QueueWakeup, Wakeup
      <4> QED
        BY <2>4, <4>1 DEF QueueWakeup, WakeupOwed
    <3>2. CASE t = LoopThread /\ ~callingPendingFunc
      <4>1. WakeupOwed' <=> WakeupOwed
        BY <2>4, <3>2 DEF QueueWakeup, WakeupOwed, Owes
      <4> QED
        BY <2>4, <3>2, <4>1 DEF QueueWakeup
    <3> QED
      BY <3>1, <3>2
  <2>5. ASSUME NEW t \in AllThreads, QuitWakeup(t) PROVE WakeInv'
    <3>1. evfd' > 0
      BY <2>5 DEF QuitWakeup, Wakeup
    <3> QED
      BY <2>5, <3>1 DEF QuitWakeup, WakeupOwed
  <2>6. CASE EnterLoop
    <3>1. WakeupOwed' <=> WakeupOwed
      BY <2>6 DEF EnterLoop, WakeupOwed, Owes
    <3> QED
      BY <2>6, <3>1 DEF EnterLoop, AtPlace
  <2>7. CASE CheckQuit
    <3>1. WakeupOwed' <=> WakeupOwed
      BY <2>7 DEF CheckQuit, WakeupOwed, Owes
    <3> QED
      BY <2>7, <3>1 DEF CheckQuit, AtPlace
  <2>8. CASE PollReturn
    BY <2>8 DEF PollReturn, AtPlace
  <2>9. CASE HandleRead
    BY <2>9 DEF HandleRead, AtPlace
  <2>10. CASE HandleIo
    BY <2>10 DEF HandleIo, AtPlace
  <2>11. CASE HandleIoReturn
    BY <2>11 DEF HandleIoReturn, AtPlace
  <2>12. CASE BeginPending
    BY <2>12 DEF BeginPending, AtPlace
  <2>13. CASE SwapPending
    <3>1. Range(pendingFuncs)' = {}
      BY <2>13 DEF SwapPending, Range
    <3> QED
      BY <2>13, <3>1 DEF SwapPending, AtPlace
  <2>14. CASE CallFunc
    <3>1. WakeupOwed' <=> WakeupOwed
      BY <2>14 DEF CallFunc, WakeupOwed, Owes
    <3> QED
      BY <2>14, <3>1 DEF CallFunc, AtPlace
  <2>15. CASE FuncReturn
    <3>1. WakeupOwed' <=> WakeupOwed
      BY <2>15 DEF FuncReturn, WakeupOwed, Owes
    <3> QED
      BY <2>15, <3>1 DEF FuncReturn, AtPlace
  <2>16. CASE EndPending
    <3>1. WakeupOwed' <=> WakeupOwed
      BY <2>16 DEF EndPending, AtPlace, WakeupOwed, Owes
    <3> QED
      BY <2>16, <3>1 DEF EndPending, AtPlace
  <2>17. CASE UNCHANGED vars
    <3>1. WakeupOwed' <=> WakeupOwed
      BY <2>17 DEF vars, WakeupOwed, Owes
    <3> QED
      BY <2>17, <3>1 DEF vars
  <2> QED
    BY <2>1, <2>2, <2>3, <2>4, <2>5, <2>6, <2>7, <2>8, <2>9, <2>10, <2>11,
       <2>12, <2>13, <2>14, <2>15, <2>16, <2>17 DEF Next, LoopStep, Call
<1> QED
  BY <1>1, <1>2, TypeCorrect, PTL DEF Spec

\* No lost wakeup (queueInLoop against handleRead and doPendingFuncs).
THEOREM NoLostWakeups == Spec => []NoLostWakeup
<1>1. WakeInv => NoLostWakeup
  BY DEF WakeInv, NoLostWakeup
<1> QED
  BY <1>1, WakeInvariant, PTL

\* No stranded quit (quit against the check of _quit before each poll).
THEOREM NoStrandedQuits == Spec => []NoStrandedQuit
<1>1. WakeInv => NoStrandedQuit
  BY DEF WakeInv
<1> QED
  BY <1>1, WakeInvariant, PTL

\* Appending to the back queue appends to the whole line.
LEMMA ConcatAppend ==
    ASSUME NEW S, NEW s \in Seq(S), NEW t \in Seq(S), NEW e \in S
    PROVE  s \o Append(t, e) = Append(s \o t, e)
<1>1. /\ s \o t \in Seq(S)
      /\ Append(t, e) = t \o <<e>>
      /\ Append(s \o t, e) = (s \o t) \o <<e>>
  BY ConcatProperties, AppendIsConcat
<1>2. (s \o t) \o <<e>> = s \o (t \o <<e>>)
  BY ConcatAssociative
<1> QED
  BY <1>1, <1>2

\* Taking the head of a non-empty front queue takes the head of the line.
LEMMA ConcatHeadTail ==
    ASSUME NEW S, NEW s \in Seq(S), NEW t \in Seq(S), s # <<>>
    PROVE  /\ s \o t # <<>>
           /\ Head(s \o t) = Head(s)
           /\ Tail(s \o t) = Tail(s) \o t
<1>1. /\ Len(s) \in Nat \ {0}
      /\ Len(t) \in Nat
      /\ s \o t \in Seq(S)
      /\ Len(s \o t) = Len(s) + Len(t)
      /\ \A i \in 1..(Len(s) + Len(t)) :
            (s \o t)[i] = IF i <= Len(s) THEN s[i] ELSE t[i - Len(s)]
  BY EmptySeq, LenProperties, ConcatProperties
<1>2. s \o t # <<>>
  BY <1>1
<1>3. Head(s \o t) = Head(s)
  BY <1>1, <1>2
<1>4. /\ Tail(s) \in Seq(S) /\ Len(Tail(s)) = Len(s) - 1
      /\ \A i \in 1..Len(Tail(s)) : Tail(s)[i] = s[i + 1]
  BY HeadTailProperties
<1>5. /\ Tail(s \o t) \in Seq(S) /\ Len(Tail(s \o t)) = Len(s) + Len(t) - 1
      /\ \A i \in 1..Len(Tail(s \o t)) : Tail(s \o t)[i] = (s \o t)[i + 1]
  BY <1>1, <1>2, HeadTailProperties
<1>6. /\ Tail(s) \o t \in Seq(S) /\ Len(Tail(s) \o t) = Len(s) - 1 + Len(t)
      /\ \A i \in 1..(Len(s) - 1 + Len(t)) :
            (Tail(s) \o t)[i] = IF i <= Len(s) - 1 THEN Tail(s)[i] ELSE t[i - (Len(s) - 1)]
  BY <1>1, <1>4, ConcatProperties
<1>7. Len(Tail(s \o t)) = Len(Tail(s) \o t)
  BY <1>1, <1>5, <1>6
<1>8. ASSUME NEW i \in 1..Len(Tail(s \o t)) PROVE Tail(s \o t)[i] = (Tail(s) \o t)[i]
  BY <1>1, <1>4, <1>5, <1>6
<1>9. Tail(s \o t) = Tail(s) \o t
  BY <1>5, <1>6, <1>7, <1>8, SeqEqual
<1> QED
  BY <1>2, <1>3, <1>9

\* EventLoop implements LoopExecutor: read as one line, the batch being run
\* followed by _pendingFuncs only ever grows at the back and shrinks at the
\* front, one started functor at a time.
THEOREM LoopImplementsExecutor == Spec => ImplementsExecutor
<1>1. Init => Executor!Init
  BY DEF Init, Executor!Init
<1>2. TypeOK /\ WakeInv /\ [Next]_vars => [Executor!Next]_(Executor!vars)
  <2> SUFFICES ASSUME TypeOK, WakeInv, [Next]_vars
               PROVE  [Executor!Next]_(Executor!vars)
    OBVIOUS
  <2> USE DEF Executor!vars, Executor!Next, TypeOK
  <2>1. ASSUME NEW t \in AllThreads, NEW f \in Funcs, QueueInLoop(t, f)
        PROVE  Executor!Next
    <3>1. (tmp \o pendingFuncs)' = Append(tmp \o pendingFuncs, f)
      BY <2>1, ConcatAppend DEF QueueInLoop
    <3>2. Executor!Accept(f)
      BY <2>1, <3>1 DEF QueueInLoop, Executor!Accept
    <3> QED
      BY <3>2
  <2>2. ASSUME NEW t \in AllThreads, NEW f \in Funcs, RunInLoop(t, f)
        PROVE  [Executor!Next]_(Executor!vars)
    BY <2>1, <2>2 DEF RunInLoop
  <2>3. ASSUME NEW t \in AllThreads, Quit(t) \/ QueueWakeup(t) \/ QuitWakeup(t)
        PROVE  UNCHANGED Executor!vars
    BY <2>3 DEF Quit, QueueWakeup, QuitWakeup
  <2>4. CASE SwapPending
    <3>1. tmp = <<>>
      BY <2>4 DEF SwapPending, AtPlace, WakeInv
    <3>2. (tmp \o pendingFuncs)' = tmp \o pendingFuncs
      BY <2>4, <3>1, ConcatEmptySeq DEF SwapPending
    <3> QED
      BY <2>4, <3>2 DEF SwapPending
  <2>5. CASE CallFunc
    <3>1. /\ tmp \o pendingFuncs # <<>>
          /\ Head(tmp \o pendingFuncs) = Head(tmp)
          /\ Tail(tmp \o pendingFuncs) = (tmp \o pendingFuncs)'
      BY ZenonT(30), <2>5, ConcatHeadTail DEF CallFunc
    <3>2. Executor!Run
      BY <2>5, <3>1 DEF CallFunc, Executor!Run
    <3> QED
      BY <3>2
  <2>6. CASE EnterLoop \/ CheckQuit \/ PollReturn \/ HandleRead \/ HandleIo
             \/ HandleIoReturn \/ BeginPending \/ FuncReturn \/ EndPending
    BY <2>6 DEF EnterLoop, CheckQuit, PollReturn, HandleRead, HandleIo,
                HandleIoReturn, BeginPending, FuncReturn, EndPending
  <2>7. CASE UNCHANGED vars
    BY <2>7 DEF vars
  <2> QED
    BY <2>1, <2>2, <2>3, <2>4, <2>5, <2>6, <2>7 DEF Next, LoopStep, Call
<1> QED
  BY <1>1, <1>2, TypeCorrect, WakeInvariant, PTL
     DEF Spec, ImplementsExecutor, Executor!Spec

-----------------------------------------------------------------------------
(* EventLoopThread.                                                        *)

\* Every behaviour of an EventLoopThread is, seen from its loop, a behaviour
\* of EventLoop.
THEOREM ThreadImplementsEventLoop == ThreadSpec => Spec
<1>1. ThreadInit => Init
  BY DEF ThreadInit
<1>2. [ThreadNext]_allVars => [Next]_vars
  <2> SUFFICES ASSUME [ThreadNext]_allVars PROVE [Next]_vars
    OBVIOUS
  <2>1. CASE ThreadFunc
    BY <2>1 DEF ThreadFunc, Construct, Publish, ThreadExit
  <2>2. CASE RunLoop
    BY <2>2 DEF RunLoop, Next
  <2>3. CASE OwnerStep \/ StartLoop \/ BuildOwnLoop \/ DestroyOwnLoop
    BY <2>3 DEF OwnerStep, StartLoop, BuildOwnLoop, DestroyOwnLoop,
                StartLoopReturn, BeginJoin, Join, Reset
  <2>4. CASE Destroy
    <3>1. Quit(Owner) => Next
      BY OwnerAssumption DEF Next, Call, AllThreads
    <3> QED
      BY <2>4, <3>1 DEF Destroy
  <2>5. CASE \E t \in AllThreads : UseLoop(t) \/ FinishCall(t)
    BY <2>5 DEF UseLoop, FinishCall, Next
  <2>6. CASE UNCHANGED allVars
    BY <2>6 DEF allVars
  <2> QED
    BY <2>1, <2>2, <2>3, <2>4, <2>5, <2>6 DEF ThreadNext
<1> QED
  BY <1>1, <1>2, PTL DEF ThreadSpec, Spec

\* So what holds of a loop holds of one that was lent out: no wakeup is lost ...
THEOREM LentLoopWakes == ThreadSpec => []NoLostWakeup
BY ThreadImplementsEventLoop, NoLostWakeups, PTL

\* ... and functors run once each, in the order of their acceptance.
THEOREM LentLoopImplementsExecutor == ThreadSpec => ImplementsExecutor
BY ThreadImplementsEventLoop, LoopImplementsExecutor, PTL

\* Every variable of the composition keeps its type; of the loops an owner has
\* in its thread there are never more than it may have.
THEOREM ThreadTypeCorrect == ThreadSpec => []ThreadTypeOK
<1> DEFINE Rest == /\ loopSet \in BOOLEAN
                   /\ tpc \in {"off", "up", "built", "published", "exited"}
                   /\ opc \in {"new", "waiting", "started", "quitting", "joining", "joined",
                               "gone", "aborted"}
                   /\ inThread \in [{Owner, LoopThread} -> BOOLEAN]
                   /\ ownLoops \in 0..MaxOwnLoops
<1>1. ThreadInit => Rest
  <2> SUFFICES ASSUME ThreadInit PROVE Rest
    OBVIOUS
  <2>1. ownLoops \in 0..MaxOwnLoops
    BY MaxOwnLoopsAssumption DEF ThreadInit
  <2>2. inThread \in [{Owner, LoopThread} -> BOOLEAN]
    BY DEF ThreadInit
  <2> QED
    BY <2>1, <2>2 DEF ThreadInit
<1>2. Rest /\ [ThreadNext]_allVars => Rest'
  <2> SUFFICES ASSUME Rest, [ThreadNext]_allVars PROVE Rest'
    OBVIOUS
  <2> USE MaxOwnLoopsAssumption
  <2>1. CASE ThreadFunc
    BY <2>1 DEF ThreadFunc, Construct, Publish, ThreadExit
  <2>2. CASE RunLoop
    BY <2>2 DEF RunLoop, threadVars
  <2>3. CASE OwnerStep
    BY <2>3 DEF OwnerStep, StartLoopReturn, BeginJoin, Join, Reset
  <2>4. CASE StartLoop \/ Destroy
    BY <2>4 DEF StartLoop, Destroy
  <2>5. CASE BuildOwnLoop
    <3>1. CASE inThread[Owner]
      BY <2>5, <3>1 DEF BuildOwnLoop
    <3>2. CASE ~inThread[Owner]
      <4>1. ownLoops' \in 0..MaxOwnLoops
        BY <2>5, <3>2 DEF BuildOwnLoop
      <4>2. inThread' \in [{Owner, LoopThread} -> BOOLEAN]
        BY <2>5, <3>2 DEF BuildOwnLoop
      <4> QED
        BY <2>5, <3>2, <4>1, <4>2 DEF BuildOwnLoop
    <3> QED
      BY <3>1, <3>2
  <2>6. CASE DestroyOwnLoop
    BY <2>6 DEF DestroyOwnLoop
  <2>7. CASE \E t \in AllThreads : UseLoop(t) \/ FinishCall(t)
    BY <2>7 DEF UseLoop, FinishCall, threadVars
  <2>8. CASE UNCHANGED allVars
    BY <2>8 DEF allVars, threadVars
  <2> QED
    BY <2>1, <2>2, <2>3, <2>4, <2>5, <2>6, <2>7, <2>8 DEF ThreadNext
<1>3. TypeOK /\ Rest => ThreadTypeOK
  BY DEF ThreadTypeOK
<1> HIDE DEF Rest
<1> QED
  BY <1>1, <1>2, <1>3, ThreadImplementsEventLoop, TypeCorrect, PTL DEF ThreadSpec

\* The life cycle invariant: startLoop against threadFunc, and the destructor
\* against loop().
THEOREM LifeInvariant == ThreadSpec => []LifeInv
<1>1. ThreadInit => LifeInv
  BY DEF ThreadInit, LifeInv, Lent
<1>2. LifeInv /\ [ThreadNext]_allVars => LifeInv'
  <2> SUFFICES ASSUME LifeInv, [ThreadNext]_allVars PROVE LifeInv'
    OBVIOUS
  <2> USE DEF LifeInv, Lent
  <2>1. CASE ThreadFunc
    BY <2>1 DEF ThreadFunc, Construct, Publish, ThreadExit
  <2>2. CASE RunLoop
    BY <2>2 DEF RunLoop, threadVars
  <2>3. CASE OwnerStep
    BY <2>3 DEF OwnerStep, StartLoopReturn, BeginJoin, Join, Reset
  <2>4. CASE StartLoop \/ BuildOwnLoop \/ DestroyOwnLoop \/ Destroy
    BY <2>4 DEF StartLoop, BuildOwnLoop, DestroyOwnLoop, Destroy
  <2>5. CASE \E t \in AllThreads : UseLoop(t) \/ FinishCall(t)
    BY <2>5 DEF UseLoop, FinishCall, threadVars
  <2>6. CASE UNCHANGED allVars
    BY <2>6 DEF allVars, threadVars
  <2> QED
    BY <2>1, <2>2, <2>3, <2>4, <2>5, <2>6 DEF ThreadNext
<1> QED
  BY <1>1, <1>2, PTL DEF ThreadSpec

\* A lent loop is ready and alive.
THEOREM LentLoopIsAlive == ThreadSpec => []LentLoopAlive
<1>1. LifeInv /\ ThreadTypeOK => LentLoopAlive
  BY DEF LifeInv, LentLoopAlive
<1> QED
  BY <1>1, LifeInvariant, ThreadTypeCorrect, PTL
=============================================================================
