----------------------- MODULE SampleTimerQueueProofs -----------------------
(***************************************************************************)
(* Proofs about SampleTimerQueue, for every number of timers, every clock  *)
(* bound, every delay (a time that has passed, too) and every interval.    *)
(***************************************************************************)
EXTENDS SampleTimerQueue, SequenceTheorems, WellFoundedInduction, TLAPS

-----------------------------------------------------------------------------
(* The order of the timers.                                                *)

\* A set of timers that is not empty has a first one in the order of _timers,
\* whatever the expirations are: NextInBatch and Begin are defined.
LEMMA FirstExists ==
    ASSUME NEW e \in [Timers -> Int], NEW T \in SUBSET Timers, T # {}
    PROVE  \E t \in T : \A u \in T : NotAfter(<<e[t], t>>, <<e[u], u>>)
<1> DEFINE HasFirst(S) == \E t \in S : \A u \in S : NotAfter(<<e[t], t>>, <<e[u], u>>)
           NoFirst(n) == \E S \in SUBSET (1..n) : S # {} /\ ~HasFirst(S)
           Bad == {n \in 0..MaxTimers : NoFirst(n)}
<1>1. SUFFICES ASSUME ~HasFirst(T) PROVE FALSE
  OBVIOUS
<1>2. MaxTimers \in Nat
  BY TimerAssumption
<1> HIDE DEF HasFirst
<1>3. NoFirst(MaxTimers)
  BY <1>1 DEF Timers
<1>4. \A n \in Nat : n > 0 /\ NoFirst(n) /\ n <= MaxTimers => NoFirst(n - 1)
  <2> SUFFICES ASSUME NEW m \in Nat, m > 0, m <= MaxTimers, NoFirst(m), ~NoFirst(m - 1)
               PROVE  FALSE
    OBVIOUS
  <2>1. PICK S \in SUBSET (1..m) : S # {} /\ ~HasFirst(S)
    OBVIOUS
  <2>2. m \in Timers
    BY <1>2 DEF Timers
  <2>3. (S \ {m}) \in SUBSET (1..(m - 1))
    <3>1. \A x \in 1..m : x # m => x \in 1..(m - 1)
      OBVIOUS
    <3> QED
      BY <3>1
  <2>4. S \ {m} = {} \/ HasFirst(S \ {m})
    BY <2>3
  <2>5. CASE S \ {m} = {}
    <3>1. S = {m} /\ e[m] \in Int
      BY <2>1, <2>2, <2>5
    <3>2. NotAfter(<<e[m], m>>, <<e[m], m>>)
      BY <3>1 DEF NotAfter
    <3> QED
      BY <3>1, <3>2, <2>1 DEF HasFirst
  <2>6. CASE HasFirst(S \ {m})
    <3>1. PICK t \in S \ {m} : \A u \in S \ {m} : NotAfter(<<e[t], t>>, <<e[u], u>>)
      BY <2>6 DEF HasFirst
    <3>2. S \subseteq Timers
      BY <1>2 DEF Timers
    <3>3. t \in 1..m /\ t # m /\ e[t] \in Int /\ e[m] \in Int
      BY <3>1, <3>2, <2>2
    <3>4. CASE e[t] <= e[m]
      <4>1. NotAfter(<<e[t], t>>, <<e[m], m>>)
        BY <3>3, <3>4 DEF NotAfter
      <4> QED
        BY <3>1, <4>1, <2>1 DEF HasFirst
    <3>5. CASE e[m] < e[t] /\ m \in S
      <4>1. \A u \in S \ {m} : e[u] \in Int /\ e[t] <= e[u]
        BY <3>1, <3>2, <3>3 DEF NotAfter
      <4>2. \A u \in S : NotAfter(<<e[m], m>>, <<e[u], u>>)
        BY <3>3, <3>5, <4>1 DEF NotAfter
      <4> QED
        BY <4>2, <3>5, <2>1 DEF HasFirst
    <3>6. CASE m \notin S
      <4>1. S \ {m} = S
        BY <3>6
      <4> QED
        BY <4>1, <2>1, <2>6
    <3> QED
      BY <3>3, <3>4, <3>5, <3>6
  <2> QED
    BY <2>4, <2>5, <2>6
<1>5. ~NoFirst(0)
  <2>1. 1..0 = {}
    OBVIOUS
  <2> QED
    BY <2>1
<1> HIDE DEF NoFirst
<1>6. Bad \subseteq Nat /\ MaxTimers \in Bad
  BY <1>2, <1>3
<1>7. PICK m \in Bad : \A k \in Bad : ~(<<k, m>> \in OpToRel(<, Nat))
  <2> HIDE DEF Bad
  <2>1. Bad # {}
    BY <1>6
  <2> QED
    BY <1>6, <2>1, NatLessThanWellFounded, WFMin
<1>8. \A k \in Bad : ~(k < m)
  <2> HIDE DEF Bad
  <2> QED
    BY <1>6, <1>7 DEF OpToRel
<1> QED
  BY <1>2, <1>4, <1>5, <1>8

\* _timers.begin() of the register of a set of timers is in the register, and
\* no later than any of it.
LEMMA BeginIsFirst ==
    ASSUME NEW e \in [Timers -> Int], NEW T \in SUBSET Timers, T # {},
           NEW ts, ts = {<<e[t], t>> : t \in T}
    PROVE  /\ Begin(ts) \in ts
           /\ \A a \in ts : Begin(ts)[1] \in Int /\ a[1] \in Int /\ Begin(ts)[1] <= a[1]
<1>1. PICK t \in T : \A u \in T : NotAfter(<<e[t], t>>, <<e[u], u>>)
  BY FirstExists
<1>2. <<e[t], t>> \in ts /\ \A b \in ts : NotAfter(<<e[t], t>>, b)
  BY <1>1
<1>3. Begin(ts) \in ts /\ \A b \in ts : NotAfter(Begin(ts), b)
  BY <1>2 DEF Begin
<1>4. \A a \in ts : a[1] \in Int
  OBVIOUS
<1> QED
  BY <1>3, <1>4 DEF NotAfter

\* The same of the register as it stands.
LEMMA BeginOfTimers ==
    ASSUME TypeOK, RegistersAgree, timers # {}
    PROVE  /\ Begin(timers) \in timers
           /\ \A a \in timers :
                Begin(timers)[1] \in Int /\ a[1] \in Int /\ Begin(timers)[1] <= a[1]
<1>1. expiration \in [Timers -> Int] /\ activeTimers \in SUBSET Timers
  BY DEF TypeOK
<1>2. timers = {<<expiration[t], t>> : t \in activeTimers}
  BY DEF RegistersAgree
<1>3. activeTimers # {}
  BY <1>2
<1> QED
  BY <1>1, <1>2, <1>3, BeginIsFirst, Zenon

\* The timer the for loop comes to is one of the batch.
LEMMA NextIsInBatch ==
    ASSUME TypeOK, todo # {}
    PROVE  NextInBatch \in todo
<1>1. expiration \in [Timers -> Int] /\ todo \in SUBSET Timers
  BY DEF TypeOK
<1>2. \E t \in todo : \A u \in todo :
        NotAfter(<<expiration[t], t>>, <<expiration[u], u>>)
  BY <1>1, FirstExists
<1> QED
  BY <1>2 DEF NextInBatch
-----------------------------------------------------------------------------
(* The two handlers that several actions share.                            *)

\* addTimerInLoop of a timer that is not counting registers it, and leaves the
\* timerfd set for the earliest.
LEMMA AddKeepsRegisters ==
    ASSUME TimerInv, NEW t \in Timers, t \notin activeTimers, NEW when \in Int,
           AddTimerInLoop(t, when), pc \in {"idle", "callback"},
           clock' = clock, pc' = pc, expiration' \in [Timers -> Int],
           expiration'[t] = when,
           \A u \in activeTimers : expiration'[u] = expiration[u]
    PROVE  /\ timers' = {<<expiration'[u], u>> : u \in activeTimers'}
           /\ timers' \subseteq (Int \X Timers) /\ activeTimers' \subseteq Timers
           /\ fdAt' \in Nat /\ fdReady' \in BOOLEAN
           /\ FdArmed'
<1> USE DEF TimerInv, TypeOK
<1>1. timers = {<<expiration[u], u>> : u \in activeTimers}
  BY DEF RegistersAgree
<1>2. activeTimers' = activeTimers \cup {t} /\ timers' = timers \cup {<<when, t>>}
  BY DEF AddTimerInLoop
<1>3. timers' = {<<expiration'[u], u>> : u \in activeTimers'}
  BY <1>1, <1>2, Zenon
<1>4. timers' \subseteq (Int \X Timers) /\ activeTimers' \subseteq Timers
  BY <1>2
<1>5. clock \in Nat /\ clock > 0 /\ fdAt \in Nat
  BY TimerAssumption
<1>6. CASE timers = {} \/ when < Begin(timers)[1]
  <2>1. ResetTimerFd(when)
    BY <1>6 DEF AddTimerInLoop
  <2>2. fdAt' \in Nat /\ fdAt' # 0 /\ ~fdReady' /\ fdReady' \in BOOLEAN
    <3>1. fdAt' \in Nat /\ fdAt' # 0
      BY <2>1, <1>5 DEF ResetTimerFd
    <3>2. ~fdReady' /\ fdReady' \in BOOLEAN
      BY <2>1 DEF ResetTimerFd
    <3> QED
      BY <3>1, <3>2
  <2>3. fdAt' = when \/ fdAt' = clock + 1
    BY <2>1 DEF ResetTimerFd
  <2>4. \A a \in timers' : a[1] \in Int /\ when <= a[1]
    <3>1. \A a \in timers : a[1] \in Int
      BY <1>1
    <3>2. timers # {} => \A a \in timers : when <= a[1]
      <4> HAVE timers # {}
      <4>1. \A a \in timers : Begin(timers)[1] \in Int /\ Begin(timers)[1] <= a[1]
        BY BeginOfTimers
      <4> QED
        BY SMTT(30), <1>6, <3>1, <4>1
    <3> QED
      BY SMTT(30), <1>2, <3>1, <3>2
  <2> QED
    BY <1>3, <1>4, <1>5, <2>2, <2>3, <2>4 DEF FdArmed, FdCovers
<1>7. CASE timers # {} /\ ~(when < Begin(timers)[1])
  <2>1. UNCHANGED <<fdAt, fdReady>>
    BY <1>7 DEF AddTimerInLoop
  <2>2. Begin(timers) \in timers /\ Begin(timers)[1] \in Int /\ Begin(timers)[1] <= when
    BY SMTT(30), <1>7, BeginOfTimers
  <2>3. FdArmed'
    <3>1. FdCovers(timers) => FdCovers(timers)'
      BY SMTT(30), <1>2, <1>5, <2>1, <2>2 DEF FdCovers
    <3>2. FdCovers({a \in timers : a[1] <= 0}) => FdCovers({a \in timers : a[1] <= 0})'
      <4>1. when <= 0 => Begin(timers) \in {a \in timers : a[1] <= 0}
        BY SMTT(30), <2>2
      <4>2. {a \in timers' : a[1] <= 0} =
              {a \in timers : a[1] <= 0} \cup (IF when <= 0 THEN {<<when, t>>} ELSE {})
        BY <1>2
      <4> QED
        BY SMTT(30), <4>1, <4>2, <1>5, <2>1, <2>2 DEF FdCovers
    <3> QED
      BY <3>1, <3>2 DEF FdArmed, callingExpiredTimers
  <2> QED
    BY <1>3, <1>4, <2>1, <2>3
<1> QED
  BY <1>6, <1>7

\* cancelInLoop keeps what it touches of the invariant, whether the timer
\* counts, is in the batch, or is neither.
LEMMA CancelKeeps ==
    ASSUME TimerInv, NEW t \in Made, CancelInLoop(t), pc \in {"idle", "callback"},
           UNCHANGED <<clock, created, expiration, interval, runningTimers, fdAt,
                       fdReady, now, expired, todo, cur>>
    PROVE  /\ RegistersAgree' /\ BatchState' /\ DeadAreOut' /\ FdArmed'
           /\ timers' \subseteq timers /\ activeTimers' \subseteq activeTimers
           /\ canceled' = canceled \cup {t}
           /\ dead' \subseteq canceled'
           /\ cancelingTimers' \subseteq Timers
           /\ pc' \in {"idle", "callback", "abort"}
           /\ dead' \subseteq dead \cup activeTimers \cup runningTimers
<1> USE DEF TimerInv, TypeOK
<1>1. timers = {<<expiration[u], u>> : u \in activeTimers}
  BY DEF RegistersAgree
<1>2. t \in Timers /\ canceled' = canceled \cup {t}
  BY TimerAssumption DEF CancelInLoop, Made, Timers
<1>3. CASE t \in activeTimers
  <2>1. /\ timers' = timers \ {<<expiration[t], t>>}
        /\ activeTimers' = activeTimers \ {t}
        /\ dead' = dead \cup {t}
        /\ UNCHANGED <<cancelingTimers, pc>>
    BY <1>3 DEF CancelInLoop
  <2>2. timers' = {<<expiration'[u], u>> : u \in activeTimers'}
    <3>1. \A u \in activeTimers : u # t => <<expiration[u], u>> # <<expiration[t], t>>
      OBVIOUS
    <3> QED
      BY <1>1, <1>3, <2>1, <3>1, Zenon
  <2>3. RegistersAgree'
    BY <2>1, <2>2 DEF RegistersAgree, callingExpiredTimers
  <2>4. BatchState'
    BY <2>1 DEF BatchState, callingExpiredTimers
  <2>5. DeadAreOut'
    BY <1>3, <2>1 DEF DeadAreOut, callingExpiredTimers, RegistersAgree
  <2>6. FdArmed'
    BY <2>1 DEF FdArmed, FdCovers, callingExpiredTimers
  <2> QED
    BY <1>2, <1>3, <2>1, <2>3, <2>4, <2>5, <2>6
<1>4. CASE t \notin activeTimers /\ callingExpiredTimers /\ t \in cancelingTimers
  <2>1. pc' = "abort" /\ UNCHANGED <<timers, activeTimers, cancelingTimers, dead>>
    BY <1>4 DEF CancelInLoop
  <2> QED
    BY <1>2, <2>1 DEF RegistersAgree, BatchState, DeadAreOut, FdArmed, callingExpiredTimers
<1>5. CASE t \notin activeTimers /\ callingExpiredTimers /\ t \notin cancelingTimers
  <2>0. <<expiration[t], t>> \notin timers
    BY <1>1, <1>5
  <2>1. CASE t \in runningTimers
    <3>1. /\ cancelingTimers' = cancelingTimers \cup {t}
          /\ dead' = dead \cup {t}
          /\ UNCHANGED <<timers, activeTimers, pc>>
      BY <1>5, <2>0, <2>1 DEF CancelInLoop
    <3> QED
      BY <1>2, <1>5, <2>1, <3>1
      DEF RegistersAgree, BatchState, DeadAreOut, FdArmed, FdCovers, callingExpiredTimers
  <2>2. CASE t \notin runningTimers
    <3>1. UNCHANGED <<timers, activeTimers, cancelingTimers, dead, pc>>
      BY <1>5, <2>0, <2>2 DEF CancelInLoop
    <3> QED
      BY <1>2, <3>1
      DEF RegistersAgree, BatchState, DeadAreOut, FdArmed, FdCovers, callingExpiredTimers
  <2> QED
    BY <2>1, <2>2
<1>6. CASE t \notin activeTimers /\ ~callingExpiredTimers
  <2>1. UNCHANGED <<timers, activeTimers, cancelingTimers, dead, pc>>
    BY <1>6 DEF CancelInLoop
  <2> QED
    BY <1>2, <2>1
    DEF RegistersAgree, BatchState, DeadAreOut, FdArmed, FdCovers, callingExpiredTimers
<1> QED
  BY <1>3, <1>4, <1>5, <1>6
-----------------------------------------------------------------------------
(* The queue of calls.                                                     *)

\* Appending to a sequence leaves its elements where they are.
LEMMA AppendElements ==
    ASSUME NEW S, NEW s \in Seq(S), NEW e \in S
    PROVE  /\ Append(s, e) \in Seq(S)
           /\ \A k \in DOMAIN Append(s, e) :
                \/ k \in DOMAIN s /\ Append(s, e)[k] = s[k]
                \/ k = Len(s) + 1 /\ k \notin DOMAIN s /\ Append(s, e)[k] = e
<1>1. /\ DOMAIN s = 1..Len(s) /\ Len(s) \in Nat
      /\ Append(s, e) \in Seq(S)
      /\ DOMAIN Append(s, e) = 1..(Len(s) + 1)
      /\ Append(s, e)[Len(s) + 1] = e
      /\ \A i \in 1..Len(s) : Append(s, e)[i] = s[i]
  BY LenProperties, AppendProperties
<1> QED
  BY <1>1

\* Taking the head of a sequence shifts the others by one.
LEMMA TailElements ==
    ASSUME NEW S, NEW s \in Seq(S), s # <<>>
    PROVE  /\ Tail(s) \in Seq(S)
           /\ 1 \in DOMAIN s /\ Head(s) = s[1] /\ Head(s) \in S
           /\ \A k \in DOMAIN Tail(s) :
                k \in Nat /\ k + 1 \in DOMAIN s /\ k + 1 # 1 /\ Tail(s)[k] = s[k + 1]
<1>1. /\ Len(s) \in Nat /\ Len(s) > 0 /\ DOMAIN s = 1..Len(s)
      /\ Tail(s) \in Seq(S) /\ Head(s) \in S /\ Head(s) = s[1]
      /\ Len(Tail(s)) = Len(s) - 1 /\ DOMAIN Tail(s) = 1..Len(Tail(s))
      /\ \A i \in 1..Len(Tail(s)) : Tail(s)[i] = s[i + 1]
  BY HeadTailProperties, LenProperties, EmptySeq
<1> QED
  BY <1>1

\* The queued calls stay as they should when a call is added for a timer that
\* is made, new if the call is an add.
LEMMA AppendKeepsFresh ==
    ASSUME TypeOK, QueuedAddsAreFresh, NEW op \in {"add", "cancel"}, NEW t \in Timers,
           pending' = Append(pending, <<op, t>>), created' \in Nat, t <= created',
           created <= created', op = "add" => t > created,
           UNCHANGED <<activeTimers, expired, runningTimers, canceled, dead>>
    PROVE  QueuedAddsAreFresh' /\ pending' \in Seq({"add", "cancel"} \X Timers)
<1>1. /\ pending' \in Seq({"add", "cancel"} \X Timers)
      /\ \A k \in DOMAIN pending' :
           \/ k \in DOMAIN pending /\ pending'[k] = pending[k]
           \/ k = Len(pending) + 1 /\ k \notin DOMAIN pending /\ pending'[k] = <<op, t>>
  <2> DEFINE S == {"add", "cancel"} \X Timers
  <2>1. pending \in Seq(S) /\ <<op, t>> \in S
    BY DEF TypeOK
  <2> HIDE DEF S
  <2>2. Append(pending, <<op, t>>) \in Seq(S)
    BY <2>1, AppendElements
  <2>3. \A k \in DOMAIN Append(pending, <<op, t>>) :
           \/ k \in DOMAIN pending /\ Append(pending, <<op, t>>)[k] = pending[k]
           \/ /\ k = Len(pending) + 1 /\ k \notin DOMAIN pending
              /\ Append(pending, <<op, t>>)[k] = <<op, t>>
    BY <2>1, AppendElements
  <2> QED
    BY <2>2, <2>3 DEF S
<1>2. Made \subseteq Made' /\ t \in Made' /\ (op = "add" => t \notin Made)
  BY TimerAssumption DEF TypeOK, Made, Timers
<1>3. dead \subseteq canceled
  BY DEF TypeOK
<1>4. (\A k \in DOMAIN pending : pending[k][2] \in Made)'
  BY <1>1, <1>2 DEF QueuedAddsAreFresh
<1>5. (activeTimers \cup expired \cup runningTimers \cup canceled \subseteq Made)'
  BY <1>2 DEF QueuedAddsAreFresh
<1>6. ASSUME NEW k \in DOMAIN pending', pending'[k][1] = "add"
      PROVE  /\ pending'[k][2] \notin activeTimers \cup expired \cup runningTimers \cup dead
             /\ \A j \in DOMAIN pending' :
                  pending'[j][1] = "add" /\ pending'[j][2] = pending'[k][2] => j = k
  BY <1>1, <1>2, <1>3, <1>6 DEF QueuedAddsAreFresh
<1> QED
  BY <1>1, <1>4, <1>5, <1>6 DEF QueuedAddsAreFresh
\* ... and when the loop takes the first one out, and registers its timer if
\* the call was an add.
LEMMA TailKeepsFresh ==
    ASSUME TypeOK, QueuedAddsAreFresh, pending # <<>>, pending' = Tail(pending),
           created' = created,
           (activeTimers \cup expired \cup runningTimers \cup canceled)' \subseteq Made,
           \A u \in (activeTimers \cup expired \cup runningTimers \cup dead)' :
             \/ u \in activeTimers \cup expired \cup runningTimers \cup dead
             \/ Head(pending)[1] = "add" /\ u = Head(pending)[2]
    PROVE  QueuedAddsAreFresh' /\ pending' \in Seq({"add", "cancel"} \X Timers)
<1>1. /\ pending' \in Seq({"add", "cancel"} \X Timers)
      /\ 1 \in DOMAIN pending /\ Head(pending) = pending[1]
      /\ \A k \in DOMAIN pending' :
           k + 1 \in DOMAIN pending /\ k + 1 # 1 /\ pending'[k] = pending[k + 1]
           /\ \A j \in DOMAIN pending' : j + 1 = k + 1 => j = k
  <2> DEFINE S == {"add", "cancel"} \X Timers
  <2>1. pending \in Seq(S)
    BY DEF TypeOK
  <2> HIDE DEF S
  <2>2. /\ Tail(pending) \in Seq(S)
        /\ 1 \in DOMAIN pending /\ Head(pending) = pending[1]
        /\ \A k \in DOMAIN Tail(pending) :
             /\ k \in Nat /\ k + 1 \in DOMAIN pending /\ k + 1 # 1
             /\ Tail(pending)[k] = pending[k + 1]
    BY <2>1, TailElements
  <2> QED
    BY <2>2 DEF S
<1>2. Made' = Made
  BY DEF Made
<1>3. (\A k \in DOMAIN pending : pending[k][2] \in Made)'
  BY <1>1, <1>2 DEF QueuedAddsAreFresh
<1>4. ASSUME NEW k \in DOMAIN pending', pending'[k][1] = "add"
      PROVE  /\ pending'[k][2] \notin (activeTimers \cup expired \cup runningTimers \cup dead)'
             /\ \A j \in DOMAIN pending' :
                  pending'[j][1] = "add" /\ pending'[j][2] = pending'[k][2] => j = k
  BY <1>1, <1>4 DEF QueuedAddsAreFresh
<1> QED
  BY <1>1, <1>2, <1>3, <1>4 DEF QueuedAddsAreFresh

-----------------------------------------------------------------------------
(* The steps.                                                              *)

\* addTimer on the loop thread, between handlers or from a timer's callback.
LEMMA LoopAddKeeps ==
    ASSUME TimerInv, NEW d \in Delays, NEW i \in Intervals, LoopAdd(d, i)
    PROVE  TimerInv'
<1> USE DEF TimerInv, LoopAdd, NewTimer
<1> DEFINE t == created + 1
<1>1. t \in Timers /\ t \notin Made /\ d \in Int /\ i \in Nat /\ clock + d \in Int
  BY TimerAssumption DEF TypeOK, Made, Timers
<1>2. /\ expiration' \in [Timers -> Int] /\ interval' \in [Timers -> Nat]
      /\ expiration'[t] = clock + d
      /\ \A u \in Made : expiration'[u] = expiration[u]
      /\ created' \in 0..MaxTimers
      /\ Made \subseteq Made' /\ t \in Made'
  BY <1>1, TimerAssumption DEF TypeOK, Made, Timers
<1> HIDE DEF t
<1>3. activeTimers' = activeTimers \cup {t} /\ AddTimerInLoop(t, clock + d)
  BY DEF AddTimerInLoop, t
<1>4. /\ t \notin activeTimers /\ activeTimers \subseteq Made /\ t \notin expired
      /\ t \notin dead /\ expired \subseteq Made
  BY <1>1 DEF QueuedAddsAreFresh, TypeOK
<1>5. /\ timers' = {<<expiration'[u], u>> : u \in activeTimers'}
      /\ timers' \subseteq (Int \X Timers) /\ activeTimers' \subseteq Timers
      /\ fdAt' \in Nat /\ fdReady' \in BOOLEAN
      /\ FdArmed'
  <2>1. \A u \in activeTimers : expiration'[u] = expiration[u]
    BY <1>2, <1>4
  <2>2. pc \in {"idle", "callback"} /\ clock' = clock /\ pc' = pc
    OBVIOUS
  <2> HIDE DEF TimerInv, LoopAdd, NewTimer
  <2> QED
    BY <1>1, <1>2, <1>3, <1>4, <2>1, <2>2, AddKeepsRegisters
<1>6. TypeOK'
  BY <1>2, <1>5 DEF TypeOK
<1>7. RegistersAgree'
  BY <1>3, <1>4, <1>5 DEF RegistersAgree, callingExpiredTimers
<1>8. QueuedAddsAreFresh'
  BY <1>1, <1>2, <1>3 DEF QueuedAddsAreFresh
<1>9. BatchState'
  BY <1>2, <1>4 DEF BatchState, callingExpiredTimers
<1>10. DeadAreOut'
  BY <1>3, <1>4 DEF DeadAreOut, callingExpiredTimers
<1> QED
  BY <1>5, <1>6, <1>7, <1>8, <1>9, <1>10

\* cancel on the loop thread.
LEMMA LoopCancelKeeps ==
    ASSUME TimerInv, NEW t \in Timers, LoopCancel(t)
    PROVE  TimerInv'
<1>1. /\ RegistersAgree' /\ BatchState' /\ DeadAreOut' /\ FdArmed'
      /\ timers' \subseteq timers /\ activeTimers' \subseteq activeTimers
      /\ canceled' = canceled \cup {t}
      /\ dead' \subseteq canceled'
      /\ cancelingTimers' \subseteq Timers
      /\ pc' \in {"idle", "callback", "abort"}
      /\ dead' \subseteq dead \cup activeTimers \cup runningTimers
  BY CancelKeeps DEF LoopCancel
<1>2. TypeOK'
  BY <1>1 DEF TimerInv, TypeOK, LoopCancel
<1>3. QueuedAddsAreFresh'
  BY <1>1 DEF TimerInv, QueuedAddsAreFresh, LoopCancel, Made
<1> QED
  BY <1>1, <1>2, <1>3 DEF TimerInv

\* addTimer and cancel on another thread.
LEMMA ForeignAddKeeps ==
    ASSUME TimerInv, NEW d \in Delays, NEW i \in Intervals, ForeignAdd(d, i)
    PROVE  TimerInv'
<1> USE DEF TimerInv, ForeignAdd, NewTimer
<1> DEFINE t == created + 1
<1>1. t \in Timers /\ t \notin Made /\ d \in Int /\ i \in Nat /\ clock + d \in Int
  BY TimerAssumption DEF TypeOK, Made, Timers
<1>2. /\ expiration' \in [Timers -> Int] /\ interval' \in [Timers -> Nat]
      /\ \A u \in Made : expiration'[u] = expiration[u]
      /\ created' \in 0..MaxTimers
  BY SMTT(30), <1>1, TimerAssumption DEF TypeOK, Made, Timers
<1>3. activeTimers \subseteq Made /\ expired \subseteq Made
  BY DEF QueuedAddsAreFresh
<1>4. QueuedAddsAreFresh' /\ pending' \in Seq({"add", "cancel"} \X Timers)
  <2>1. created' \in Nat /\ t <= created' /\ created <= created' /\ t > created
    BY TimerAssumption DEF TypeOK
  <2> HIDE DEF t
  <2>2. pending' = Append(pending, <<"add", t>>)
    BY DEF t
  <2> QED
    BY <1>1, <2>1, <2>2, AppendKeepsFresh
<1>5. TypeOK'
  BY <1>2, <1>4 DEF TypeOK
<1>6. RegistersAgree'
  <2>1. {<<expiration'[u], u>> : u \in activeTimers} = {<<expiration[u], u>> : u \in activeTimers}
    BY <1>2, <1>3
  <2> QED
    BY <2>1 DEF RegistersAgree, callingExpiredTimers
<1>7. BatchState'
  BY <1>2, <1>3 DEF BatchState, callingExpiredTimers
<1>8. DeadAreOut' /\ FdArmed'
  BY DEF DeadAreOut, FdArmed, FdCovers, callingExpiredTimers
<1> QED
  BY <1>4, <1>5, <1>6, <1>7, <1>8

LEMMA ForeignCancelKeeps ==
    ASSUME TimerInv, NEW t \in Timers, ForeignCancel(t)
    PROVE  TimerInv'
<1> USE DEF TimerInv, ForeignCancel
<1>1. QueuedAddsAreFresh' /\ pending' \in Seq({"add", "cancel"} \X Timers)
  <2>1. created' \in Nat /\ t <= created' /\ created <= created'
    BY TimerAssumption DEF TypeOK, Made
  <2> QED
    BY <2>1, AppendKeepsFresh
<1>2. TypeOK'
  BY <1>1 DEF TypeOK
<1>3. RegistersAgree' /\ BatchState' /\ DeadAreOut' /\ FdArmed'
  BY DEF RegistersAgree, BatchState, DeadAreOut, FdArmed, FdCovers, callingExpiredTimers
<1> QED
  BY <1>1, <1>2, <1>3
\* A queued call of another thread runs: an add or a cancel.
LEMMA RunPendingKeeps ==
    ASSUME TimerInv, RunPending
    PROVE  TimerInv'
<1> DEFINE t == Head(pending)[2]
           S == {"add", "cancel"} \X Timers
<1>1. TypeOK /\ QueuedAddsAreFresh /\ pending # <<>> /\ pc = "idle"
  BY DEF TimerInv, RunPending
<1>2. /\ 1 \in DOMAIN pending /\ Head(pending) = pending[1] /\ Head(pending) \in S
  <2>1. pending \in Seq(S)
    BY <1>1 DEF TypeOK
  <2> HIDE DEF S
  <2> QED
    BY <1>1, <2>1, TailElements
<1>3. t \in Timers /\ t \in Made
  BY <1>1, <1>2 DEF QueuedAddsAreFresh
<1> HIDE DEF t, S
<1>4. CASE Head(pending)[1] = "add"
  <2>1. /\ t \notin activeTimers /\ t \notin expired /\ t \notin runningTimers
        /\ t \notin dead
    BY <1>1, <1>2, <1>4 DEF QueuedAddsAreFresh, t
  <2>2. /\ AddTimerInLoop(t, expiration[t]) /\ activeTimers' = activeTimers \cup {t}
        /\ UNCHANGED <<cancelingTimers, pc, canceled, dead>>
    BY <1>4 DEF RunPending, AddTimerInLoop, t
  <2>3. UNCHANGED <<clock, created, expiration, interval, runningTimers, now, expired,
                    todo, cur>> /\ pending' = Tail(pending)
    BY DEF RunPending
  <2>4. /\ timers' = {<<expiration'[u], u>> : u \in activeTimers'}
        /\ timers' \subseteq (Int \X Timers) /\ activeTimers' \subseteq Timers
        /\ fdAt' \in Nat /\ fdReady' \in BOOLEAN
        /\ FdArmed'
    <3>1. expiration[t] \in Int /\ expiration' \in [Timers -> Int]
      BY <1>1, <1>3, <2>3 DEF TypeOK
    <3>2. \A u \in activeTimers : expiration'[u] = expiration[u]
      BY <2>3
    <3> QED
      BY <1>1, <1>3, <2>1, <2>2, <2>3, <3>1, <3>2, AddKeepsRegisters
  <2>5. QueuedAddsAreFresh' /\ pending' \in Seq({"add", "cancel"} \X Timers)
    <3>1. (activeTimers \cup expired \cup runningTimers \cup canceled)' \subseteq Made
      BY <1>1, <1>3, <2>2, <2>3 DEF QueuedAddsAreFresh
    <3>2. \A u \in (activeTimers \cup expired \cup runningTimers \cup dead)' :
             \/ u \in activeTimers \cup expired \cup runningTimers \cup dead
             \/ Head(pending)[1] = "add" /\ u = Head(pending)[2]
      BY <1>4, <2>2, <2>3 DEF t
    <3> QED
      BY <1>1, <2>3, <3>1, <3>2, TailKeepsFresh
  <2>6. TypeOK'
    BY <1>1, <2>2, <2>3, <2>4, <2>5 DEF TypeOK
  <2>7. RegistersAgree'
    BY <1>1, <2>2, <2>4 DEF RegistersAgree, callingExpiredTimers
  <2>8. BatchState' /\ DeadAreOut'
    BY <1>1, <2>1, <2>2, <2>3
    DEF TimerInv, BatchState, DeadAreOut, callingExpiredTimers
  <2> QED
    BY <2>4, <2>5, <2>6, <2>7, <2>8 DEF TimerInv
<1>5. CASE Head(pending)[1] = "cancel"
  <2>1. /\ CancelInLoop(t) /\ pending' = Tail(pending)
        /\ UNCHANGED <<clock, created, expiration, interval, runningTimers, fdAt,
                       fdReady, now, expired, todo, cur>>
    BY <1>5 DEF RunPending, t
  <2>2. /\ RegistersAgree' /\ BatchState' /\ DeadAreOut' /\ FdArmed'
        /\ timers' \subseteq timers /\ activeTimers' \subseteq activeTimers
        /\ canceled' = canceled \cup {t}
        /\ dead' \subseteq canceled'
        /\ cancelingTimers' \subseteq Timers
        /\ pc' \in {"idle", "callback", "abort"}
        /\ dead' \subseteq dead \cup activeTimers \cup runningTimers
    BY <1>1, <1>3, <2>1, CancelKeeps
  <2>3. QueuedAddsAreFresh' /\ pending' \in Seq({"add", "cancel"} \X Timers)
    <3>1. (activeTimers \cup expired \cup runningTimers \cup canceled)' \subseteq Made
      BY <1>1, <1>3, <2>1, <2>2 DEF QueuedAddsAreFresh
    <3>2. \A u \in (activeTimers \cup expired \cup runningTimers \cup dead)' :
             u \in activeTimers \cup expired \cup runningTimers \cup dead
      BY <2>1, <2>2
    <3> QED
      BY <1>1, <2>1, <3>1, <3>2, TailKeepsFresh
  <2>4. TypeOK'
    BY <1>1, <1>3, <2>1, <2>2, <2>3 DEF TypeOK
  <2> QED
    BY <2>2, <2>3, <2>4 DEF TimerInv
<1>6. Head(pending)[1] \in {"add", "cancel"}
  BY <1>2 DEF S
<1> QED
  BY <1>4, <1>5, <1>6

\* Time passes, and the timerfd may fire.
LEMMA TickKeeps ==
    ASSUME TimerInv, Tick
    PROVE  TimerInv'
<1> USE DEF TimerInv, Tick
<1>1. clock \in Nat /\ clock' = clock + 1 /\ clock' \in 1..MaxTime
  BY TimerAssumption DEF TypeOK
<1>2. TypeOK'
  <2>1. fdAt' \in Nat
    BY DEF TypeOK
  <2>2. fdReady' \in BOOLEAN
    BY DEF TypeOK
  <2> QED
    BY <1>1, <2>1, <2>2 DEF TypeOK
<1>3. QueuedAddsAreFresh' /\ RegistersAgree' /\ DeadAreOut'
  BY DEF QueuedAddsAreFresh, Made, RegistersAgree, DeadAreOut, callingExpiredTimers
<1>4. BatchState'
  <2>1. \A t \in expired : expiration[t] \in Int
    BY DEF TypeOK
  <2> QED
    BY <1>1, <2>1 DEF BatchState, callingExpiredTimers
<1>5. FdArmed'
  <2>1. \A ts : FdCovers(ts) => (ts # {} =>
            \/ fdReady'
            \/ fdAt' # 0 /\ \A a \in ts : fdAt' <= a[1] \/ fdAt' <= clock' + 1)
    <3> TAKE ts
    <3>1. CASE fdAt # 0 /\ fdAt <= clock + 1
      BY <3>1
    <3>2. CASE ~(fdAt # 0 /\ fdAt <= clock + 1)
      BY <3>2, <1>1 DEF FdCovers, TypeOK
    <3> QED
      BY <3>1, <3>2
  <2> QED
    BY <2>1 DEF FdArmed, FdCovers, callingExpiredTimers
<1> QED
  BY <1>2, <1>3, <1>4, <1>5

\* handleRead cuts off what is due.
LEMMA HandleReadKeeps ==
    ASSUME TimerInv, HandleRead
    PROVE  TimerInv'
<1> USE DEF TimerInv
<1> DEFINE due == {a \in timers : Due(a)}
           ids == {a[2] : a \in due}
<1>1. /\ expired' = ids /\ todo' = ids /\ timers' = timers \ due
      /\ activeTimers' = activeTimers \ ids
      /\ runningTimers' = IF due = {} THEN runningTimers ELSE ids
      /\ fdReady' = FALSE /\ now' = clock /\ cancelingTimers' = {} /\ pc' = "batch"
      /\ UNCHANGED <<clock, created, expiration, interval, fdAt, pending, cur,
                     canceled, dead>>
      /\ pc = "idle"
  BY DEF HandleRead
<1>2. /\ timers = {<<expiration[t], t>> : t \in activeTimers}
      /\ \A t \in activeTimers : expiration[t] \in Int /\ clock \in Int /\ clock > 0
  BY TimerAssumption DEF RegistersAgree, TypeOK
<1>3. \A t \in ids : t \in activeTimers /\ expiration[t] <= clock
  BY <1>2 DEF Due
<1>4. \A t \in activeTimers : t \in ids <=> expiration[t] <= clock
  <2>1. \A t \in activeTimers : expiration[t] <= clock => t \in ids
    <3> TAKE t \in activeTimers
    <3>1. <<expiration[t], t>> \in timers
      BY <1>2
    <3> QED
      BY <3>1 DEF Due
  <2> QED
    BY <2>1, <1>3
<1>5. timers' = {<<expiration'[t], t>> : t \in activeTimers'}
  <2>1. timers' = {a \in timers : ~(a[1] <= clock)}
    BY <1>1 DEF Due
  <2>2. activeTimers' = {t \in activeTimers : ~(expiration[t] <= clock)}
    BY <1>1, <1>4
  <2>3. expiration' = expiration
    BY <1>1
  <2> HIDE DEF due, ids
  <2> QED
    BY <2>1, <2>2, <2>3, <1>2
<1>6. due = {} => ids = {}
  OBVIOUS
<1> HIDE DEF due, ids
<1>7. TypeOK'
  <2>1. fdReady' \in BOOLEAN
    BY <1>1
  <2>2. timers' \subseteq (Int \X Timers) /\ now' \in 0..MaxTime
    BY <1>1 DEF TypeOK
  <2> QED
    BY <1>1, <1>3, <2>1, <2>2 DEF TypeOK
<1>8. RegistersAgree'
  BY <1>1, <1>5 DEF RegistersAgree
<1>9. QueuedAddsAreFresh'
  BY <1>1, <1>3 DEF QueuedAddsAreFresh, Made
<1>10. BatchState'
  BY <1>1, <1>3, <1>6 DEF BatchState, callingExpiredTimers
<1>11. DeadAreOut'
  BY <1>1, <1>3 DEF DeadAreOut, callingExpiredTimers
<1>12. FdArmed'
  <2>1. {a \in timers' : a[1] <= 0} = {}
    BY <1>1, <1>2, <1>4, <1>5
  <2> QED
    BY <1>1, <2>1 DEF FdArmed, FdCovers, callingExpiredTimers
<1> QED
  BY <1>7, <1>8, <1>9, <1>10, <1>11, <1>12
\* The for loop: a cancelled timer is skipped, another one is run, and its
\* callback returns.
LEMMA BatchStepKeeps ==
    ASSUME TimerInv, SkipCanceled \/ RunTimer \/ TimerReturn
    PROVE  TimerInv'
<1> USE DEF TimerInv
<1>1. ASSUME todo # {} PROVE NextInBatch \in todo
  BY <1>1, NextIsInBatch
<1>2. CASE SkipCanceled
  <2>1. TypeOK'
    BY <1>2 DEF SkipCanceled, TypeOK
  <2>2. QueuedAddsAreFresh' /\ RegistersAgree' /\ DeadAreOut' /\ FdArmed'
    BY <1>2 DEF SkipCanceled, QueuedAddsAreFresh, Made, RegistersAgree, DeadAreOut,
                FdArmed, FdCovers, callingExpiredTimers
  <2>3. BatchState'
    BY <1>2 DEF SkipCanceled, BatchState, DeadAreOut, callingExpiredTimers
  <2> QED
    BY <2>1, <2>2, <2>3
<1>3. CASE RunTimer
  <2>0. NextInBatch \in todo /\ NextInBatch \in 0..MaxTimers
    <3>1. NextInBatch \in todo
      BY <1>1, <1>3 DEF RunTimer
    <3>2. todo \subseteq Timers /\ Timers \subseteq 0..MaxTimers
      BY TimerAssumption DEF TypeOK, Timers
    <3> QED
      BY <3>1, <3>2
  <2>1. TypeOK'
    BY <1>3, <2>0 DEF RunTimer, TypeOK
  <2>2. QueuedAddsAreFresh' /\ RegistersAgree' /\ DeadAreOut' /\ FdArmed'
    BY <1>3 DEF RunTimer, QueuedAddsAreFresh, Made, RegistersAgree, DeadAreOut,
                FdArmed, FdCovers, callingExpiredTimers
  <2>3. BatchState'
    <3>1. 0 \notin runningTimers /\ todo \subseteq expired
      BY TimerAssumption DEF TypeOK, Timers
    <3> HIDE DEF TimerInv
    <3>2. /\ cur = 0 /\ todo \subseteq runningTimers
          /\ runningTimers \subseteq todo \cup {cur} \cup dead
          /\ \A t \in expired : expiration[t] <= clock
      BY <1>3 DEF RunTimer, BatchState, callingExpiredTimers, TimerInv
    <3> QED
      BY <1>3, <2>0, <3>1, <3>2 DEF RunTimer, BatchState, callingExpiredTimers
  <2> QED
    BY <2>1, <2>2, <2>3
<1>4. CASE TimerReturn
  <2>1. TypeOK'
    BY <1>4, TimerAssumption DEF TimerReturn, TypeOK
  <2>2. QueuedAddsAreFresh' /\ RegistersAgree' /\ DeadAreOut' /\ FdArmed'
    BY <1>4 DEF TimerReturn, QueuedAddsAreFresh, Made, RegistersAgree, DeadAreOut,
                FdArmed, FdCovers, callingExpiredTimers
  <2>3. BatchState'
    BY <1>4 DEF TimerReturn, BatchState, callingExpiredTimers
  <2> QED
    BY <2>1, <2>2, <2>3
<1> QED
  BY <1>2, <1>3, <1>4

\* The end of handleRead: repeated timers start again and the timerfd is armed.
LEMMA ResetKeeps ==
    ASSUME TimerInv, Reset
    PROVE  TimerInv'
<1> USE DEF TimerInv
<1> DEFINE after == timers \cup {<<now + interval[t], t>> : t \in Again}
<1>1. /\ expiration' = [t \in Timers |->
                          IF t \in Again THEN now + interval[t] ELSE expiration[t]]
      /\ activeTimers' = activeTimers \cup Again
      /\ timers' = after
      /\ IF after # {} /\ Begin(after)[1] > 0
         THEN ResetTimerFd(Begin(after)[1])
         ELSE UNCHANGED <<fdAt, fdReady>>
      /\ expired' = {} /\ pc' = "idle" /\ pc = "batch" /\ todo = {}
      /\ UNCHANGED <<clock, created, interval, cancelingTimers, runningTimers,
                     pending, now, todo, cur, canceled, dead>>
  BY DEF Reset
<1>2. /\ Again \subseteq expired /\ Again \cap cancelingTimers = {}
      /\ \A t \in Again : interval[t] > 0
  BY DEF Again
<1>3. Again \cap activeTimers = {} /\ Again \cap dead = {} /\ Again \subseteq Timers
  BY <1>1, <1>2 DEF RegistersAgree, DeadAreOut, callingExpiredTimers, TypeOK
<1>4. \A t \in Again : now + interval[t] \in Int /\ now + interval[t] > 0
  BY <1>2, <1>3, TimerAssumption DEF TypeOK
<1>5. /\ expiration' \in [Timers -> Int]
      /\ \A t \in Again : expiration'[t] = now + interval[t]
      /\ \A t \in activeTimers : expiration'[t] = expiration[t]
  BY <1>1, <1>3, <1>4 DEF TypeOK
<1>6. timers = {<<expiration[t], t>> : t \in activeTimers}
  BY DEF RegistersAgree
<1>7. after = {<<expiration'[t], t>> : t \in activeTimers'}
  <2>1. timers = {<<expiration'[t], t>> : t \in activeTimers}
    BY <1>5, <1>6
  <2>2. {<<now + interval[t], t>> : t \in Again} = {<<expiration'[t], t>> : t \in Again}
    BY <1>5
  <2>3. activeTimers' = activeTimers \cup Again
    BY <1>1
  <2> QED
    BY <2>1, <2>2, <2>3, Zenon
<1>8. \A a \in after : a[1] > 0 \/ a \in timers
  BY <1>4
<1> HIDE DEF after
<1>9. activeTimers' \in SUBSET Timers
  BY <1>1, <1>3 DEF TypeOK
<1>10. after # {} =>
         /\ Begin(after) \in after
         /\ \A a \in after : Begin(after)[1] \in Int /\ a[1] \in Int /\ Begin(after)[1] <= a[1]
  <2> HAVE after # {}
  <2>1. activeTimers' # {}
    BY <1>7
  <2> QED
    BY <1>5, <1>7, <1>9, <2>1, BeginIsFirst, Zenon
<1>11. clock \in Nat /\ clock > 0 /\ fdAt \in Nat
  BY TimerAssumption DEF TypeOK
<1>12. ASSUME after # {}, Begin(after)[1] > 0
       PROVE  FdArmed' /\ fdReady' \in BOOLEAN /\ fdAt' \in Nat
  <2>1. ResetTimerFd(Begin(after)[1])
    BY <1>1, <1>12
  <2>2. fdAt' \in Nat /\ fdAt' # 0 /\ (fdAt' = Begin(after)[1] \/ fdAt' = clock + 1)
    BY <2>1, <1>10, <1>11, <1>12 DEF ResetTimerFd
  <2>3. fdReady' \in BOOLEAN
    BY <2>1 DEF ResetTimerFd
  <2>4. \A a \in timers' : fdAt' <= a[1] \/ fdAt' <= clock' + 1
    BY <1>1, <1>10, <1>11, <1>12, <2>2
  <2> QED
    BY <1>1, <2>2, <2>3, <2>4 DEF FdArmed, FdCovers, callingExpiredTimers
<1>13. ASSUME ~(after # {} /\ Begin(after)[1] > 0)
       PROVE  FdArmed' /\ fdReady' \in BOOLEAN /\ fdAt' \in Nat
  <2>1. UNCHANGED <<fdAt, fdReady>>
    BY <1>1, <1>13
  <2>2. ASSUME after # {}
        PROVE  fdReady \/ (fdAt # 0 /\ \A a \in after : fdAt <= a[1] \/ fdAt <= clock + 1)
    <3>1. Begin(after) \in {a \in timers : a[1] <= 0}
      BY <1>8, <1>10, <1>13, <2>2
    <3>2. \/ fdReady
          \/ fdAt # 0 /\ (fdAt <= Begin(after)[1] \/ fdAt <= clock + 1)
      BY <1>1, <3>1 DEF FdArmed, FdCovers, callingExpiredTimers
    <3> QED
      BY <3>2, <1>10, <1>11, <2>2
  <2>3. FdArmed'
    BY <1>1, <2>1, <2>2 DEF FdArmed, FdCovers, callingExpiredTimers
  <2>4. fdReady' \in BOOLEAN /\ fdAt' \in Nat
    BY <2>1 DEF TypeOK
  <2> QED
    BY <2>3, <2>4
<1>14. FdArmed' /\ fdReady' \in BOOLEAN /\ fdAt' \in Nat
  BY <1>12, <1>13
<1>15. timers' \subseteq (Int \X Timers)
  BY <1>1, <1>5, <1>7, <1>9
<1>16. TypeOK'
  BY <1>1, <1>5, <1>9, <1>14, <1>15 DEF TypeOK
<1>17. RegistersAgree'
  BY <1>1, <1>7 DEF RegistersAgree, callingExpiredTimers
<1>18. QueuedAddsAreFresh'
  BY <1>1, <1>2 DEF QueuedAddsAreFresh, Made
<1>19. BatchState' /\ DeadAreOut'
  <2>1. 0 \notin runningTimers
    BY TimerAssumption DEF TypeOK, Timers
  <2>2. runningTimers \subseteq dead /\ cur = 0
    BY <1>1, <2>1 DEF BatchState, callingExpiredTimers
  <2> QED
    BY <1>1, <1>3, <2>2 DEF BatchState, DeadAreOut, callingExpiredTimers
<1> QED
  BY <1>14, <1>16, <1>17, <1>18, <1>19

-----------------------------------------------------------------------------
(* The results.                                                            *)

\* Every step keeps TimerInv.
LEMMA StepKeeps ==
    ASSUME TimerInv, [Next]_vars
    PROVE  TimerInv'
<1>1. CASE UNCHANGED vars
  BY SMTT(30), <1>1 DEF vars, TimerInv, TypeOK, RegistersAgree, QueuedAddsAreFresh, Made,
              BatchState, DeadAreOut, FdArmed, FdCovers, callingExpiredTimers
<1> QED
  BY <1>1, LoopAddKeeps, LoopCancelKeeps, ForeignAddKeeps, ForeignCancelKeeps,
     RunPendingKeeps, TickKeeps, HandleReadKeeps, BatchStepKeeps, ResetKeeps
  DEF Next

\* The inductive invariant of the timer queue.
THEOREM TimerInvariant == Spec => []TimerInv
<1>1. Init => TimerInv
  <2> SUFFICES ASSUME Init PROVE TimerInv
    OBVIOUS
  <2> USE DEF Init
  <2>1. TypeOK
    <3>1. <<>> \in Seq({"add", "cancel"} \X Timers)
      BY EmptySeq
    <3>2. clock \in 1..MaxTime /\ created \in 0..MaxTimers /\ now \in 0..MaxTime
          /\ cur \in 0..MaxTimers
      BY TimerAssumption
    <3>3. expiration \in [Timers -> Int] /\ interval \in [Timers -> Nat] /\ fdAt \in Nat
      OBVIOUS
    <3> QED
      BY <3>1, <3>2, <3>3 DEF TypeOK
  <2>2. DOMAIN pending = {}
    OBVIOUS
  <2>3. RegistersAgree /\ QueuedAddsAreFresh /\ BatchState /\ DeadAreOut /\ FdArmed
    BY <2>2 DEF RegistersAgree, QueuedAddsAreFresh, BatchState, DeadAreOut, FdArmed,
                FdCovers, callingExpiredTimers
  <2> QED
    BY <2>1, <2>3 DEF TimerInv
<1>2. TimerInv /\ [Next]_vars => TimerInv'
  BY StepKeeps
<1> QED
  BY <1>1, <1>2, PTL DEF Spec

\* The type invariant of SampleTimerQueue.
THEOREM TypeCorrect == Spec => []TypeOK
<1>1. TimerInv => TypeOK
  BY DEF TimerInv
<1> QED
  BY <1>1, TimerInvariant, PTL

\* The two registers agree, whatever callbacks add and cancel during a batch.
THEOREM RegistersAlwaysAgree == Spec => []RegistersAgree
<1>1. TimerInv => RegistersAgree
  BY DEF TimerInv
<1> QED
  BY <1>1, TimerInvariant, PTL

\* Between handlers the timerfd is set for the earliest timer or earlier.
THEOREM TimerFdAlwaysArmed == Spec => []TimerFdArmed
<1>1. TimerInv => TimerFdArmed
  <2> SUFFICES ASSUME TimerInv, pc = "idle", timers # {}
               PROVE  \/ fdReady
                      \/ fdAt # 0 /\ (fdAt <= Begin(timers)[1] \/ fdAt <= clock + 1)
    BY DEF TimerFdArmed
  <2>1. Begin(timers) \in timers
    BY BeginOfTimers DEF TimerInv
  <2> QED
    BY <2>1 DEF TimerInv, FdArmed, FdCovers
<1> QED
  BY <1>1, TimerInvariant, PTL

\* A timer that a cancellation found is not run again.
THEOREM CancelledNeverRun == Spec => DeadTimersStayDead
<1>1. TimerInv /\ [Next]_vars => [cur' \in dead => cur' = cur]_vars
  <2> SUFFICES ASSUME TimerInv, Next, cur' \in dead PROVE cur' = cur
    OBVIOUS
  <2>1. 0 \notin dead
    BY TimerAssumption DEF TimerInv, TypeOK, Timers
  <2>2. CASE RunTimer
    <3>1. NextInBatch \in todo
      BY <2>2, NextIsInBatch DEF RunTimer, TimerInv
    <3> QED
      BY <2>2, <3>1 DEF RunTimer, TimerInv, DeadAreOut, TypeOK, callingExpiredTimers
  <2>3. CASE TimerReturn
    BY <2>1, <2>3 DEF TimerReturn
  <2> QED
    BY <2>2, <2>3 DEF Next, LoopAdd, LoopCancel, ForeignAdd, ForeignCancel, RunPending,
                      Tick, HandleRead, SkipCanceled, Reset
<1> QED
  BY <1>1, TimerInvariant, PTL DEF Spec, DeadTimersStayDead

\* A callback is called when it is due, and once in its batch.
THEOREM RunsWhenDue == Spec => RunWhenDue
<1>1. TimerInv /\ [Next]_vars =>
        [cur' # cur /\ cur' # 0 =>
           /\ expiration[cur'] <= clock
           /\ cur' \in runningTimers /\ cur' \notin todo']_vars
  <2> SUFFICES ASSUME TimerInv, Next, cur' # cur, cur' # 0
               PROVE  /\ expiration[cur'] <= clock
                      /\ cur' \in runningTimers /\ cur' \notin todo'
    OBVIOUS
  <2>1. CASE RunTimer
    <3>1. NextInBatch \in todo
      BY <2>1, NextIsInBatch DEF RunTimer, TimerInv
    <3> QED
      BY <2>1, <3>1 DEF RunTimer, TimerInv, BatchState, TypeOK, callingExpiredTimers
  <2> QED
    BY <2>1 DEF Next, LoopAdd, LoopCancel, ForeignAdd, ForeignCancel, RunPending,
                Tick, HandleRead, SkipCanceled, TimerReturn, Reset
<1> QED
  BY <1>1, TimerInvariant, PTL DEF Spec, RunWhenDue
=============================================================================
