----------------------- MODULE AsyncUdpDatagramProofs -----------------------
(***************************************************************************)
(* Proofs about AsyncUdpDatagram, for every number of sends and of queued  *)
(* calls and every depth of nested callbacks.                              *)
(***************************************************************************)
EXTENDS AsyncUdpDatagram, SequenceTheorems, FiniteSetTheorems, TLAPS

-----------------------------------------------------------------------------
(* Sequences.                                                              *)

\* Appending to a sequence leaves its elements where they are.
LEMMA AppendElements ==
    ASSUME NEW S, NEW s \in Seq(S), NEW e \in S
    PROVE  /\ Append(s, e) \in Seq(S) /\ Append(s, e) # <<>>
           /\ Len(s) \in Nat /\ Len(Append(s, e)) = Len(s) + 1
           /\ \A i \in 1..Len(s) : Append(s, e)[i] = s[i]
           /\ Append(s, e)[Len(s) + 1] = e
           /\ ToSet(Append(s, e)) = ToSet(s) \cup {e}
<1>1. /\ Append(s, e) \in Seq(S)
      /\ DOMAIN s = 1..Len(s) /\ Len(s) \in Nat
      /\ Len(Append(s, e)) = Len(s) + 1
      /\ DOMAIN Append(s, e) = 1..(Len(s) + 1)
      /\ \A i \in 1..Len(s) : Append(s, e)[i] = s[i]
      /\ Append(s, e)[Len(s) + 1] = e
  BY LenProperties, AppendProperties
<1>2. ToSet(Append(s, e)) = ToSet(s) \cup {e}
  <2>1. \A i \in 1..(Len(s) + 1) : i \in 1..Len(s) \/ i = Len(s) + 1
    BY <1>1
  <2>2. Len(s) + 1 \in 1..(Len(s) + 1) /\ 1..Len(s) \subseteq 1..(Len(s) + 1)
    BY <1>1
  <2> QED
    BY <1>1, <2>1, <2>2, Zenon DEF ToSet
<1>3. Append(s, e) # <<>>
  BY <1>1
<1> QED
  BY <1>1, <1>2, <1>3

\* Taking the head of a sequence shifts the others by one.
LEMMA TailElements ==
    ASSUME NEW S, NEW s \in Seq(S), s # <<>>
    PROVE  /\ Tail(s) \in Seq(S) /\ Head(s) \in S /\ Head(s) = s[1]
           /\ Len(s) \in Nat /\ Len(s) > 0 /\ Len(Tail(s)) = Len(s) - 1
           /\ \A i \in 1..(Len(s) - 1) : Tail(s)[i] = s[i + 1]
  BY HeadTailProperties, LenProperties, EmptySeq

\* Dropping the last element of a sequence leaves the others where they are.
LEMMA FrontElements ==
    ASSUME NEW S, NEW s \in Seq(S), s # <<>>
    PROVE  /\ Front(s) \in Seq(S)
           /\ Len(s) \in Nat /\ Len(s) > 0 /\ Len(Front(s)) = Len(s) - 1
           /\ \A i \in 1..(Len(s) - 1) : Front(s)[i] = s[i]
           /\ ToSet(s) = ToSet(Front(s)) \cup {s[Len(s)]}
<1>1. Len(s) \in Nat /\ Len(s) > 0 /\ DOMAIN s = 1..Len(s)
  BY LenProperties, EmptySeq
<1>2. Front(s) = SubSeq(s, 1, Len(s) - 1)
  BY DEF Front
<1>3. /\ Front(s) \in Seq(S) /\ Len(Front(s)) = Len(s) - 1
      /\ \A i \in 1..(Len(s) - 1) : Front(s)[i] = s[i]
  BY <1>1, <1>2, SubSeqProperties
<1>4. ToSet(s) = ToSet(Front(s)) \cup {s[Len(s)]}
  <2>1. DOMAIN Front(s) = 1..(Len(s) - 1)
    BY <1>3, LenProperties
  <2>0. Len(s) \in Nat /\ Len(s) > 0
    BY <1>1
  <2>2. \A i \in 1..Len(s) : i \in 1..(Len(s) - 1) \/ i = Len(s)
    BY SMTT(30), <2>0
  <2>3. Len(s) \in 1..Len(s) /\ 1..(Len(s) - 1) \subseteq 1..Len(s)
    BY SMTT(30), <2>0
  <2> QED
    BY <1>1, <1>3, <2>1, <2>2, <2>3, Zenon DEF ToSet
<1> QED
  BY <1>1, <1>3, <1>4

\* The elements of a sequence.
LEMMA ToSetElements ==
    ASSUME NEW S, NEW s \in Seq(S)
    PROVE  ToSet(s) \subseteq S /\ ToSet(<<>>) = {}
<1>1. \A i \in DOMAIN s : s[i] \in S
  BY LenProperties, ElementOfSeq
<1>2. DOMAIN <<>> = {}
  OBVIOUS
<1> QED
  BY <1>1, <1>2, Zenon DEF ToSet

-----------------------------------------------------------------------------
(* What the operations on the datagram do to its state.                    *)

\* startInLoop.
LEMMA StartKeeps ==
    ASSUME NEW k \in Datagrams, Consistent(k)
    PROVE  LET r == StartInLoop(k) IN
             /\ r \in Datagrams /\ Consistent(r)
             /\ r.pending = k.pending /\ r.sent = k.sent /\ r.taken = k.taken
             /\ r.alive = k.alive /\ r.undefined = k.undefined /\ r.writing = k.writing
<1> USE DEF Datagrams, Indices
<1>1. CASE k.state # "kNew"
  BY <1>1 DEF StartInLoop
<1>2. CASE k.state = "kNew"
  BY <1>2 DEF StartInLoop, EnableReading, UpdateChannel, Consistent
<1> QED
  BY <1>1, <1>2

\* removeChannelInLoop closes, and leaves the poller.
LEMMA RemoveCloses ==
    ASSUME NEW k \in Datagrams, k.removed <=> k.state = "kClosed", k.state # "kClosed",
           k.index = "new" => ~k.reading /\ ~k.writing,
           k.lost # {} \/ k.pending # <<>> => k.forced
    PROVE  LET r == RemoveChannelInLoop(k) IN
             /\ r \in Datagrams /\ Consistent(r) /\ r.state = "kClosed"
             /\ r.pending = <<>> /\ r.sent = k.sent /\ r.taken = k.taken
             /\ r.alive = k.alive /\ r.undefined = k.undefined /\ ~r.writing
<1> DEFINE s == IF ~k.removed /\ k.index # "new" THEN RemoveChannel(DisableAll(k)) ELSE k
           lost == k.lost \cup ToSet(k.pending)
           r == RemoveChannelInLoop(k)
<1>1. /\ s \in Datagrams /\ s.index = "new" /\ ~s.reading /\ ~s.writing
      /\ s.sent = k.sent /\ s.taken = k.taken /\ s.alive = k.alive
      /\ s.undefined = k.undefined /\ s.lost = k.lost /\ s.forced = k.forced
  BY ZenonT(30) DEF Datagrams, Indices, RemoveChannel, DisableAll, UpdateChannel
<1>2. ToSet(k.pending) \subseteq 1..MaxSends /\ (k.pending = <<>> => ToSet(k.pending) = {})
  <2>1. k.pending \in Seq(1..MaxSends)
    BY DEF Datagrams
  <2> QED
    BY <2>1, ToSetElements
<1> HIDE DEF s
<1>3. r = [s EXCEPT !.removed = TRUE, !.lost = @ \cup ToSet(k.pending),
                    !.pending = <<>>, !.state = "kClosed"]
  BY DEF RemoveChannelInLoop, s
<1>4. <<>> \in Seq(1..MaxSends)
  BY EmptySeq
<1>5. /\ r.state = "kClosed" /\ r.removed = TRUE /\ r.lost = lost /\ r.pending = <<>>
      /\ r.index = s.index /\ r.reading = s.reading /\ r.writing = s.writing
      /\ r.sent = s.sent /\ r.taken = s.taken /\ r.alive = s.alive
      /\ r.undefined = s.undefined /\ r.forced = s.forced
  BY <1>1, <1>3 DEF Datagrams
<1>6. r \in Datagrams
  BY ZenonT(30), <1>1, <1>2, <1>3, <1>4 DEF Datagrams
<1>7. lost # {} => r.forced
  BY <1>1, <1>2, <1>5
<1> HIDE DEF r
<1> QED
  BY <1>1, <1>5, <1>6, <1>7 DEF Consistent, r

\* forceCloseInLoop closes, whatever is pending.
LEMMA ForceCloseCloses ==
    ASSUME NEW k \in Datagrams, Consistent(k)
    PROVE  LET r == ForceCloseInLoop(k) IN
             /\ r \in Datagrams /\ Consistent(r) /\ r.state = "kClosed"
             /\ r.pending = <<>> /\ r.sent = k.sent /\ r.taken = k.taken
             /\ r.alive = k.alive /\ r.undefined = k.undefined /\ ~r.writing
<1>1. CASE k.state = "kClosed"
  BY <1>1 DEF ForceCloseInLoop, Consistent
<1>2. CASE k.state # "kClosed"
  <2> DEFINE s == [k EXCEPT !.forced = TRUE, !.pending = <<>>,
                            !.lost = @ \cup ToSet(k.pending)]
  <2>1. ForceCloseInLoop(k) = RemoveChannelInLoop(s)
    BY <1>2 DEF ForceCloseInLoop
  <2>2. ToSet(k.pending) \subseteq 1..MaxSends /\ <<>> \in Seq(1..MaxSends)
    <3>1. k.pending \in Seq(1..MaxSends)
      BY DEF Datagrams
    <3> QED
      BY <3>1, ToSetElements, EmptySeq
  <2>3. s \in Datagrams
    BY <2>2 DEF Datagrams
  <2>4. /\ s.state = k.state /\ s.removed = k.removed /\ s.index = k.index
        /\ s.reading = k.reading /\ s.writing = k.writing /\ s.forced = TRUE
        /\ s.sent = k.sent /\ s.taken = k.taken /\ s.alive = k.alive
        /\ s.undefined = k.undefined
    BY DEF Datagrams
  <2> HIDE DEF s
  <2>5. /\ s.removed <=> s.state = "kClosed"
        /\ s.state # "kClosed"
        /\ s.index = "new" => ~s.reading /\ ~s.writing
    BY <1>2, <2>4 DEF Consistent, Datagrams
  <2> QED
    BY <2>1, <2>3, <2>4, <2>5, RemoveCloses
<1> QED
  BY <1>1, <1>2

\* closeInLoop closes at once or puts the closing off, and loses nothing.
LEMMA CloseKeeps ==
    ASSUME NEW k \in Datagrams, Consistent(k)
    PROVE  LET r == CloseInLoop(k) IN
             /\ r \in Datagrams /\ Consistent(r) /\ r.sent = k.sent /\ r.taken = k.taken
             /\ r.alive = k.alive /\ r.undefined = k.undefined
             /\ \/ r.pending = k.pending /\ r.writing = k.writing
                \/ r.pending = <<>> /\ ~r.writing
<1>1. CASE k.state \in {"kClosed", "kClosing"}
  BY <1>1 DEF CloseInLoop
<1>2. CASE k.state \notin {"kClosed", "kClosing"}
  <2> DEFINE s == [k EXCEPT !.state = "kClosing"]
  <2>1. s \in Datagrams
    BY DEF Datagrams
  <2>2. /\ s.state = "kClosing" /\ s.removed = k.removed /\ s.index = k.index
        /\ s.reading = k.reading /\ s.writing = k.writing /\ s.forced = k.forced
        /\ s.lost = k.lost /\ s.pending = k.pending
        /\ s.sent = k.sent /\ s.taken = k.taken /\ s.alive = k.alive
        /\ s.undefined = k.undefined
    BY DEF Datagrams
  <2>3. ~k.removed /\ k.alive
    BY <1>2 DEF Consistent, Datagrams
  <2>4. CASE k.writing /\ k.pending # <<>>
    <3>1. CloseInLoop(k) = DisableReading(s)
      BY <1>2, <2>3, <2>4 DEF CloseInLoop
    <3>2. k.index = "added"
      BY <1>2, <2>4 DEF Consistent, Datagrams
    <3>3. DisableReading(s) = [s EXCEPT !.reading = FALSE]
      BY <2>1, <2>2, <2>4, <3>2 DEF DisableReading, UpdateChannel, Datagrams
    <3> QED
      <4> DEFINE t == [s EXCEPT !.reading = FALSE]
      <4>1. t \in Datagrams
        BY <2>1 DEF Datagrams
      <4>2. /\ t.reading = FALSE /\ t.state = s.state /\ t.removed = s.removed
            /\ t.index = s.index /\ t.writing = s.writing /\ t.forced = s.forced
            /\ t.lost = s.lost /\ t.pending = s.pending
            /\ t.sent = s.sent /\ t.taken = s.taken /\ t.alive = s.alive
            /\ t.undefined = s.undefined
        BY <2>1 DEF Datagrams
      <4> HIDE DEF s, t
      <4>3. Consistent(t)
        BY <2>2, <2>3, <2>4, <3>2, <4>2 DEF Consistent
      <4> QED
        BY <2>2, <3>1, <3>3, <4>1, <4>2, <4>3 DEF t
  <2>5. CASE ~(k.writing /\ k.pending # <<>>)
    <3>1. CloseInLoop(k) = RemoveChannelInLoop(s)
      BY <1>2, <2>3, <2>5 DEF CloseInLoop
    <3>2. k.pending = <<>>
      BY <2>5 DEF Consistent
    <3>3. /\ s.removed <=> s.state = "kClosed"
          /\ s.state # "kClosed"
          /\ s.index = "new" => ~s.reading /\ ~s.writing
          /\ s.lost # {} \/ s.pending # <<>> => s.forced
      BY <1>2, <2>2, <2>3, <3>2 DEF Consistent, Datagrams
    <3> HIDE DEF s
    <3> QED
      BY <2>1, <2>2, <3>1, <3>3, RemoveCloses
  <2> QED
    BY <2>4, <2>5
<1> QED
  BY <1>1, <1>2
\* Destroy closes what it deletes.
LEMMA DestroyCloses ==
    ASSUME NEW k \in Datagrams, Consistent(k)
    PROVE  LET r == DestroyInLoop(k) IN
             /\ r \in Datagrams /\ Consistent(r) /\ ~r.alive
             /\ r.pending = <<>> /\ r.sent = k.sent /\ r.taken = k.taken
             /\ r.undefined = k.undefined /\ ~r.writing
<1> DEFINE s == ForceCloseInLoop(k)
           r == [s EXCEPT !.alive = FALSE]
<1>1. /\ s \in Datagrams /\ Consistent(s) /\ s.state = "kClosed"
      /\ s.pending = <<>> /\ s.sent = k.sent /\ s.taken = k.taken
      /\ s.undefined = k.undefined /\ ~s.writing
  BY ForceCloseCloses
<1>2. DestroyInLoop(k) = r
  BY DEF DestroyInLoop
<1> HIDE DEF s
<1>3. r \in Datagrams
  BY <1>1 DEF Datagrams
<1>4. /\ r.alive = FALSE /\ r.state = s.state /\ r.removed = s.removed
      /\ r.index = s.index /\ r.reading = s.reading /\ r.writing = s.writing
      /\ r.forced = s.forced /\ r.lost = s.lost /\ r.pending = s.pending
      /\ r.sent = s.sent /\ r.taken = s.taken /\ r.undefined = s.undefined
  BY <1>1 DEF Datagrams
<1> HIDE DEF r
<1>5. Consistent(r)
  BY <1>1, <1>4 DEF Consistent
<1> QED
  BY <1>1, <1>2, <1>3, <1>4, <1>5

\* handleWrite past its loop.
LEMMA DrainedKeeps ==
    ASSUME NEW k \in Datagrams, Consistent(k), k.pending = <<>>, k.writing
    PROVE  LET r == Drained(k) IN
             /\ r \in Datagrams /\ Consistent(r) /\ r.sent = k.sent /\ r.taken = k.taken
             /\ r.alive = k.alive /\ r.undefined = k.undefined
             /\ r.pending = <<>> /\ ~r.writing
<1> DEFINE s == DisableWriting(k)
<1>1. /\ s \in Datagrams /\ s.writing = FALSE /\ s.state = k.state /\ s.removed = k.removed
      /\ s.reading = k.reading /\ s.forced = k.forced /\ s.lost = k.lost
      /\ s.pending = k.pending /\ s.sent = k.sent /\ s.taken = k.taken
      /\ s.alive = k.alive /\ s.undefined = k.undefined
      /\ k.index = "added" => (s.index = IF k.reading THEN "added" ELSE "deleted")
  BY DEF Datagrams, Indices, DisableWriting, UpdateChannel
<1>2. k.state \in {"kActive", "kClosing"} /\ k.index = "added"
  BY DEF Consistent, Datagrams
<1>3. CASE k.state = "kActive"
  <2>1. Drained(k) = s
    BY <1>3 DEF Drained
  <2> HIDE DEF s
  <2>2. Consistent(s)
    BY <1>1, <1>2, <1>3 DEF Consistent
  <2> QED
    BY <1>1, <2>1, <2>2
<1>4. CASE k.state = "kClosing"
  <2>1. Drained(k) = RemoveChannelInLoop(s)
    BY <1>4 DEF Drained
  <2> HIDE DEF s
  <2>2. /\ s.removed <=> s.state = "kClosed"
        /\ s.state # "kClosed"
        /\ s.index = "new" => ~s.reading /\ ~s.writing
        /\ s.lost # {} \/ s.pending # <<>> => s.forced
    BY <1>1, <1>2, <1>4 DEF Consistent
  <2> QED
    BY <1>1, <2>1, <2>2, RemoveCloses
<1> QED
  BY <1>2, <1>3, <1>4

\* Datagrams are numbers.
LEMMA DatagramNumbers ==
    ASSUME NEW s \in Seq(1..MaxSends)
    PROVE  Len(s) \in Nat /\ \A i \in 1..Len(s) : s[i] \in 1..MaxSends /\ s[i] \in Nat
<1>1. Len(s) \in Nat /\ \A i \in 1..Len(s) : s[i] \in 1..MaxSends
  BY LenProperties, ElementOfSeq
<1> QED
  BY <1>1, UdpAssumption

\* The order of datagrams: with nothing pending there is less to show, and
\* closing, which clears the queue, keeps it.
LEMMA ClearKeepsOrder ==
    ASSUME NEW k, NEW r, InOrder(k), r.sent = k.sent, r.taken = k.taken,
           r.pending = <<>> \/ r.pending = k.pending
    PROVE  InOrder(r)
  BY DEF InOrder, Increasing

\* One more datagram is taken, and goes to the end.
LEMMA AppendKeepsOrder ==
    ASSUME NEW s \in Seq(1..MaxSends), NEW n \in 1..MaxSends, Increasing(s),
           \A i \in 1..Len(s) : s[i] < n
    PROVE  Increasing(Append(s, n))
<1>1. /\ Len(s) \in Nat /\ Len(Append(s, n)) = Len(s) + 1
      /\ \A i \in 1..Len(s) : Append(s, n)[i] = s[i]
      /\ Append(s, n)[Len(s) + 1] = n
  BY AppendElements
<1> QED
  BY <1>1 DEF Increasing

\* sendInLoop keeps the order and raises the interest in writing.
LEMMA SendKeeps ==
    ASSUME NEW k \in Datagrams, Consistent(k), InOrder(k), NEW r,
           k.state = "kActive" => k.taken < MaxSends
    PROVE  LET q == SendInLoop(k, r) IN
             /\ q \in Datagrams /\ Consistent(q) /\ InOrder(q)
             /\ q.alive = k.alive /\ q.undefined = k.undefined
             /\ q.taken <= k.taken + 1
             /\ k.writing => q.writing
             /\ q.writing /\ q.pending = <<>> => k.writing /\ k.pending = <<>>
<1> DEFINE n == k.taken + 1
<1>0. k.taken \in Nat /\ MaxSends \in Nat
  BY UdpAssumption DEF Datagrams
<1>1. CASE k.state # "kActive" \/ (SendsDirectly(k) /\ r = "fail")
  <2>1. SendInLoop(k, r) = k
    BY <1>1 DEF SendInLoop
  <2> QED
    BY <1>0, <2>1
<1>2. CASE k.state = "kActive" /\ SendsDirectly(k) /\ r # "fail" /\ r = "taken"
  <2> DEFINE q == [k EXCEPT !.taken = n, !.sent = Append(@, n)]
  <2>1. SendInLoop(k, r) = q
    BY <1>2 DEF SendInLoop
  <2>2. n \in 1..MaxSends /\ n \in 0..MaxSends /\ k.sent \in Seq(1..MaxSends)
    BY <1>0, <1>2 DEF Datagrams
  <2>3. /\ Append(k.sent, n) \in Seq(1..MaxSends) /\ Len(k.sent) \in Nat
        /\ Len(Append(k.sent, n)) = Len(k.sent) + 1
        /\ \A i \in 1..Len(k.sent) : Append(k.sent, n)[i] = k.sent[i]
        /\ Append(k.sent, n)[Len(k.sent) + 1] = n
    BY <2>2, AppendElements
  <2>4. q \in Datagrams
    BY <2>2, <2>3 DEF Datagrams
  <2>5. /\ q.taken = n /\ q.sent = Append(k.sent, n)
        /\ q.alive = k.alive /\ q.state = k.state /\ q.removed = k.removed
        /\ q.index = k.index /\ q.reading = k.reading /\ q.writing = k.writing
        /\ q.forced = k.forced /\ q.lost = k.lost /\ q.pending = k.pending
        /\ q.undefined = k.undefined
    BY DEF Datagrams
  <2> HIDE DEF q
  <2>6. Consistent(q)
    BY <2>5 DEF Consistent
  <2>7. InOrder(q)
    <3>1. \A i \in 1..Len(k.sent) : k.sent[i] \in Nat /\ k.sent[i] <= k.taken
      <4>1. \A i \in 1..Len(k.sent) : k.sent[i] \in Nat
        BY <2>2, DatagramNumbers
      <4> QED
        BY <4>1 DEF InOrder
    <3>2. Increasing(q.sent)
      <4>1. \A i \in 1..Len(k.sent) : k.sent[i] < n
        BY <1>0, <3>1
      <4> HIDE DEF n
      <4> QED
        BY <2>2, <2>5, <4>1, AppendKeepsOrder DEF InOrder
    <3>3. q.pending = <<>> /\ Len(q.pending) = 0
      BY <1>2, <2>5 DEF SendsDirectly
    <3>4. \A i \in 1..Len(q.sent) : q.sent[i] <= q.taken
      BY SMTT(30), <1>0, <2>3, <2>5, <3>1
    <3> QED
      BY <3>2, <3>3, <3>4 DEF InOrder, Increasing
  <2> QED
    BY <1>0, <2>1, <2>4, <2>5, <2>6, <2>7
<1>3. CASE k.state = "kActive" /\ ~(SendsDirectly(k) /\ r \in {"fail", "taken"})
  <2> DEFINE s == [k EXCEPT !.taken = n, !.pending = Append(@, n)]
             q == IF k.writing THEN s ELSE EnableWriting(s)
  <2>1. SendInLoop(k, r) = q
    BY <1>3 DEF SendInLoop
  <2>2. n \in 1..MaxSends /\ n \in 0..MaxSends /\ k.pending \in Seq(1..MaxSends)
        /\ k.sent \in Seq(1..MaxSends)
    BY <1>0, <1>3 DEF Datagrams
  <2>3. /\ Append(k.pending, n) \in Seq(1..MaxSends) /\ Len(k.pending) \in Nat
        /\ Len(Append(k.pending, n)) = Len(k.pending) + 1
        /\ \A i \in 1..Len(k.pending) : Append(k.pending, n)[i] = k.pending[i]
        /\ Append(k.pending, n)[Len(k.pending) + 1] = n
        /\ Append(k.pending, n) # <<>>
    BY <2>2, AppendElements
  <2>4. s \in Datagrams
    BY <2>2, <2>3 DEF Datagrams
  <2>5. /\ s.taken = n /\ s.pending = Append(k.pending, n)
        /\ s.alive = k.alive /\ s.state = k.state /\ s.removed = k.removed
        /\ s.index = k.index /\ s.reading = k.reading /\ s.writing = k.writing
        /\ s.forced = k.forced /\ s.lost = k.lost /\ s.sent = k.sent
        /\ s.undefined = k.undefined
    BY DEF Datagrams
  <2> HIDE DEF s
  <2>6. k.index = "added" /\ k.reading
    BY <1>3 DEF Consistent
  <2>7. /\ q \in Datagrams
        /\ q.taken = s.taken /\ q.pending = s.pending
        /\ q.alive = s.alive /\ q.state = s.state /\ q.removed = s.removed
        /\ q.index = s.index /\ q.reading = s.reading /\ q.writing = TRUE
        /\ q.forced = s.forced /\ q.lost = s.lost /\ q.sent = s.sent
        /\ q.undefined = s.undefined
    BY ZenonT(30), <2>4, <2>5, <2>6 DEF Datagrams, EnableWriting, UpdateChannel
  <2> HIDE DEF q
  <2>8. Consistent(q)
    BY <1>3, <2>3, <2>5, <2>7 DEF Consistent
  <2>9. InOrder(q)
    <3>1. /\ \A i \in 1..Len(k.sent) : k.sent[i] \in Nat /\ k.sent[i] <= k.taken
          /\ \A i \in 1..Len(k.pending) : k.pending[i] \in Nat /\ k.pending[i] <= k.taken
      <4>1. /\ \A i \in 1..Len(k.sent) : k.sent[i] \in Nat
            /\ \A i \in 1..Len(k.pending) : k.pending[i] \in Nat
        BY <2>2, DatagramNumbers
      <4> QED
        BY <4>1 DEF InOrder
    <3>2. Increasing(q.pending)
      <4>1. \A i \in 1..Len(k.pending) : k.pending[i] < n
        BY <1>0, <3>1
      <4> HIDE DEF n
      <4> QED
        BY <2>2, <2>5, <2>7, <4>1, AppendKeepsOrder DEF InOrder
    <3>3. \A j \in 1..Len(q.pending) : q.pending[j] <= q.taken
      BY SMTT(30), <1>0, <2>3, <2>5, <2>7, <3>1
    <3>4. \A i \in 1..Len(q.sent) : q.sent[i] <= q.taken
      BY <1>0, <2>5, <2>7, <3>1
    <3>5. \A i \in 1..Len(q.sent) : \A j \in 1..Len(q.pending) : q.sent[i] < q.pending[j]
      <4>1. \A i \in 1..Len(k.sent) : \A j \in 1..Len(k.pending) : k.sent[i] < k.pending[j]
        BY DEF InOrder
      <4>2. q.sent = k.sent /\ q.pending = Append(k.pending, n)
        BY <2>5, <2>7
      <4>3. \A j \in 1..Len(Append(k.pending, n)) : j \in 1..Len(k.pending) \/ j = Len(k.pending) + 1
        BY <2>3
      <4> QED
        BY SMTT(30), <1>0, <2>3, <3>1, <4>1, <4>2, <4>3
    <3>6. Increasing(q.sent)
      BY <2>5, <2>7 DEF InOrder
    <3> QED
      BY <3>2, <3>3, <3>4, <3>5, <3>6 DEF InOrder
  <2> QED
    BY <1>0, <2>1, <2>3, <2>5, <2>7, <2>8, <2>9
<1> QED
  BY <1>1, <1>2, <1>3
\* handleWrite hands the first pending datagram to the socket.
LEMMA WriteTakenKeeps ==
    ASSUME NEW k \in Datagrams, Consistent(k), InOrder(k), k.pending # <<>>
    PROVE  LET q == [k EXCEPT !.sent = Append(@, Head(k.pending)), !.pending = Tail(@)] IN
             /\ q \in Datagrams /\ Consistent(q) /\ InOrder(q)
             /\ q.alive = k.alive /\ q.undefined = k.undefined
             /\ q.taken = k.taken /\ q.writing = k.writing
<1> DEFINE h == Head(k.pending)
           q == [k EXCEPT !.sent = Append(@, h), !.pending = Tail(@)]
<1>1. k.sent \in Seq(1..MaxSends) /\ k.pending \in Seq(1..MaxSends) /\ k.taken \in Nat
  BY UdpAssumption DEF Datagrams
<1>2. /\ Tail(k.pending) \in Seq(1..MaxSends) /\ h \in 1..MaxSends /\ h = k.pending[1]
      /\ Len(k.pending) \in Nat /\ Len(k.pending) > 0
      /\ Len(Tail(k.pending)) = Len(k.pending) - 1
      /\ \A i \in 1..(Len(k.pending) - 1) : Tail(k.pending)[i] = k.pending[i + 1]
  BY <1>1, TailElements
<1> HIDE DEF h
<1>3. /\ Append(k.sent, h) \in Seq(1..MaxSends) /\ Len(k.sent) \in Nat
      /\ Len(Append(k.sent, h)) = Len(k.sent) + 1
      /\ \A i \in 1..Len(k.sent) : Append(k.sent, h)[i] = k.sent[i]
      /\ Append(k.sent, h)[Len(k.sent) + 1] = h
  BY <1>1, <1>2, AppendElements
<1>4. q \in Datagrams
  BY <1>2, <1>3 DEF Datagrams
<1>5. /\ q.sent = Append(k.sent, h) /\ q.pending = Tail(k.pending)
      /\ q.alive = k.alive /\ q.state = k.state /\ q.removed = k.removed
      /\ q.index = k.index /\ q.reading = k.reading /\ q.writing = k.writing
      /\ q.forced = k.forced /\ q.lost = k.lost /\ q.taken = k.taken
      /\ q.undefined = k.undefined
  BY DEF Datagrams
<1> HIDE DEF q
<1>6. Consistent(q)
  BY <1>5 DEF Consistent
<1>7. /\ \A i \in 1..Len(k.sent) : k.sent[i] \in Nat
      /\ \A j \in 1..Len(k.pending) : k.pending[j] \in Nat
  BY <1>1, DatagramNumbers
<1>8. /\ Increasing(k.sent) /\ Increasing(k.pending)
      /\ \A i \in 1..Len(k.sent) : \A j \in 1..Len(k.pending) : k.sent[i] < k.pending[j]
      /\ \A i \in 1..Len(k.sent) : k.sent[i] <= k.taken
      /\ \A j \in 1..Len(k.pending) : k.pending[j] <= k.taken
  BY DEF InOrder
<1>9. Increasing(Append(k.sent, h))
  <2>1. \A i \in 1..Len(k.sent) : k.sent[i] < h
    BY <1>2, <1>8
  <2> QED
    BY <1>1, <1>2, <1>8, <2>1, AppendKeepsOrder
<1>10. Increasing(Tail(k.pending)) /\ \A j \in 1..Len(Tail(k.pending)) :
          h < Tail(k.pending)[j] /\ Tail(k.pending)[j] <= k.taken
  BY <1>2, <1>7, <1>8 DEF Increasing
<1>11. \A i \in 1..Len(Append(k.sent, h)) :
          \/ i \in 1..Len(k.sent) /\ Append(k.sent, h)[i] = k.sent[i]
          \/ Append(k.sent, h)[i] = h
  BY <1>3
<1>12. \A i \in 1..Len(k.sent), j \in 1..Len(Tail(k.pending)) : k.sent[i] < Tail(k.pending)[j]
  BY <1>2, <1>8
<1>13. InOrder(q)
  <2>1. h <= k.taken
    BY <1>2, <1>8
  <2> QED
    BY <1>5, <1>8, <1>9, <1>10, <1>11, <1>12, <2>1 DEF InOrder
<1> QED
  BY <1>4, <1>5, <1>6, <1>13 DEF q, h

\* handleWrite drops the first pending datagram after the error callback.
LEMMA PopKeeps ==
    ASSUME NEW k \in Datagrams, Consistent(k), InOrder(k), k.pending # <<>>
    PROVE  LET q == [k EXCEPT !.pending = Tail(@)] IN
             /\ q \in Datagrams /\ Consistent(q) /\ InOrder(q)
             /\ q.alive = k.alive /\ q.undefined = k.undefined
             /\ q.taken = k.taken /\ q.writing = k.writing
<1> DEFINE q == [k EXCEPT !.pending = Tail(@)]
<1>1. k.pending \in Seq(1..MaxSends)
  BY DEF Datagrams
<1>2. /\ Tail(k.pending) \in Seq(1..MaxSends)
      /\ Len(k.pending) \in Nat /\ Len(k.pending) > 0
      /\ Len(Tail(k.pending)) = Len(k.pending) - 1
      /\ \A i \in 1..(Len(k.pending) - 1) : Tail(k.pending)[i] = k.pending[i + 1]
  BY <1>1, TailElements
<1>3. q \in Datagrams
  BY <1>2 DEF Datagrams
<1>4. /\ q.sent = k.sent /\ q.pending = Tail(k.pending)
      /\ q.alive = k.alive /\ q.state = k.state /\ q.removed = k.removed
      /\ q.index = k.index /\ q.reading = k.reading /\ q.writing = k.writing
      /\ q.forced = k.forced /\ q.lost = k.lost /\ q.taken = k.taken
      /\ q.undefined = k.undefined
  BY DEF Datagrams
<1> HIDE DEF q
<1>5. Consistent(q)
  BY <1>4 DEF Consistent
<1>6. InOrder(q)
  <2>1. Increasing(Tail(k.pending))
    BY <1>2 DEF InOrder, Increasing
  <2> QED
    BY <1>2, <1>4, <2>1 DEF InOrder
<1> QED
  BY <1>3, <1>4, <1>5, <1>6 DEF q

\* References go, the last one or not.
LEMMA DropRefKeeps ==
    ASSUME NEW k \in Datagrams, Consistent(k), InOrder(k), NEW was, NEW is
    PROVE  LET r == DropRef(k, was, is) IN
             /\ r \in Datagrams /\ Consistent(r) /\ InOrder(r)
             /\ r.undefined = k.undefined /\ r.taken = k.taken
             /\ r.writing /\ r.pending = <<>> => k.writing /\ k.pending = <<>>
             /\ was /\ ~is => ~r.alive
             /\ ~was \/ is => r = k
<1>1. CASE was /\ ~is
  <2> DEFINE r == DestroyInLoop(k)
  <2>1. DropRef(k, was, is) = r
    BY <1>1 DEF DropRef
  <2>2. /\ r \in Datagrams /\ Consistent(r) /\ ~r.alive
        /\ r.pending = <<>> /\ r.sent = k.sent /\ r.taken = k.taken
        /\ r.undefined = k.undefined /\ ~r.writing
    BY DestroyCloses
  <2> HIDE DEF r
  <2>3. InOrder(r)
    BY <2>2, ClearKeepsOrder
  <2> QED
    BY <1>1, <2>1, <2>2, <2>3
<1>2. CASE ~was \/ is
  BY <1>2 DEF DropRef
<1> QED
  BY <1>1, <1>2
-----------------------------------------------------------------------------
(* Functors, references and frames.                                        *)

\* The functors that are still to run are finitely many.
LEMMA FromFinite ==
    ASSUME NEW fs \in Seq(Functors), NEW n \in Nat, NEW g
    PROVE  IsFiniteSet(From(fs, n, g)) /\ Cardinality(From(fs, n, g)) \in Nat
<1>1. Len(fs) \in Nat
  BY LenProperties
<1>2. IsFiniteSet(n..Len(fs)) /\ From(fs, n, g) \subseteq n..Len(fs)
  BY SMTT(30), <1>1, FS_Interval DEF From
<1> QED
  BY <1>2, FS_Subset, FS_CardinalityType

\* Queueing a functor adds one of its kind.
LEMMA FromAppend ==
    ASSUME NEW fs \in Seq(Functors), NEW f \in Functors, NEW g
    PROVE  Cardinality(From(Append(fs, f), 1, g)) =
             Cardinality(From(fs, 1, g)) + (IF f = g THEN 1 ELSE 0)
<1>1. /\ Len(fs) \in Nat /\ Len(Append(fs, f)) = Len(fs) + 1
      /\ \A i \in 1..Len(fs) : Append(fs, f)[i] = fs[i]
      /\ Append(fs, f)[Len(fs) + 1] = f
  BY AppendElements
<1>2. IsFiniteSet(From(fs, 1, g)) /\ Cardinality(From(fs, 1, g)) \in Nat
  BY FromFinite
<1>3. Len(fs) + 1 \notin From(fs, 1, g)
  BY <1>1 DEF From
<1>4. From(Append(fs, f), 1, g) =
        From(fs, 1, g) \cup (IF f = g THEN {Len(fs) + 1} ELSE {})
  BY <1>1 DEF From
<1>5. CASE f = g
  <2>1. From(Append(fs, f), 1, g) = From(fs, 1, g) \cup {Len(fs) + 1}
    BY <1>4, <1>5
  <2>2. Cardinality(From(fs, 1, g) \cup {Len(fs) + 1}) = Cardinality(From(fs, 1, g)) + 1
    BY <1>2, <1>3, FS_AddElement
  <2> QED
    BY <1>5, <2>1, <2>2
<1>6. CASE f # g
  <2>1. From(Append(fs, f), 1, g) = From(fs, 1, g)
    BY <1>4, <1>6
  <2> QED
    BY <1>2, <1>6, <2>1
<1> QED
  BY <1>5, <1>6

\* Running the next functor of the batch takes one of its kind off.
LEMMA FromNext ==
    ASSUME NEW fs \in Seq(Functors), NEW n \in 1..Len(fs), NEW g
    PROVE  Cardinality(From(fs, n, g)) =
             Cardinality(From(fs, n + 1, g)) + (IF fs[n] = g THEN 1 ELSE 0)
<1>1. Len(fs) \in Nat /\ n \in Nat /\ n + 1 \in Nat
  BY LenProperties
<1>2. IsFiniteSet(From(fs, n + 1, g)) /\ Cardinality(From(fs, n + 1, g)) \in Nat
  BY <1>1, FromFinite
<1>3. n \notin From(fs, n + 1, g)
  BY <1>1 DEF From
<1>4. From(fs, n, g) = From(fs, n + 1, g) \cup (IF fs[n] = g THEN {n} ELSE {})
  BY <1>1 DEF From
<1>5. CASE fs[n] = g
  <2>1. From(fs, n, g) = From(fs, n + 1, g) \cup {n}
    BY <1>4, <1>5
  <2>2. Cardinality(From(fs, n + 1, g) \cup {n}) = Cardinality(From(fs, n + 1, g)) + 1
    BY <1>2, <1>3, FS_AddElement
  <2> QED
    BY <1>5, <2>1, <2>2
<1>6. CASE fs[n] # g
  <2>1. From(fs, n, g) = From(fs, n + 1, g)
    BY <1>4, <1>6
  <2> QED
    BY <1>2, <1>6, <2>1
<1> QED
  BY <1>5, <1>6

\* Nothing is left of an empty queue, or past the end of a batch.
LEMMA FromEnd ==
    ASSUME NEW fs \in Seq(Functors), NEW n \in Nat, n > Len(fs), NEW g
    PROVE  Cardinality(From(fs, n, g)) = 0
<1>1. Len(fs) \in Nat
  BY LenProperties
<1>2. From(fs, n, g) = {}
  BY <1>1 DEF From
<1> QED
  BY <1>2, FS_EmptySet

LEMMA FromEmpty ==
    ASSUME NEW g, NEW n \in Nat, n >= 1
    PROVE  Cardinality(From(<<>>, n, g)) = 0
<1>1. <<>> \in Seq(Functors) /\ Len(<<>>) = 0
  BY EmptySeq
<1>2. n > Len(<<>>)
  BY <1>1
<1> QED
  BY <1>1, <1>2, FromEnd

\* Some functor of a kind is left exactly when there is one to be found.
LEMMA FromMember ==
    ASSUME NEW fs \in Seq(Functors), NEW n \in Nat, n >= 1, n <= Len(fs) + 1, NEW g
    PROVE  Cardinality(From(fs, n, g)) > 0 <=> g \in ToSet(SubSeq(fs, n, Len(fs)))
<1> DEFINE t == SubSeq(fs, n, Len(fs))
<1>1. Len(fs) \in Nat
  BY LenProperties
<1>2. /\ t \in Seq(Functors) /\ Len(t) = Len(fs) - n + 1
      /\ \A i \in 1..(Len(fs) - n + 1) : t[i] = fs[n + i - 1]
  <2>1. CASE n <= Len(fs)
    BY <1>1, <2>1, SubSeqProperties
  <2>2. CASE n = Len(fs) + 1
    BY <1>1, <2>2, SubSeqProperties, EmptySeq
  <2> QED
    BY <1>1, <2>1, <2>2
<1> HIDE DEF t
<1>3. DOMAIN t = 1..(Len(fs) - n + 1)
  BY <1>2, LenProperties
<1>4. g \in ToSet(t) <=> From(fs, n, g) # {}
  <2>1. ASSUME NEW i \in 1..(Len(fs) - n + 1), t[i] = g PROVE n + i - 1 \in From(fs, n, g)
    BY <1>1, <1>2, <2>1 DEF From
  <2>2. ASSUME NEW i \in From(fs, n, g) PROVE i - n + 1 \in DOMAIN t /\ t[i - n + 1] = g
    <3>1. i \in n..Len(fs) /\ fs[i] = g
      BY DEF From
    <3>2. i - n + 1 \in 1..(Len(fs) - n + 1) /\ n + (i - n + 1) - 1 = i
      BY <1>1, <3>1
    <3> QED
      BY <1>2, <1>3, <3>1, <3>2
  <2> QED
    BY <1>3, <2>1, <2>2, Zenon DEF ToSet
<1>5. IsFiniteSet(From(fs, n, g)) /\ Cardinality(From(fs, n, g)) \in Nat
  BY FromFinite
<1>6. Cardinality(From(fs, n, g)) = 0 <=> From(fs, n, g) = {}
  BY <1>5, FS_EmptySet
<1> QED
  BY <1>4, <1>5, <1>6 DEF t

\* Functors that hold the datagram, as a set.
LEMMA StrongIsSet ==
    ASSUME NEW fs
    PROVE  Strong(fs) <=> \E c \in Calls : c \in ToSet(fs)
<1>1. ASSUME NEW i \in DOMAIN fs, fs[i] \in Calls PROVE \E c \in Calls : c \in ToSet(fs)
  BY <1>1 DEF ToSet
<1>2. ASSUME NEW c \in Calls, c \in ToSet(fs) PROVE \E i \in DOMAIN fs : fs[i] \in Calls
  <2>1. PICK i \in DOMAIN fs : fs[i] = c
    BY <1>2, Zenon DEF ToSet
  <2> QED
    BY <1>2, <2>1
<1> QED
  BY <1>1, <1>2 DEF Strong

\* The innermost frame.
LEMMA TopFrame ==
    ASSUME NEW S, "other" \notin S, NEW stk \in Seq(S)
    PROVE  /\ Len(stk) \in Nat
           /\ stk = <<>> <=> Len(stk) = 0
           /\ stk = <<>> => Top(stk) = "other"
           /\ stk # <<>> => Top(stk) = stk[Len(stk)] /\ Len(stk) > 0 /\ Top(stk) \in S
<1>1. Len(stk) \in Nat /\ (stk = <<>> <=> Len(stk) = 0)
  BY LenProperties, EmptySeq
<1>2. stk # <<>> => stk[Len(stk)] \in S /\ Len(stk) > 0
  BY <1>1, ElementOfSeq
<1> QED
  BY <1>1, <1>2 DEF Top, Last

\* Calling from a frame, and returning from it, keep the nesting.
LEMMA PushKeepsNested ==
    ASSUME NEW S, NEW stk \in Seq(S), NEW f \in S, Nested(stk),
           f \notin {"event", "functors"},
           f = "write" => stk = <<"event">>
    PROVE  Nested(Append(stk, f))
<1>1. /\ Len(stk) \in Nat /\ Len(Append(stk, f)) = Len(stk) + 1
      /\ \A i \in 1..Len(stk) : Append(stk, f)[i] = stk[i]
      /\ Append(stk, f)[Len(stk) + 1] = f
  BY AppendElements
<1>2. \A i \in 1..Len(Append(stk, f)) : i \in 1..Len(stk) \/ i = Len(stk) + 1
  BY <1>1
<1>3. \A i \in 1..Len(stk) : 1 \in 1..Len(stk)
  BY <1>1
<1>4. f = "write" => Len(stk) = 1 /\ stk[1] = "event"
  <2> HAVE f = "write"
  <2>1. stk = <<"event">>
    OBVIOUS
  <2> QED
    BY <2>1
<1> QED
  BY <1>1, <1>2, <1>3, <1>4 DEF Nested

LEMMA PopKeepsNested ==
    ASSUME NEW S, NEW stk \in Seq(S), stk # <<>>, Nested(stk)
    PROVE  Nested(Front(stk))
<1>1. /\ Len(stk) \in Nat /\ Len(stk) > 0 /\ Len(Front(stk)) = Len(stk) - 1
      /\ \A i \in 1..(Len(stk) - 1) : Front(stk)[i] = stk[i]
  BY FrontElements
<1>2. \A i \in 1..(Len(stk) - 1) : i \in 1..Len(stk) /\ 1 \in 1..(Len(stk) - 1)
  BY <1>1
<1> QED
  BY <1>1, <1>2 DEF Nested
\* What holds the datagram after a step held it before, if no call was queued
\* and no handler entered.
LEMMA HeldBefore ==
    ASSUME userRef' => userRef,
           \A c \in Calls : c \in ToSet(queue') => c \in ToSet(queue),
           \A c \in Calls : c \in ToSet(batch') => c \in ToSet(queue) \cup ToSet(batch),
           \A f \in {"event", "complete"} : f \in ToSet(stack') => f \in ToSet(stack)
    PROVE  Held(userRef, queue, batch, stack)' => Held(userRef, queue, batch, stack)
<1>1. Strong(queue)' => Strong(queue)
  BY StrongIsSet
<1>2. Strong(batch)' => Strong(queue) \/ Strong(batch)
  BY StrongIsSet
<1> QED
  BY <1>1, <1>2 DEF Held

\* Ownership is kept by a step that drops no last reference, or deletes with the
\* last one, and neither queues nor runs a deletion.
LEMMA OwnershipStep ==
    ASSUME Ownership, Left("destroy")' = Left("destroy"),
           \/ /\ Held(userRef, queue, batch, stack)' <=> Held(userRef, queue, batch, stack)
              /\ d'.alive = d.alive
           \/ /\ Held(userRef, queue, batch, stack) /\ ~Held(userRef, queue, batch, stack)'
              /\ ~d'.alive
    PROVE  Ownership'
  BY DEF Ownership

\* What keeps the frames is kept by a step that leaves the outer frames alone or
\* returns from them,
LEMMA FramesStep ==
    ASSUME FramesHeld, batch' = batch, userRef' = userRef,
           NEW S, stack \in Seq(S), stack' \in Seq(S),
           \A i \in 1..Len(stack') : i <= 2 => i <= Len(stack) /\ stack'[i] = stack[i],
           batch # <<>> => stack' # <<>>
    PROVE  FramesHeld'
<1>1. Len(stack) \in Nat /\ Len(stack') \in Nat
  BY LenProperties
<1>2. /\ stack' # <<>> <=> Len(stack') >= 1
      /\ stack # <<>> <=> Len(stack) >= 1
  BY <1>1, EmptySeq
<1> QED
  BY <1>1, <1>2 DEF FramesHeld

\* and by one that enters a frame: user code outside handlers is called through
\* the user's pointer, and a functor that calls it holds the datagram.
LEMMA FramesPush ==
    ASSUME FramesHeld, batch' = batch, userRef' = userRef,
           NEW S, stack \in Seq(S), NEW f \in S, stack' = Append(stack, f),
           stack = <<>> => userRef /\ f \in Callbacks,
           stack = <<"functors">> => f = "complete" \/ Strong(batch)
    PROVE  FramesHeld'
<1>1. /\ Len(stack) \in Nat /\ Len(stack') = Len(stack) + 1 /\ stack' # <<>>
      /\ \A i \in 1..Len(stack) : stack'[i] = stack[i]
      /\ stack'[Len(stack) + 1] = f
  BY AppendElements
<1>2. stack # <<>> <=> Len(stack) >= 1
  BY <1>1, EmptySeq
<1>3. Len(stack) = 1 /\ stack[1] = "functors" => stack = <<"functors">>
  OBVIOUS
<1>4. "functors" \notin Callbacks
  BY DEF Callbacks
<1>5. CASE stack = <<>>
  BY <1>1, <1>2, <1>4, <1>5 DEF FramesHeld
<1>6. CASE Len(stack) = 1
  BY <1>1, <1>2, <1>3, <1>6 DEF FramesHeld
<1>7. CASE Len(stack) >= 2
  BY <1>1, <1>2, <1>7 DEF FramesHeld
<1>8. stack = <<>> \/ Len(stack) = 1 \/ Len(stack) >= 2
  <2>1. Len(stack) \in Nat /\ (stack # <<>> => Len(stack) >= 1)
    BY <1>1, <1>2
  <2>2. \A n \in Nat : n >= 1 => n = 1 \/ n >= 2
    OBVIOUS
  <2> QED
    BY <2>1, <2>2
<1> QED
  BY <1>5, <1>6, <1>7, <1>8

-----------------------------------------------------------------------------
(* The steps: calls of the user.                                           *)

\* What the invariant says of the types, with the numbers that matter.
LEMMA Types ==
    ASSUME UdpInv
    PROVE  /\ d \in Datagrams /\ d.taken \in Nat /\ d.undefined \in BOOLEAN
           /\ Consistent(d) /\ InOrder(d) /\ Nested(stack)
           /\ queue \in Seq(Functors) /\ batch \in Seq(Functors)
           /\ Len(batch) \in Nat /\ next \in Nat /\ next >= 1 /\ next <= Len(batch) + 1
           /\ stack \in Seq(Callbacks \cup {"event", "functors", "write"})
           /\ "other" \notin Callbacks \cup {"event", "functors", "write"}
           /\ Len(stack) \in Nat /\ Len(stack) <= MaxDepth /\ MaxDepth \in Nat /\ MaxDepth >= 3
           /\ sends \in Nat /\ sends <= MaxSends /\ MaxSends \in Nat
           /\ \A f : /\ Cardinality(From(queue, 1, f)) \in Nat
                   /\ Cardinality(From(batch, next, f)) \in Nat
<1>1. UdpTypeOK /\ Consistent(d) /\ InOrder(d) /\ Nested(stack)
  BY DEF UdpInv
<1>2. /\ queue \in Seq(Functors) /\ batch \in Seq(Functors)
      /\ stack \in Seq(Callbacks \cup {"event", "functors", "write"})
      /\ d \in Datagrams /\ next \in 1..(Len(batch) + 1)
  BY <1>1 DEF UdpTypeOK
<1>3. /\ Len(batch) \in Nat /\ Len(stack) \in Nat
  BY <1>2, LenProperties
<1>4. next \in Nat /\ next >= 1 /\ next <= Len(batch) + 1
  BY <1>2, <1>3
<1>5. d.taken \in Nat /\ d.undefined \in BOOLEAN
  BY <1>2, UdpAssumption DEF Datagrams
<1>6. "other" \notin Callbacks \cup {"event", "functors", "write"}
  BY DEF Callbacks
<1>7. \A f : /\ Cardinality(From(queue, 1, f)) \in Nat
               /\ Cardinality(From(batch, next, f)) \in Nat
  BY <1>2, <1>4, FromFinite
<1>8. /\ Len(stack) <= MaxDepth /\ MaxDepth \in Nat /\ MaxDepth >= 3
      /\ sends \in Nat /\ sends <= MaxSends /\ MaxSends \in Nat
  BY <1>1, UdpAssumption DEF UdpTypeOK
<1> QED
  BY <1>1, <1>2, <1>3, <1>4, <1>5, <1>6, <1>7, <1>8

\* User code is not called by handleWrite itself.
LEMMA UserCodeFrame ==
    ASSUME UdpInv, UserCode \/ stack = <<"functors">>
    PROVE  ~(Len(stack) = 2 /\ stack[2] = "write")
<1>1. CASE UserCode
  <2>1. stack # <<>> => Top(stack) = stack[Len(stack)]
    BY Types, TopFrame
  <2> QED
    BY <1>1, <2>1 DEF UserCode, Callbacks
<1>2. CASE stack = <<"functors">>
  BY <1>2
<1> QED
  BY <1>1, <1>2

\* start, close and forceClose on the loop thread.
LEMMA LoopCallKeeps ==
    ASSUME UdpInv, NEW op \in Calls, LoopCall(op)
    PROVE  UdpInv'
<1>1. d \in Datagrams /\ Consistent(d) /\ InOrder(d) /\ d.taken \in Nat
  BY Types
<1>2. UNCHANGED <<userRef, sends, queue, batch, next, stack, active, revents>> /\ UserCode
  BY DEF LoopCall
<1>3. /\ d' \in Datagrams /\ Consistent(d') /\ d'.sent = d.sent /\ d'.taken = d.taken
      /\ d'.alive = d.alive /\ d'.undefined = d.undefined
      /\ \/ d'.pending = d.pending /\ d'.writing = d.writing
         \/ d'.pending = <<>> /\ ~d'.writing
  <2>1. CASE d' = StartInLoop(d)
    BY <1>1, <2>1, StartKeeps
  <2>2. CASE d' = CloseInLoop(d)
    BY <1>1, <2>2, CloseKeeps
  <2>3. CASE d' = ForceCloseInLoop(d)
    BY <1>1, <2>3, ForceCloseCloses
  <2> QED
    BY <2>1, <2>2, <2>3 DEF LoopCall
<1>4. UdpTypeOK'
  BY <1>2, <1>3 DEF UdpInv, UdpTypeOK
<1>5. InOrder(d')
  BY <1>1, <1>3, ClearKeepsOrder
<1>6. WriteFrame'
  BY <1>2, <1>3, UserCodeFrame DEF UdpInv, WriteFrame
<1>7. SendsAccounted' /\ Nested(stack)'
  BY <1>2, <1>3 DEF UdpInv, SendsAccounted, Left, From, Nested
<1>8. Ownership'
  BY <1>2, <1>3, OwnershipStep DEF UdpInv, Left
<1>9. FramesHeld'
  BY <1>2 DEF UdpInv, FramesHeld
<1> QED
  BY <1>3, <1>4, <1>5, <1>6, <1>7, <1>8, <1>9 DEF UdpInv

\* The calls from another thread.
LEMMA ForeignCallKeeps ==
    ASSUME UdpInv, NEW op \in Calls, ForeignCall(op)
    PROVE  UdpInv'
<1>1. /\ UNCHANGED <<d, userRef, batch, next, stack, active, revents>>
      /\ queue' = Append(queue, op) /\ userRef
      /\ sends' = (IF op = "send" THEN sends + 1 ELSE sends) /\ sends' <= MaxSends
  BY DEF ForeignCall
<1>2. op \in Functors /\ queue \in Seq(Functors) /\ op # "destroy"
  BY Types DEF Functors, Calls
<1>3. /\ queue' \in Seq(Functors) /\ ToSet(queue') = ToSet(queue) \cup {op}
      /\ Cardinality(From(queue', 1, "send")) =
           Cardinality(From(queue, 1, "send")) + (IF op = "send" THEN 1 ELSE 0)
      /\ Cardinality(From(queue', 1, "destroy")) = Cardinality(From(queue, 1, "destroy")) + 0
  BY <1>1, <1>2, AppendElements, FromAppend
<1>4. UdpTypeOK'
  <2>1. sends' \in 0..MaxSends
    BY SMTT(30), <1>1, Types
  <2> QED
    BY <1>1, <1>3, <2>1 DEF UdpInv, UdpTypeOK
<1>5. Consistent(d') /\ InOrder(d') /\ Nested(stack') /\ WriteFrame'
  BY <1>1 DEF UdpInv, WriteFrame, Running
<1>6. SendsAccounted'
  <2>1. From(batch', next', "send") = From(batch, next, "send")
    BY <1>1
  <2> QED
    <3>1. d.taken + (Cardinality(From(queue, 1, "send")) + Cardinality(From(batch, next, "send"))) <= sends
      BY DEF UdpInv, SendsAccounted, Left
    <3>2. /\ d.taken \in Nat /\ sends \in Nat
          /\ Cardinality(From(queue, 1, "send")) \in Nat
          /\ Cardinality(From(batch, next, "send")) \in Nat
      BY Types
    <3>3. d'.taken + (Cardinality(From(queue', 1, "send")) + Cardinality(From(batch', next', "send"))) <= sends'
      BY SMTT(30), <1>1, <1>3, <2>1, <3>1, <3>2
    <3> QED
      BY <3>3 DEF SendsAccounted, Left
<1>7. Ownership'
  <2>1. Held(userRef, queue, batch, stack) /\ Held(userRef, queue, batch, stack)'
    BY <1>1 DEF Held
  <2>2. Left("destroy")' = Left("destroy")
    BY <1>1, <1>3, Types DEF Left
  <2> QED
    BY <1>1, <2>1, <2>2, OwnershipStep DEF UdpInv
<1>8. FramesHeld'
  BY <1>1 DEF UdpInv, FramesHeld
<1> QED
  BY <1>4, <1>5, <1>6, <1>7, <1>8 DEF UdpInv
\* sendInLoop, with the error callback it may call.
LEMMA DoSendKeeps ==
    ASSUME UdpInv, Running, NEW r \in Results, DoSend(r),
           UserCode \/ stack = <<"functors">>,
           d.taken < MaxSends
    PROVE  /\ d' \in Datagrams /\ Consistent(d') /\ InOrder(d')
           /\ d'.taken \in Nat /\ d'.taken <= d.taken + 1
           /\ d'.alive = d.alive /\ d'.undefined = d.undefined
           /\ queue' \in Seq(Functors)
           /\ \A f \in {"send", "destroy"} :
                Cardinality(From(queue', 1, f)) = Cardinality(From(queue, 1, f))
           /\ ToSet(queue) \subseteq ToSet(queue')
           /\ ToSet(queue') \subseteq ToSet(queue) \cup {"complete"}
           /\ stack' \in Seq(Callbacks \cup {"event", "functors", "write"})
           /\ Len(stack') <= MaxDepth /\ Nested(stack') /\ WriteFrame'
           /\ ToSet(stack) \subseteq ToSet(stack')
           /\ ToSet(stack') \subseteq ToSet(stack) \cup {"error"}
           /\ stack' = stack \/ stack' = Append(stack, "error")
<1> DEFINE Frames == Callbacks \cup {"event", "functors", "write"}
<1>1. /\ d \in Datagrams /\ Consistent(d) /\ InOrder(d) /\ Nested(stack)
      /\ queue \in Seq(Functors) /\ stack \in Seq(Frames) /\ Len(stack) \in Nat
      /\ Len(stack) <= MaxDepth /\ MaxDepth \in Nat /\ WriteFrame
      /\ \A f : Cardinality(From(queue, 1, f)) \in Nat
  BY Types DEF UdpInv
<1>2. "error" \in Frames /\ "complete" \in Functors
  BY DEF Callbacks, Functors
<1> HIDE DEF Frames
<1>3. /\ d' \in Datagrams /\ Consistent(d') /\ InOrder(d')
      /\ d'.alive = d.alive /\ d'.undefined = d.undefined
      /\ d'.taken <= d.taken + 1
      /\ d.writing => d'.writing
      /\ d'.writing /\ d'.pending = <<>> => d.writing /\ d.pending = <<>>
  <2>1. d' = SendInLoop(d, r)
    BY DEF DoSend
  <2> QED
    BY <1>1, <2>1, SendKeeps
<1>4. d'.taken \in Nat
  BY <1>3, UdpAssumption DEF Datagrams
<1>5. /\ queue' \in Seq(Functors)
      /\ \A f \in {"send", "destroy"} :
           Cardinality(From(queue', 1, f)) = Cardinality(From(queue, 1, f))
      /\ ToSet(queue) \subseteq ToSet(queue')
      /\ ToSet(queue') \subseteq ToSet(queue) \cup {"complete"}
  <2>1. CASE queue' = queue
    BY <1>1, <2>1
  <2>2. CASE queue' = Append(queue, "complete")
    <3>1. queue' \in Seq(Functors) /\ ToSet(queue') = ToSet(queue) \cup {"complete"}
      BY <1>1, <1>2, <2>2, AppendElements
    <3>2. \A f \in {"send", "destroy"} :
            Cardinality(From(queue', 1, f)) = Cardinality(From(queue, 1, f)) + 0
      BY <1>1, <1>2, <2>2, FromAppend
    <3> QED
      BY <1>1, <3>1, <3>2
  <2> QED
    BY <2>1, <2>2 DEF DoSend
<1>6. ~(Len(stack) = 2 /\ stack[2] = "write")
  BY UserCodeFrame
<1>7. CASE stack' = stack
  <2>1. WriteFrame'
    BY <1>1, <1>3, <1>6, <1>7 DEF WriteFrame
  <2> QED
    BY <1>1, <1>3, <1>4, <1>5, <1>7, <2>1 DEF Frames
<1>8. CASE stack' = Append(stack, "error") /\ Len(stack) < MaxDepth
  <2>1. /\ stack' \in Seq(Frames) /\ Len(stack') = Len(stack) + 1
        /\ \A i \in 1..Len(stack) : stack'[i] = stack[i]
        /\ stack'[Len(stack) + 1] = "error"
        /\ ToSet(stack') = ToSet(stack) \cup {"error"}
    BY <1>1, <1>2, <1>8, AppendElements
  <2>2. Nested(stack')
    BY <1>1, <1>2, <1>8, PushKeepsNested
  <2>3. WriteFrame'
    <3>1. d'.writing /\ d'.pending = <<>> => Len(stack') >= 2 /\ stack'[2] = "write"
      BY <1>1, <1>3, <2>1 DEF WriteFrame
    <3>2. ~(Len(stack') = 2 /\ stack'[2] = "write")
      BY <1>1, <2>1
    <3> QED
      BY <3>1, <3>2 DEF WriteFrame
  <2> QED
    BY <1>1, <1>3, <1>4, <1>5, <1>8, <2>1, <2>2, <2>3 DEF Frames
<1> QED
  BY <1>7, <1>8 DEF DoSend

LEMMA LoopSendKeeps ==
    ASSUME UdpInv, NEW r \in Results, LoopSend(r)
    PROVE  UdpInv'
<1>1. /\ UNCHANGED <<userRef, batch, next, active, revents>> /\ userRef
      /\ sends' = sends + 1 /\ sends < MaxSends /\ DoSend(r) /\ Running /\ UserCode
  BY DEF LoopSend
<1>2. /\ d.taken \in Nat /\ sends \in Nat /\ MaxSends \in Nat
      /\ \A f : /\ Cardinality(From(queue, 1, f)) \in Nat
              /\ Cardinality(From(batch, next, f)) \in Nat
  BY Types
<1>3. d.taken + (Cardinality(From(queue, 1, "send")) + Cardinality(From(batch, next, "send"))) <= sends
  BY DEF UdpInv, SendsAccounted, Left
<1>4. d.taken < MaxSends
  BY <1>1, <1>2, <1>3
<1>5. /\ d' \in Datagrams /\ Consistent(d') /\ InOrder(d')
      /\ d'.taken \in Nat /\ d'.taken <= d.taken + 1
      /\ d'.alive = d.alive /\ d'.undefined = d.undefined
      /\ queue' \in Seq(Functors)
      /\ \A f \in {"send", "destroy"} :
           Cardinality(From(queue', 1, f)) = Cardinality(From(queue, 1, f))
      /\ ToSet(queue') \subseteq ToSet(queue) \cup {"complete"}
      /\ stack' \in Seq(Callbacks \cup {"event", "functors", "write"})
      /\ Len(stack') <= MaxDepth /\ Nested(stack') /\ WriteFrame'
      /\ stack' = stack \/ stack' = Append(stack, "error")
  BY <1>1, <1>4, DoSendKeeps
<1>6. UdpTypeOK'
  <2>1. sends' \in 0..MaxSends
    BY <1>1, <1>2
  <2> QED
    BY <1>1, <1>5, <2>1 DEF UdpInv, UdpTypeOK
<1>7. SendsAccounted'
  <2>1. Cardinality(From(batch', next', "send")) = Cardinality(From(batch, next, "send"))
    BY <1>1
  <2>2. d'.taken + (Cardinality(From(queue', 1, "send")) + Cardinality(From(batch', next', "send"))) <= sends'
    <3>1. /\ d.taken \in Nat /\ sends \in Nat /\ Cardinality(From(queue, 1, "send")) \in Nat
          /\ Cardinality(From(batch, next, "send")) \in Nat
      BY <1>2
    <3>2. /\ d'.taken \in Nat /\ d'.taken <= d.taken + 1 /\ sends' = sends + 1
          /\ Cardinality(From(queue', 1, "send")) = Cardinality(From(queue, 1, "send"))
      BY <1>1, <1>5
    <3> QED
      BY <1>3, <2>1, <3>1, <3>2
  <2> QED
    BY <2>2 DEF SendsAccounted, Left
<1>8. Ownership'
  <2>1. Held(userRef, queue, batch, stack) /\ Held(userRef, queue, batch, stack)'
    BY <1>1 DEF Held
  <2>2. Left("destroy")' = Left("destroy")
    BY <1>1, <1>5 DEF Left
  <2> QED
    BY <1>5, <2>1, <2>2, OwnershipStep DEF UdpInv
<1>9. FramesHeld'
  <2>1. CASE stack' = stack
    BY <1>1, <2>1 DEF UdpInv, FramesHeld
  <2>2. CASE stack' = Append(stack, "error")
    <3>1. stack # <<"functors">>
      <4>1. ASSUME stack = <<"functors">> PROVE FALSE
        <5>1. Top(stack) = "functors"
          BY <4>1 DEF Top, Last
        <5> QED
          BY <1>1, <5>1 DEF UserCode, Callbacks
      <4> QED
        BY <4>1
    <3>2. "error" \in Callbacks /\ stack \in Seq(Callbacks \cup {"event", "functors", "write"})
      BY Types DEF Callbacks
    <3> QED
      BY <1>1, <2>2, <3>1, <3>2, FramesPush DEF UdpInv
  <2> QED
    BY <1>5, <2>1, <2>2
<1> QED
  BY <1>5, <1>6, <1>7, <1>8, <1>9 DEF UdpInv

\* The user lets go of its pointer only inside a handler or outside its calls.
LEMMA ReleaseFrame ==
    ASSUME UdpInv, stack # <<>> => Head(stack) \in {"event", "functors"}
    PROVE  ~(stack # <<>> /\ stack[1] \in Callbacks)
<1>1. stack \in Seq(Callbacks \cup {"event", "functors", "write"})
  BY Types
<1>2. stack # <<>> => Head(stack) = stack[1]
  BY <1>1, TailElements
<1> QED
  BY <1>2 DEF Callbacks

\* The user lets go of its pointer on the loop thread.
LEMMA LoopReleaseKeeps ==
    ASSUME UdpInv, LoopRelease
    PROVE  UdpInv'
<1>1. /\ UNCHANGED <<sends, queue, batch, next, stack, active, revents>>
      /\ UserCode /\ userRef /\ userRef' = FALSE
      /\ stack # <<>> => Head(stack) \in {"event", "functors"}
      /\ d' = DropRef(d, TRUE, Held(userRef, queue, batch, stack)')
  BY DEF LoopRelease
<1>2. d \in Datagrams /\ Consistent(d) /\ InOrder(d)
  BY Types
<1>3. /\ d' \in Datagrams /\ Consistent(d') /\ InOrder(d')
      /\ d'.undefined = d.undefined /\ d'.taken = d.taken
      /\ d'.writing /\ d'.pending = <<>> => d.writing /\ d.pending = <<>>
      /\ ~Held(userRef, queue, batch, stack)' => ~d'.alive
      /\ Held(userRef, queue, batch, stack)' => d' = d
  <2> DEFINE is == Held(userRef, queue, batch, stack)'
             r == DropRef(d, TRUE, is)
  <2> HIDE DEF is
  <2>1. /\ r \in Datagrams /\ Consistent(r) /\ InOrder(r)
        /\ r.undefined = d.undefined /\ r.taken = d.taken
        /\ r.writing /\ r.pending = <<>> => d.writing /\ d.pending = <<>>
        /\ TRUE /\ ~is => ~r.alive
        /\ ~TRUE \/ is => r = d
    BY ZenonT(30), <1>2, DropRefKeeps
  <2>2. d' = r
    BY <1>1 DEF is
  <2> QED
    BY <2>1, <2>2 DEF is
<1>4. UdpTypeOK'
  BY <1>1, <1>3 DEF UdpInv, UdpTypeOK
<1>5. Nested(stack') /\ WriteFrame' /\ SendsAccounted'
  BY <1>1, <1>3, UserCodeFrame DEF UdpInv, WriteFrame, SendsAccounted, Left, From
<1>6. Ownership'
  <2>1. Held(userRef, queue, batch, stack)
    BY <1>1 DEF Held
  <2>2. Left("destroy")' = Left("destroy")
    BY <1>1 DEF Left
  <2> QED
    BY <1>3, <2>1, <2>2, OwnershipStep DEF UdpInv
<1>7. FramesHeld'
  BY <1>1, ReleaseFrame DEF UdpInv, FramesHeld
<1> QED
  BY <1>3, <1>4, <1>5, <1>6, <1>7 DEF UdpInv

\* ... or on another thread.
LEMMA ForeignReleaseKeeps ==
    ASSUME UdpInv, ForeignRelease
    PROVE  UdpInv'
<1>1. /\ UNCHANGED <<sends, batch, next, stack, active, revents>> /\ userRef' = FALSE /\ userRef
      /\ stack # <<>> => Head(stack) \in {"event", "functors"}
  BY DEF ForeignRelease
<1>2. /\ d \in Datagrams /\ Consistent(d) /\ InOrder(d) /\ queue \in Seq(Functors)
      /\ \A f : /\ Cardinality(From(queue, 1, f)) \in Nat
              /\ Cardinality(From(batch, next, f)) \in Nat
  BY Types
<1>3. Held(userRef, queue, batch, stack)
  BY <1>1 DEF Held
<1>4. d.alive /\ Left("destroy") = 0
  BY <1>3 DEF UdpInv, Ownership
<1>4a. FramesHeld'
  BY <1>1, ReleaseFrame DEF UdpInv, FramesHeld
<1>5. CASE Held(FALSE, queue, batch, stack)
  <2>1. UNCHANGED <<d, queue>>
    BY <1>5 DEF ForeignRelease
  <2>2. UdpTypeOK'
    BY <1>1, <2>1 DEF UdpInv, UdpTypeOK
  <2>3. Consistent(d') /\ InOrder(d') /\ Nested(stack') /\ WriteFrame' /\ SendsAccounted'
    BY <1>1, <2>1 DEF UdpInv, WriteFrame, Running, SendsAccounted, Left, From
  <2>4. Ownership'
    <3>1. Held(userRef, queue, batch, stack)'
      BY <1>1, <1>5, <2>1
    <3> QED
      BY <1>1, <1>3, <2>1, <3>1, OwnershipStep DEF UdpInv, Left
  <2> QED
    BY <1>4a, <2>2, <2>3, <2>4 DEF UdpInv
<1>6. CASE ~Held(FALSE, queue, batch, stack) /\ d.state \in {"kNew", "kClosed"}
  <2>1. d' = DestroyInLoop(d) /\ queue' = queue
    BY <1>6 DEF ForeignRelease
  <2>2. /\ d' \in Datagrams /\ Consistent(d') /\ ~d'.alive
        /\ d'.pending = <<>> /\ d'.sent = d.sent /\ d'.taken = d.taken
        /\ d'.undefined = d.undefined /\ ~d'.writing
    BY <1>2, <2>1, DestroyCloses
  <2>3. InOrder(d')
    BY <1>2, <2>2, ClearKeepsOrder
  <2>4. UdpTypeOK'
    BY <1>1, <2>1, <2>2 DEF UdpInv, UdpTypeOK
  <2>5. WriteFrame'
    <3>1. ~d.writing
      BY <1>2, <1>6 DEF Consistent
    <3> QED
      BY <1>1, <2>2, <3>1 DEF UdpInv, WriteFrame, Running
  <2>6. Nested(stack') /\ SendsAccounted'
    BY <1>1, <2>1, <2>2 DEF UdpInv, SendsAccounted, Left, From
  <2>7. Ownership'
    <3>1. ~Held(userRef, queue, batch, stack)'
      BY <1>1, <1>6, <2>1
    <3> QED
      BY <1>1, <1>3, <2>1, <2>2, <3>1, OwnershipStep DEF UdpInv, Left
  <2> QED
    BY <1>4a, <2>2, <2>3, <2>4, <2>5, <2>6, <2>7 DEF UdpInv
<1>7. CASE ~Held(FALSE, queue, batch, stack) /\ d.state \notin {"kNew", "kClosed"}
  <2>1. queue' = Append(queue, "destroy") /\ d' = d
    BY <1>7 DEF ForeignRelease
  <2>2. "destroy" \in Functors
    BY DEF Functors
  <2>3. queue' \in Seq(Functors) /\ ToSet(queue') = ToSet(queue) \cup {"destroy"}
    BY <1>2, <2>1, <2>2, AppendElements
  <2>4. Cardinality(From(queue', 1, "send")) = Cardinality(From(queue, 1, "send"))
    <3>1. Cardinality(From(queue', 1, "send")) = Cardinality(From(queue, 1, "send")) + 0
      BY <1>2, <2>1, <2>2, FromAppend
    <3> QED
      BY <3>1, <1>2
  <2>5. UdpTypeOK'
    BY <1>1, <2>1, <2>3 DEF UdpInv, UdpTypeOK
  <2>6. Consistent(d') /\ InOrder(d') /\ Nested(stack') /\ WriteFrame'
    BY <1>1, <2>1 DEF UdpInv, WriteFrame, Running
  <2>7. SendsAccounted'
    <3>1. Cardinality(From(batch', next', "send")) = Cardinality(From(batch, next, "send"))
      BY <1>1
    <3> QED
      BY <1>1, <2>1, <2>4, <3>1 DEF UdpInv, SendsAccounted, Left
  <2>8. ~Held(userRef, queue, batch, stack)'
    <3>1. ~Strong(queue')
      <4>1. ~Strong(queue)
        BY <1>7 DEF Held
      <4>2. "destroy" \notin Calls
        BY DEF Calls
      <4> QED
        BY <2>3, <4>1, <4>2, StrongIsSet
    <3> QED
      BY <1>1, <1>7, <3>1 DEF Held
  <2>9. Left("destroy")' = 1
    <3>1. Cardinality(From(queue', 1, "destroy")) = Cardinality(From(queue, 1, "destroy")) + 1
      BY <1>2, <2>1, <2>2, FromAppend
    <3> QED
      BY <1>1, <1>2, <1>4, <3>1 DEF Left
  <2>10. Ownership'
    BY <1>4, <2>1, <2>8, <2>9 DEF Ownership
  <2> QED
    BY <1>4a, <2>5, <2>6, <2>7, <2>10 DEF UdpInv
<1> QED
  BY <1>5, <1>6, <1>7
-----------------------------------------------------------------------------
(* The steps: functors.                                                    *)

\* doPendingFuncs takes the queue.
LEMMA TakeFunctorsKeeps ==
    ASSUME UdpInv, TakeFunctors
    PROVE  UdpInv'
<1>1. /\ UNCHANGED <<d, userRef, sends, active, revents>> /\ stack = <<>>
      /\ batch' = queue /\ next' = 1 /\ queue' = <<>> /\ stack' = <<"functors">>
  BY DEF TakeFunctors
<1>2. /\ queue \in Seq(Functors) /\ MaxDepth \in Nat /\ MaxDepth >= 3
      /\ d.taken \in Nat /\ sends \in Nat
      /\ next \in Nat /\ next >= 1
      /\ \A f : /\ Cardinality(From(queue, 1, f)) \in Nat
              /\ Cardinality(From(batch, next, f)) \in Nat
  BY Types
<1>3. UdpTypeOK'
  <2>1. Len(queue) \in Nat /\ 1 \in 1..(Len(queue) + 1)
    BY <1>2, LenProperties
  <2>2. <<>> \in Seq(Functors)
    BY EmptySeq
  <2>3. /\ <<"functors">> \in Seq(Callbacks \cup {"event", "functors", "write"})
        /\ Len(<<"functors">>) <= MaxDepth
    BY <1>2
  <2> QED
    BY <1>1, <1>2, <2>1, <2>2, <2>3 DEF UdpInv, UdpTypeOK
<1>4. Nested(stack') /\ WriteFrame'
  <2>1. ~(d.writing /\ d.pending = <<>>)
    BY <1>1 DEF UdpInv, WriteFrame
  <2> QED
    BY <1>1, <2>1 DEF Nested, WriteFrame
<1>5. SendsAccounted'
  <2>1. d.taken + (Cardinality(From(queue, 1, "send")) + Cardinality(From(batch, next, "send"))) <= sends
    BY DEF UdpInv, SendsAccounted, Left
  <2>2. d.taken + (0 + Cardinality(From(queue, 1, "send"))) <= sends
    BY <1>2, <2>1
  <2> QED
    BY <1>1, <2>2, FromEmpty DEF SendsAccounted, Left
<1>6. Ownership'
  <2>1. ToSet(queue') = {}
    BY <1>1, ToSetElements, EmptySeq
  <2>2. \A f \in {"event", "complete"} : f \notin ToSet(stack')
    BY <1>1 DEF ToSet
  <2>3. batch = <<>>
    BY <1>1 DEF UdpInv, FramesHeld
  <2>4. Held(userRef, queue, batch, stack)' <=> Held(userRef, queue, batch, stack)
    <3>1. ToSet(stack) = {} /\ ToSet(batch) = {}
      BY <1>1, <2>1, <2>3
    <3>2. ~Strong(queue') /\ ~Strong(batch)
      BY <2>1, <3>1, StrongIsSet
    <3> QED
      BY <1>1, <2>2, <3>1, <3>2 DEF Held
  <2>5. Left("destroy")' = Left("destroy")
    <3>1. Cardinality(From(batch, next, "destroy")) = 0
      BY <1>2, <2>3, FromEmpty
    <3>2. Cardinality(From(queue', 1, "destroy")) = 0
      BY <1>1, FromEmpty
    <3> QED
      BY <1>1, <1>2, <3>1, <3>2 DEF Left
  <2> QED
    BY <1>1, <2>4, <2>5, OwnershipStep DEF UdpInv
<1>7. Consistent(d') /\ InOrder(d')
  BY <1>1 DEF UdpInv
<1>8. FramesHeld'
  BY <1>1 DEF FramesHeld, Callbacks
<1> QED
  BY <1>3, <1>4, <1>5, <1>6, <1>7, <1>8 DEF UdpInv

\* A functor runs.
LEMMA RunFunctorKeeps ==
    ASSUME UdpInv, NEW r \in Results, RunFunctor(r)
    PROVE  UdpInv'
<1> DEFINE f == batch[next]
           Frames == Callbacks \cup {"event", "functors", "write"}
<1>1. /\ UNCHANGED <<userRef, sends, batch, active, revents>> /\ Running
      /\ stack = <<"functors">> /\ next <= Len(batch) /\ next' = next + 1
  BY DEF RunFunctor
<1>2. /\ d \in Datagrams /\ Consistent(d) /\ InOrder(d) /\ Nested(stack)
      /\ queue \in Seq(Functors) /\ batch \in Seq(Functors) /\ stack \in Seq(Frames)
      /\ next \in 1..Len(batch) /\ next \in Nat /\ Len(batch) \in Nat
      /\ d.taken \in Nat /\ sends \in Nat /\ sends <= MaxSends /\ MaxSends \in Nat
      /\ MaxDepth \in Nat /\ MaxDepth >= 3
      /\ \A g : /\ Cardinality(From(queue, 1, g)) \in Nat
              /\ Cardinality(From(batch, next, g)) \in Nat
  BY <1>1, Types
<1>3. f \in Functors /\ f \in ToSet(batch)
  <2>1. next \in DOMAIN batch
    BY <1>2, LenProperties
  <2> QED
    BY <1>2, <2>1, ElementOfSeq DEF ToSet
<1>4. \A g : /\ Cardinality(From(batch, next + 1, g)) \in Nat
             /\ Cardinality(From(batch, next, g)) =
                  Cardinality(From(batch, next + 1, g)) + (IF f = g THEN 1 ELSE 0)
  BY <1>2, FromNext, FromFinite
<1>5. d.taken + (Cardinality(From(queue, 1, "send")) + Cardinality(From(batch, next, "send"))) <= sends
  BY DEF UdpInv, SendsAccounted, Left
<1>5a. d.taken + (Cardinality(From(queue, 1, "send")) + Cardinality(From(batch, next + 1, "send"))) <= sends
  <2>1. /\ d.taken \in Nat /\ sends \in Nat /\ Cardinality(From(queue, 1, "send")) \in Nat
        /\ Cardinality(From(batch, next, "send")) \in Nat
    BY <1>2
  <2>2. /\ Cardinality(From(batch, next + 1, "send")) \in Nat
        /\ \/ Cardinality(From(batch, next, "send")) = Cardinality(From(batch, next + 1, "send"))
           \/ Cardinality(From(batch, next, "send")) = Cardinality(From(batch, next + 1, "send")) + 1
    <3>1. /\ Cardinality(From(batch, next + 1, "send")) \in Nat
          /\ Cardinality(From(batch, next, "send")) =
               Cardinality(From(batch, next + 1, "send")) + (IF f = "send" THEN 1 ELSE 0)
      BY <1>4
    <3> QED
      BY <3>1
  <2> QED
    BY <1>5, <2>1, <2>2
<1>5b. LET left == Cardinality(From(queue, 1, "destroy")) + Cardinality(From(batch, next + 1, "destroy")) IN
       left \in Nat /\ Left("destroy") = IF f = "destroy" THEN left + 1 ELSE left
  <2>1. /\ Cardinality(From(queue, 1, "destroy")) \in Nat
        /\ Cardinality(From(batch, next, "destroy")) \in Nat
    BY <1>2
  <2>2. /\ Cardinality(From(batch, next + 1, "destroy")) \in Nat
        /\ Cardinality(From(batch, next, "destroy")) =
             Cardinality(From(batch, next + 1, "destroy")) + (IF f = "destroy" THEN 1 ELSE 0)
    BY <1>4
  <2> QED
    BY <2>1, <2>2 DEF Left
<1>6. WriteFrame /\ ~(d.writing /\ d.pending = <<>>)
  BY <1>1 DEF UdpInv, WriteFrame
<1>7. next' \in 1..(Len(batch') + 1)
  BY <1>1, <1>2
<1> HIDE DEF f, Frames
<1>8. ASSUME d' \in Datagrams, Consistent(d'), InOrder(d'), d'.taken = d.taken,
             d'.undefined = d.undefined,
             d'.writing /\ d'.pending = <<>> => d.writing /\ d.pending = <<>>,
             (f = "destroy" /\ ~d'.alive) \/ (f # "destroy" /\ d'.alive = d.alive),
             UNCHANGED <<queue, stack>>
      PROVE  UdpInv'
  <2>1. UdpTypeOK'
    BY <1>1, <1>7, <1>8 DEF UdpInv, UdpTypeOK
  <2>2. WriteFrame'
    BY <1>1, <1>6, <1>8 DEF WriteFrame
  <2>3. SendsAccounted'
    BY <1>1, <1>8, <1>5a DEF SendsAccounted, Left
  <2>4. Held(userRef, queue, batch, stack)' <=> Held(userRef, queue, batch, stack)
    BY <1>1, <1>8
  <2>5. Ownership'
    <3>1. CASE f = "destroy" /\ ~d'.alive
      <4>1. Left("destroy") = Left("destroy")' + 1 /\ Left("destroy")' \in Nat
        BY <1>1, <1>8, <1>5b, <3>1 DEF Left
      <4>2. Left("destroy")' = 0 /\ ~Held(userRef, queue, batch, stack)
        BY <4>1 DEF UdpInv, Ownership
      <4> QED
        BY <2>4, <3>1, <4>2 DEF Ownership
    <3>2. CASE f # "destroy" /\ d'.alive = d.alive
      <4>1. Left("destroy")' = Left("destroy")
        BY <1>1, <1>8, <1>5b, <3>2 DEF Left
      <4> QED
        BY <2>4, <3>2, <4>1, OwnershipStep DEF UdpInv
    <3> QED
      BY <1>8, <3>1, <3>2
  <2>6. FramesHeld'
    BY <1>1, <1>8 DEF UdpInv, FramesHeld
  <2> QED
    BY <1>2, <1>8, <2>1, <2>2, <2>3, <2>5, <2>6 DEF UdpInv
<1>9. CASE f \in {"start", "close", "forceClose"} /\ UNCHANGED <<queue, stack>> /\
           d' \in {StartInLoop(d), CloseInLoop(d), ForceCloseInLoop(d)}
  <2>1. /\ d' \in Datagrams /\ Consistent(d') /\ d'.sent = d.sent /\ d'.taken = d.taken
        /\ d'.alive = d.alive /\ d'.undefined = d.undefined
        /\ \/ d'.pending = d.pending /\ d'.writing = d.writing
           \/ d'.pending = <<>> /\ ~d'.writing
    <3>1. CASE d' = StartInLoop(d)
      BY <1>2, <3>1, StartKeeps
    <3>2. CASE d' = CloseInLoop(d)
      BY <1>2, <3>2, CloseKeeps
    <3>3. CASE d' = ForceCloseInLoop(d)
      BY <1>2, <3>3, ForceCloseCloses
    <3> QED
      BY <1>9, <3>1, <3>2, <3>3
  <2>2. InOrder(d')
    BY <1>2, <2>1, ClearKeepsOrder
  <2> QED
    BY <1>8, <1>9, <2>1, <2>2
<1>10. CASE f = "destroy" /\ d' = DestroyInLoop(d) /\ UNCHANGED <<queue, stack>>
  <2>1. /\ d' \in Datagrams /\ Consistent(d') /\ ~d'.alive
        /\ d'.pending = <<>> /\ d'.sent = d.sent /\ d'.taken = d.taken
        /\ d'.undefined = d.undefined /\ ~d'.writing
    BY <1>2, <1>10, DestroyCloses
  <2>2. InOrder(d')
    BY <1>2, <2>1, ClearKeepsOrder
  <2> QED
    BY <1>8, <1>10, <2>1, <2>2
<1>11. CASE f = "send" /\ DoSend(r)
  <2>1. d.taken < MaxSends
    <3>1. /\ d.taken \in Nat /\ sends \in Nat /\ sends <= MaxSends /\ MaxSends \in Nat
          /\ Cardinality(From(queue, 1, "send")) \in Nat
      BY <1>2
    <3>2. /\ Cardinality(From(batch, next + 1, "send")) \in Nat
          /\ Cardinality(From(batch, next, "send")) = Cardinality(From(batch, next + 1, "send")) + 1
      BY <1>4, <1>11
    <3> QED
      BY <1>5, <3>1, <3>2
  <2>2. /\ d' \in Datagrams /\ Consistent(d') /\ InOrder(d')
        /\ d'.taken \in Nat /\ d'.taken <= d.taken + 1
        /\ d'.alive = d.alive /\ d'.undefined = d.undefined
        /\ queue' \in Seq(Functors)
        /\ \A g \in {"send", "destroy"} :
             Cardinality(From(queue', 1, g)) = Cardinality(From(queue, 1, g))
        /\ ToSet(queue) \subseteq ToSet(queue')
        /\ ToSet(queue') \subseteq ToSet(queue) \cup {"complete"}
        /\ stack' \in Seq(Callbacks \cup {"event", "functors", "write"})
        /\ Len(stack') <= MaxDepth /\ Nested(stack') /\ WriteFrame'
        /\ ToSet(stack) \subseteq ToSet(stack')
        /\ ToSet(stack') \subseteq ToSet(stack) \cup {"error"}
        /\ stack' = stack \/ stack' = Append(stack, "error")
    BY <1>1, <1>11, <2>1, DoSendKeeps
  <2>3. UdpTypeOK'
    BY <1>1, <1>7, <2>2 DEF UdpInv, UdpTypeOK
  <2>4. SendsAccounted'
    <3>1. Cardinality(From(batch', next', "send")) = Cardinality(From(batch, next + 1, "send"))
      BY <1>1
    <3>2. d'.taken + (Cardinality(From(queue', 1, "send")) + Cardinality(From(batch', next', "send"))) <= sends'
      <4>1. Cardinality(From(batch, next, "send")) = Cardinality(From(batch, next + 1, "send")) + 1
        BY <1>4, <1>11
      <4>2. sends' = sends
        BY <1>1
      <4> QED
        <5>1. d.taken \in Nat /\ sends \in Nat /\ Cardinality(From(queue, 1, "send")) \in Nat
          BY <1>2
        <5>2. d'.taken \in Nat /\ d'.taken <= d.taken + 1
          BY <2>2
        <5>3. Cardinality(From(queue', 1, "send")) = Cardinality(From(queue, 1, "send"))
          BY <2>2
        <5>4. Cardinality(From(batch, next + 1, "send")) \in Nat
          BY <1>4
        <5> QED
          BY <1>5, <3>1, <4>1, <4>2, <5>1, <5>2, <5>3, <5>4
    <3> QED
      BY <3>2 DEF SendsAccounted, Left
  <2>5. Ownership'
    <3>2. Strong(batch)
      BY <1>3, <1>11, StrongIsSet DEF Calls
    <3>3. Held(userRef, queue, batch, stack) /\ Held(userRef, queue, batch, stack)'
      BY <1>1, <3>2 DEF Held
    <3>4. Left("destroy")' = Left("destroy")
      <4>2. Cardinality(From(queue', 1, "destroy")) = Cardinality(From(queue, 1, "destroy"))
        BY <2>2
      <4> QED
        BY <1>1, <1>11, <1>5b, <4>2 DEF Left
    <3> QED
      BY <2>2, <3>3, <3>4, OwnershipStep DEF UdpInv
  <2>6. FramesHeld'
    <3>1. CASE stack' = stack
      BY <1>1, <3>1 DEF UdpInv, FramesHeld
    <3>2. CASE stack' = Append(stack, "error")
      <4>1. "error" \in Frames /\ Strong(batch)
        BY <1>3, <1>11, StrongIsSet DEF Calls, Frames, Callbacks
      <4> QED
        BY <1>1, <1>2, <3>2, <4>1, FramesPush DEF UdpInv
    <3> QED
      BY <2>2, <3>1, <3>2
  <2> QED
    BY <2>2, <2>3, <2>4, <2>5, <2>6 DEF UdpInv
<1>12. CASE f = "complete" /\ UNCHANGED <<d, queue>> /\ stack' = stack
  BY <1>2, <1>8, <1>12
<1>13. CASE /\ f = "complete" /\ UNCHANGED <<d, queue>>
            /\ stack' = Append(stack, "complete") /\ Held(userRef, queue, batch, stack)
  <2>1. "complete" \in Frames
    BY DEF Frames, Callbacks
  <2>2. /\ stack' \in Seq(Frames) /\ Len(stack') = Len(stack) + 1
        /\ stack'[Len(stack) + 1] = "complete" /\ Nested(stack')
    <3>1. /\ stack' \in Seq(Frames) /\ Len(stack') = Len(stack) + 1
          /\ stack'[Len(stack) + 1] = "complete"
      BY <1>2, <1>13, <2>1, AppendElements
    <3>2. Nested(Append(stack, "complete"))
      BY <1>2, <2>1, PushKeepsNested
    <3> QED
      BY <1>13, <3>1, <3>2
  <2>3. Len(stack) = 1
    BY <1>1
  <2>4. UdpTypeOK'
    BY <1>1, <1>2, <1>7, <1>13, <2>2, <2>3 DEF UdpInv, UdpTypeOK, Frames
  <2>5. WriteFrame'
    BY <1>6, <1>13, <2>2, <2>3 DEF WriteFrame
  <2>6. SendsAccounted'
    BY <1>1, <1>13, <1>5a DEF SendsAccounted, Left
  <2>7. Ownership'
    <3>1. Held(userRef, queue, batch, stack)'
      <4>1. ToSet(stack') = ToSet(stack) \cup {"complete"}
        BY <1>2, <1>13, <2>1, AppendElements
      <4> QED
        BY <4>1 DEF Held
    <3>2. Left("destroy")' = Left("destroy")
      BY <1>1, <1>13, <1>5b DEF Left
    <3> QED
      BY <1>13, <3>1, <3>2, OwnershipStep DEF UdpInv
  <2>8. FramesHeld'
    BY <1>1, <1>2, <1>13, <2>1, FramesPush DEF UdpInv
  <2> QED
    BY <1>2, <1>13, <2>2, <2>4, <2>5, <2>6, <2>7, <2>8 DEF UdpInv
<1> QED
  BY <1>9, <1>10, <1>11, <1>12, <1>13 DEF RunFunctor, f

\* The batch is over, and the references of its functors go.
LEMMA EndBatchKeeps ==
    ASSUME UdpInv, EndBatch
    PROVE  UdpInv'
<1>1. /\ UNCHANGED <<userRef, sends, queue, active, revents>> /\ stack = <<"functors">>
      /\ batch' = <<>> /\ next' = 1 /\ stack' = <<>>
      /\ next > Len(batch)
      /\ d' = DropRef(d, Held(userRef, queue, batch, stack), Held(userRef, queue, batch, stack)')
  BY DEF EndBatch
<1>2. /\ d \in Datagrams /\ Consistent(d) /\ InOrder(d) /\ MaxDepth \in Nat
      /\ d.taken \in Nat /\ sends \in Nat
      /\ batch \in Seq(Functors) /\ next \in Nat
      /\ \A f : /\ Cardinality(From(queue, 1, f)) \in Nat
              /\ Cardinality(From(batch, next, f)) \in Nat
  BY Types
<1>3. /\ d' \in Datagrams /\ Consistent(d') /\ InOrder(d')
      /\ d'.undefined = d.undefined /\ d'.taken = d.taken
      /\ d'.writing /\ d'.pending = <<>> => d.writing /\ d.pending = <<>>
      /\ Held(userRef, queue, batch, stack) /\ ~Held(userRef, queue, batch, stack)' => ~d'.alive
      /\ ~Held(userRef, queue, batch, stack) \/ Held(userRef, queue, batch, stack)' => d' = d
  BY <1>1, <1>2, DropRefKeeps
<1>4. UdpTypeOK'
  <2>1. <<>> \in Seq(Functors) /\ 1 \in 1..(Len(<<>>) + 1)
    BY EmptySeq
  <2>2. <<>> \in Seq(Callbacks \cup {"event", "functors", "write"}) /\ Len(<<>>) <= MaxDepth
    BY <1>2, EmptySeq
  <2> QED
    BY <1>1, <1>3, <2>1, <2>2 DEF UdpInv, UdpTypeOK
<1>5. Nested(stack') /\ WriteFrame'
  <2>1. ~(d.writing /\ d.pending = <<>>)
    BY <1>1 DEF UdpInv, WriteFrame
  <2> QED
    BY <1>1, <1>3, <2>1 DEF Nested, WriteFrame
<1>6. SendsAccounted'
  <2>1. d.taken + (Cardinality(From(queue, 1, "send")) + Cardinality(From(batch, next, "send"))) <= sends
    BY DEF UdpInv, SendsAccounted, Left
  <2>2. d.taken + (Cardinality(From(queue, 1, "send")) + 0) <= sends
    BY <1>2, <2>1
  <2> QED
    BY <1>1, <1>3, <2>2, FromEmpty DEF SendsAccounted, Left
<1>7. Ownership'
  <2>1. ToSet(batch') = {} /\ ToSet(stack') = {}
    <3>1. <<>> \in Seq(Functors)
      BY EmptySeq
    <3>2. ToSet(<<>>) = {}
      BY <3>1, ToSetElements
    <3> QED
      BY <1>1, <3>2
  <2>2. Held(userRef, queue, batch, stack)' => Held(userRef, queue, batch, stack)
    BY <1>1, <2>1, HeldBefore
  <2>3. Left("destroy")' = Left("destroy")
    <3>1. Cardinality(From(batch, next, "destroy")) = 0
      BY <1>1, <1>2, FromEnd
    <3>2. Cardinality(From(batch', next', "destroy")) = 0
      BY <1>1, FromEmpty
    <3> QED
      BY <1>1, <3>1, <3>2 DEF Left
  <2> QED
    BY <1>3, <2>2, <2>3, OwnershipStep DEF UdpInv
<1>8. FramesHeld'
  BY <1>1 DEF FramesHeld
<1> QED
  BY <1>3, <1>4, <1>5, <1>6, <1>7, <1>8 DEF UdpInv
-----------------------------------------------------------------------------
(* The steps: events.                                                      *)

\* poll finds the channel ready.
LEMMA PollKeeps ==
    ASSUME UdpInv, NEW evs \in SUBSET {"error", "read", "write"}, Poll(evs)
    PROVE  UdpInv'
<1>1. /\ UNCHANGED <<d, userRef, sends, queue, batch, next, stack>>
      /\ active' \in BOOLEAN /\ revents' = evs
  BY DEF Poll
<1>2. UdpTypeOK'
  BY <1>1 DEF UdpInv, UdpTypeOK
<1>3. /\ Consistent(d') /\ InOrder(d') /\ Nested(stack') /\ WriteFrame'
      /\ SendsAccounted' /\ FramesHeld' /\ Ownership'
  BY <1>1 DEF UdpInv, WriteFrame, Running, SendsAccounted, Left, From,
              FramesHeld, Ownership, Held, Strong
<1> QED
  BY <1>2, <1>3 DEF UdpInv

\* A step that only enters a frame, or returns from one, of a held datagram.
LEMMA FrameStepKeeps ==
    ASSUME UdpInv, UNCHANGED <<userRef, sends, queue, batch, next>>,
           active' \in BOOLEAN, revents' \subseteq {"error", "read", "write"},
           d' = d, Held(userRef, queue, batch, stack), Held(userRef, queue, batch, stack)',
           stack' \in Seq(Callbacks \cup {"event", "functors", "write"}),
           Len(stack') <= MaxDepth, Nested(stack'), WriteFrame', FramesHeld'
    PROVE  UdpInv'
<1>1. UdpTypeOK'
  BY DEF UdpInv, UdpTypeOK
<1>2. Consistent(d') /\ InOrder(d') /\ SendsAccounted'
  BY DEF UdpInv, SendsAccounted, Left, From
<1>3. Ownership'
  BY OwnershipStep DEF UdpInv, Left
<1> QED
  BY <1>1, <1>2, <1>3 DEF UdpInv

\* The loop comes to the channel.
LEMMA HandleEventKeeps ==
    ASSUME UdpInv, HandleEvent
    PROVE  UdpInv'
<1>1. /\ UNCHANGED <<userRef, sends, queue, batch, next>> /\ stack = <<>>
      /\ active' = FALSE
  BY DEF HandleEvent
<1>2. /\ d \in Datagrams /\ Consistent(d) /\ InOrder(d)
      /\ MaxDepth \in Nat /\ MaxDepth >= 3
  BY Types
<1>3. ~(d.writing /\ d.pending = <<>>)
  BY <1>1 DEF UdpInv, WriteFrame
<1>4. revents \subseteq {"error", "read", "write"} /\ active' \in BOOLEAN
  BY <1>1 DEF UdpInv, UdpTypeOK
<1>5. CASE ~d.alive
  <2>1. d' = [d EXCEPT !.undefined = TRUE] /\ UNCHANGED <<stack, revents>>
    BY <1>5 DEF HandleEvent
  <2>2. d' \in Datagrams
    BY <1>2, <2>1 DEF Datagrams
  <2>3. /\ d'.alive = d.alive /\ d'.state = d.state /\ d'.removed = d.removed
        /\ d'.index = d.index /\ d'.reading = d.reading /\ d'.writing = d.writing
        /\ d'.forced = d.forced /\ d'.lost = d.lost /\ d'.taken = d.taken
        /\ d'.sent = d.sent /\ d'.pending = d.pending
    BY <1>2, <2>1 DEF Datagrams
  <2>4. UdpTypeOK'
    BY <1>1, <1>4, <2>1, <2>2 DEF UdpInv, UdpTypeOK
  <2>5. Consistent(d')
    BY <1>2, <2>3 DEF Consistent
  <2>6. InOrder(d')
    BY <1>2, <2>3, ClearKeepsOrder
  <2>7. Nested(stack') /\ WriteFrame' /\ SendsAccounted'
    BY <1>1, <1>3, <2>1, <2>3 DEF UdpInv, WriteFrame, SendsAccounted, Left, From
  <2>8. Ownership'
    BY <1>1, <2>1, <2>3, OwnershipStep DEF UdpInv, Left
  <2>9. FramesHeld'
    BY <1>1, <2>1 DEF UdpInv, FramesHeld
  <2> QED
    BY <2>4, <2>5, <2>6, <2>7, <2>8, <2>9 DEF UdpInv
<1>6. CASE d.alive /\ Held(userRef, queue, batch, stack)
  <2>1. stack' = <<"event">> /\ UNCHANGED <<d, revents>>
    BY <1>6 DEF HandleEvent
  <2>2. /\ stack' \in Seq(Callbacks \cup {"event", "functors", "write"})
        /\ Len(stack') <= MaxDepth /\ Nested(stack')
    BY <1>2, <2>1 DEF Nested
  <2>3. WriteFrame'
    BY <1>3, <2>1 DEF WriteFrame
  <2>4. FramesHeld'
    <3>1. batch = <<>>
      BY <1>1 DEF UdpInv, FramesHeld
    <3> QED
      BY <1>1, <2>1, <3>1 DEF FramesHeld, Callbacks
  <2>5. Held(userRef, queue, batch, stack)'
    BY <2>1 DEF Held, ToSet
  <2> QED
    BY <1>1, <1>4, <1>6, <2>1, <2>2, <2>3, <2>4, <2>5, FrameStepKeeps
<1>7. CASE d.alive /\ ~Held(userRef, queue, batch, stack)
  <2>1. revents' = {} /\ UNCHANGED <<d, stack>>
    BY <1>7 DEF HandleEvent
  <2>2. UdpTypeOK'
    BY <1>1, <1>4, <2>1 DEF UdpInv, UdpTypeOK
  <2>3. /\ Consistent(d') /\ InOrder(d') /\ Nested(stack') /\ WriteFrame'
        /\ SendsAccounted' /\ FramesHeld' /\ Ownership'
    BY <1>1, <2>1 DEF UdpInv, WriteFrame, Running, SendsAccounted, Left, From,
                FramesHeld, Ownership, Held, Strong
  <2> QED
    BY <2>2, <2>3 DEF UdpInv
<1> QED
  BY <1>5, <1>6, <1>7

\* handleEventWithGuard calls a handler.
LEMMA HandlersKeep ==
    ASSUME UdpInv,
           HandleError \/ HandleWrite \/ \E ok \in BOOLEAN : HandleRead(ok)
    PROVE  UdpInv'
<1> DEFINE Frames == Callbacks \cup {"event", "functors", "write"}
<1>1. /\ UNCHANGED <<d, userRef, sends, queue, batch, next, active>> /\ stack = <<"event">>
      /\ revents' \subseteq revents
      /\ \/ stack' = stack
         \/ \E f \in {"error", "message"} : stack' = Append(stack, f)
         \/ stack' = Append(stack, "write") /\ d.writing
  <2>1. CASE HandleError
    BY <2>1 DEF HandleError
  <2>2. CASE HandleWrite
    BY <2>2 DEF HandleWrite
  <2>3. ASSUME NEW ok \in BOOLEAN, HandleRead(ok)
        PROVE  /\ UNCHANGED <<d, userRef, sends, queue, batch, next, active>>
               /\ stack = <<"event">> /\ revents' \subseteq revents
               /\ stack' = stack \/ stack' = Append(stack, "message")
    BY <2>3 DEF HandleRead
  <2> QED
    BY <2>1, <2>2, <2>3
<1>2. /\ stack \in Seq(Frames) /\ Nested(stack) /\ Len(stack) = 1
      /\ MaxDepth \in Nat /\ MaxDepth >= 3
  BY <1>1, Types
<1>3. {"error", "message", "write"} \subseteq Frames
  BY DEF Callbacks
<1>4. ~(d.writing /\ d.pending = <<>>)
  BY <1>1, <1>2 DEF UdpInv, WriteFrame
<1>5. Held(userRef, queue, batch, stack)
  BY <1>1 DEF Held, ToSet
<1>6. active' \in BOOLEAN /\ revents' \subseteq {"error", "read", "write"}
  BY <1>1 DEF UdpInv, UdpTypeOK
<1> HIDE DEF Frames
<1>7. /\ stack' \in Seq(Frames) /\ Len(stack') <= MaxDepth /\ Nested(stack')
      /\ WriteFrame'
  <2>1. CASE stack' = stack
    BY <1>1, <1>2, <1>4, <2>1 DEF WriteFrame
  <2>2. ASSUME NEW f \in {"error", "message", "write"}, stack' = Append(stack, f),
               f = "write" => d.writing
        PROVE  /\ stack' \in Seq(Frames) /\ Len(stack') <= MaxDepth /\ Nested(stack')
               /\ WriteFrame'
    <3>1. /\ stack' \in Seq(Frames) /\ Len(stack') = 2 /\ stack'[2] = f
      <4>1. f \in Frames
        BY <1>3
      <4>2. /\ Append(stack, f) \in Seq(Frames) /\ Len(Append(stack, f)) = Len(stack) + 1
            /\ Append(stack, f)[Len(stack) + 1] = f
        <5>1. stack \in Seq(Frames)
          BY <1>2
        <5> QED
          BY <4>1, <5>1, AppendElements
      <4> QED
        BY <1>2, <2>2, <4>2
    <3>2. Nested(stack')
      <4>1. f \in Frames /\ f \notin {"event", "functors"}
        BY <1>3
      <4> QED
        BY <1>1, <1>2, <2>2, <4>1, PushKeepsNested
    <3> QED
      BY <1>1, <1>2, <1>4, <2>2, <3>1, <3>2 DEF WriteFrame
  <2> QED
    BY <1>1, <2>1, <2>2
<1>8. FramesHeld' /\ Held(userRef, queue, batch, stack)'
  <2>1. CASE stack' = stack
    BY <1>1, <1>5, <2>1 DEF UdpInv, FramesHeld
  <2>2. ASSUME NEW f \in {"error", "message", "write"}, stack' = Append(stack, f)
        PROVE  FramesHeld' /\ Held(userRef, queue, batch, stack)'
    <3>1. f \in Frames
      BY <1>3
    <3>2. ToSet(stack') = ToSet(stack) \cup {f}
      BY <1>2, <2>2, <3>1, AppendElements
    <3>3. "event" \in ToSet(stack')
      BY <1>1, <3>2 DEF ToSet
    <3>4. FramesHeld'
      BY <1>1, <1>2, <2>2, <3>1, FramesPush DEF UdpInv
    <3> QED
      BY <3>3, <3>4 DEF Held
  <2> QED
    BY <1>1, <2>1, <2>2
<1> QED
  BY <1>1, <1>5, <1>6, <1>7, <1>8, FrameStepKeeps DEF Frames
\* handleWrite is called by handleEvent only, and while it runs the datagram is
\* held and the interest in writing is up.
LEMMA WriteOnTop ==
    ASSUME UdpInv, Running, Top(stack) = "write"
    PROVE  /\ Len(stack) = 2 /\ stack[1] = "event" /\ stack[2] = "write" /\ d.writing
           /\ stack # <<>> /\ Held(userRef, queue, batch, stack)
<1>1. /\ stack \in Seq(Callbacks \cup {"event", "functors", "write"})
      /\ "other" \notin Callbacks \cup {"event", "functors", "write"}
      /\ Nested(stack) /\ Len(stack) \in Nat /\ DOMAIN stack = 1..Len(stack)
  BY Types, LenProperties
<1>2. stack # <<>>
  BY DEF Top
<1>3. Top(stack) = stack[Len(stack)] /\ Len(stack) > 0
  BY <1>1, <1>2, TopFrame
<1>4. Len(stack) = 2 /\ stack[1] = "event" /\ stack[2] = "write"
  BY <1>1, <1>3 DEF Nested
<1>5. d.writing
  BY <1>4 DEF UdpInv, WriteFrame
<1>6. "event" \in ToSet(stack)
  BY <1>1, <1>4 DEF ToSet
<1> QED
  BY <1>2, <1>4, <1>5, <1>6 DEF Held

\* handleWrite returns to handleEvent, whose guard still holds the datagram.
LEMMA WriteReturns ==
    ASSUME UdpInv, Running, Top(stack) = "write", stack' = Front(stack),
           batch' = batch, userRef' = userRef
    PROVE  Held(userRef, queue, batch, stack)' /\ FramesHeld'
<1> DEFINE Frames == Callbacks \cup {"event", "functors", "write"}
<1>1. /\ Len(stack) = 2 /\ stack[1] = "event" /\ stack # <<>>
      /\ stack \in Seq(Frames)
  BY WriteOnTop, Types
<1> HIDE DEF Frames
<1>2. /\ stack' \in Seq(Frames) /\ Len(stack') = 1 /\ stack'[1] = "event"
      /\ DOMAIN stack' = 1..1
  <2>1. stack' \in Seq(Frames) /\ Len(stack') = 1 /\ stack'[1] = "event"
    <3>1. /\ Front(stack) \in Seq(Frames) /\ Len(Front(stack)) = Len(stack) - 1
          /\ \A i \in 1..(Len(stack) - 1) : Front(stack)[i] = stack[i]
      BY <1>1, FrontElements
    <3> QED
      BY <1>1, <3>1
  <2> QED
    BY <2>1, LenProperties
<1>3. "event" \in ToSet(stack')
  BY <1>2 DEF ToSet
<1>4. FramesHeld'
  <2>1. stack' # <<>>
    BY <1>2
  <2> QED
    BY <1>1, <1>2, <2>1, FramesStep DEF UdpInv
<1> QED
  BY <1>3, <1>4 DEF Held

\* One turn of handleWrite's loop.
LEMMA WriteOneKeeps ==
    ASSUME UdpInv, NEW r \in Results, WriteOne(r)
    PROVE  UdpInv'
<1> DEFINE Frames == Callbacks \cup {"event", "functors", "write"}
<1>1. /\ UNCHANGED <<userRef, sends, queue, batch, next, active, revents>> /\ Running
      /\ Top(stack) = "write" /\ d.pending # <<>>
  BY DEF WriteOne
<1>2. /\ Len(stack) = 2 /\ stack[1] = "event" /\ stack[2] = "write" /\ d.writing
      /\ stack # <<>> /\ Held(userRef, queue, batch, stack)
  BY <1>1, WriteOnTop
<1>3. /\ d \in Datagrams /\ Consistent(d) /\ InOrder(d) /\ Nested(stack)
      /\ stack \in Seq(Frames) /\ MaxDepth \in Nat /\ MaxDepth >= 3
  BY Types
<1>4. "error" \in Frames
  BY DEF Callbacks
<1>5. active' \in BOOLEAN /\ revents' \subseteq {"error", "read", "write"}
  BY <1>1 DEF UdpInv, UdpTypeOK
<1> HIDE DEF Frames
<1>6. CASE /\ d' = [d EXCEPT !.sent = Append(@, Head(d.pending)), !.pending = Tail(@)]
           /\ UNCHANGED stack
  <2>1. /\ d' \in Datagrams /\ Consistent(d') /\ InOrder(d')
        /\ d'.alive = d.alive /\ d'.undefined = d.undefined
        /\ d'.taken = d.taken /\ d'.writing = d.writing
    BY <1>1, <1>3, <1>6, WriteTakenKeeps
  <2>2. UdpTypeOK'
    BY <1>1, <1>6, <2>1 DEF UdpInv, UdpTypeOK
  <2>3. Nested(stack') /\ WriteFrame' /\ SendsAccounted'
    <3>1. Nested(stack')
      BY <1>3, <1>6
    <3>2. WriteFrame'
      BY <1>2, <1>6, <2>1 DEF WriteFrame
    <3>3. SendsAccounted'
      BY <1>1, <2>1 DEF UdpInv, SendsAccounted, Left
    <3> QED
      BY <3>1, <3>2, <3>3
  <2>4. Ownership'
    BY <1>1, <1>6, <2>1, OwnershipStep DEF UdpInv, Left
  <2>5. FramesHeld'
    BY <1>1, <1>6 DEF UdpInv, FramesHeld
  <2> QED
    BY <2>1, <2>2, <2>3, <2>4, <2>5 DEF UdpInv
<1>7. CASE stack' = Front(stack) /\ UNCHANGED d
  <2>0. /\ Front(stack) \in Seq(Frames) /\ Len(Front(stack)) = Len(stack) - 1
        /\ Nested(Front(stack))
    <3>1. stack \in Seq(Frames) /\ stack # <<>> /\ Nested(stack)
      BY <1>2, <1>3
    <3>2. Front(stack) \in Seq(Frames) /\ Len(Front(stack)) = Len(stack) - 1
      BY <3>1, FrontElements
    <3>3. Nested(Front(stack))
      BY <3>1, PopKeepsNested
    <3> QED
      BY <3>2, <3>3
  <2>1. stack' \in Seq(Frames) /\ Len(stack') = 1 /\ Nested(stack')
    BY <1>2, <1>7, <2>0
  <2>2. WriteFrame'
    BY <1>1, <1>7, <2>1 DEF WriteFrame
  <2>3. Held(userRef, queue, batch, stack)' /\ FramesHeld'
    BY <1>1, <1>7, WriteReturns
  <2> QED
    BY <1>1, <1>2, <1>3, <1>5, <1>7, <2>1, <2>2, <2>3, FrameStepKeeps DEF Frames
<1>8. CASE stack' = Append(stack, "error") /\ UNCHANGED d
  <2>1. /\ Append(stack, "error") \in Seq(Frames)
        /\ Len(Append(stack, "error")) = Len(stack) + 1
        /\ \A i \in 1..Len(stack) : Append(stack, "error")[i] = stack[i]
    <3>1. stack \in Seq(Frames)
      BY <1>3
    <3> QED
      BY <1>4, <3>1, AppendElements
  <2>2. Nested(stack')
    <3>1. Nested(Append(stack, "error"))
      BY <1>3, <1>4, PushKeepsNested
    <3> QED
      BY <1>8, <3>1
  <2>3. stack' \in Seq(Frames) /\ Len(stack') = 3 /\ stack'[2] = "write"
    BY <1>2, <1>8, <2>1
  <2>4. WriteFrame'
    BY <2>3 DEF WriteFrame
  <2>5. FramesHeld'
    <3>1. stack # <<"functors">>
      BY <1>2
    <3> QED
      BY <1>1, <1>2, <1>3, <1>4, <1>8, <3>1, FramesPush DEF UdpInv
  <2>6. Held(userRef, queue, batch, stack)'
    <3>1. DOMAIN stack' = 1..Len(stack') /\ stack'[1] = "event"
      BY <1>2, <1>8, <2>1, <2>3, LenProperties
    <3>2. "event" \in ToSet(stack')
      BY <2>3, <3>1 DEF ToSet
    <3> QED
      BY <3>2 DEF Held
  <2> QED
    BY <1>1, <1>2, <1>3, <1>5, <1>8, <2>2, <2>3, <2>4, <2>5, <2>6, FrameStepKeeps DEF Frames
<1> QED
  BY <1>6, <1>7, <1>8 DEF WriteOne

\* handleWrite past its loop.
LEMMA WriteDoneKeeps ==
    ASSUME UdpInv, WriteDone
    PROVE  UdpInv'
<1> DEFINE Frames == Callbacks \cup {"event", "functors", "write"}
<1>1. /\ UNCHANGED <<userRef, sends, batch, next, active, revents>> /\ Running
      /\ Top(stack) = "write" /\ d.pending = <<>> /\ d' = Drained(d)
      /\ queue' = Append(queue, "complete") /\ stack' = Front(stack)
  BY DEF WriteDone
<1>2. /\ Len(stack) = 2 /\ stack[1] = "event" /\ d.writing
      /\ stack # <<>> /\ Held(userRef, queue, batch, stack)
  BY <1>1, WriteOnTop
<1>3. /\ d \in Datagrams /\ Consistent(d) /\ InOrder(d) /\ Nested(stack)
      /\ stack \in Seq(Frames) /\ MaxDepth \in Nat /\ MaxDepth >= 3
      /\ queue \in Seq(Functors)
      /\ \A f : /\ Cardinality(From(queue, 1, f)) \in Nat
              /\ Cardinality(From(batch, next, f)) \in Nat
  BY Types
<1>4. "complete" \in Functors /\ "complete" # "destroy"
  BY DEF Functors
<1> HIDE DEF Frames
<1>5. /\ d' \in Datagrams /\ Consistent(d') /\ d'.sent = d.sent /\ d'.taken = d.taken
      /\ d'.alive = d.alive /\ d'.undefined = d.undefined
      /\ d'.pending = <<>> /\ ~d'.writing
  BY <1>1, <1>2, <1>3, DrainedKeeps
<1>6. InOrder(d')
  BY <1>3, <1>5, ClearKeepsOrder
<1>7. stack' \in Seq(Frames) /\ Len(stack') = 1 /\ Nested(stack')
  <2>1. stack \in Seq(Frames) /\ stack # <<>> /\ Nested(stack)
    BY <1>2, <1>3
  <2>2. Front(stack) \in Seq(Frames) /\ Len(Front(stack)) = Len(stack) - 1
    BY <2>1, FrontElements
  <2>3. Nested(Front(stack))
    BY <2>1, PopKeepsNested
  <2> QED
    BY <1>1, <1>2, <2>2, <2>3
<1>8. queue' \in Seq(Functors) /\ ToSet(queue') = ToSet(queue) \cup {"complete"}
  BY <1>1, <1>3, <1>4, AppendElements
<1>9. \A f \in {"send", "destroy"} :
        Cardinality(From(queue', 1, f)) = Cardinality(From(queue, 1, f))
  <2>1. \A f \in {"send", "destroy"} :
          Cardinality(From(queue', 1, f)) = Cardinality(From(queue, 1, f)) + 0
    BY <1>1, <1>3, <1>4, FromAppend
  <2> QED
    BY <1>3, <2>1
<1>10. UdpTypeOK'
  BY <1>1, <1>3, <1>5, <1>7, <1>8 DEF UdpInv, UdpTypeOK, Frames
<1>11. WriteFrame'
  BY <1>5, <1>7 DEF WriteFrame
<1>12. SendsAccounted'
  <2>1. Cardinality(From(batch', next', "send")) = Cardinality(From(batch, next, "send"))
    BY <1>1
  <2> QED
    BY <1>1, <1>5, <1>9, <2>1 DEF UdpInv, SendsAccounted, Left
<1>13. Held(userRef, queue, batch, stack)' /\ FramesHeld'
  BY <1>1, WriteReturns
<1>14. Ownership'
  <2>1. Left("destroy")' = Left("destroy")
    BY <1>1, <1>9 DEF Left
  <2> QED
    BY <1>2, <1>5, <1>13, <2>1, OwnershipStep DEF UdpInv
<1> QED
  BY <1>5, <1>6, <1>7, <1>10, <1>11, <1>12, <1>13, <1>14 DEF UdpInv

\* A callback returns.
LEMMA CallbackReturnKeeps ==
    ASSUME UdpInv, CallbackReturn
    PROVE  UdpInv'
<1> DEFINE Frames == Callbacks \cup {"event", "functors", "write"}
<1>1. /\ UNCHANGED <<userRef, sends, queue, batch, next, active, revents>> /\ Running
      /\ Top(stack) \in Callbacks /\ stack' = Front(stack)
  BY DEF CallbackReturn
<1>2. /\ d \in Datagrams /\ Consistent(d) /\ InOrder(d) /\ Nested(stack)
      /\ stack \in Seq(Frames) /\ "other" \notin Frames
      /\ Len(stack) <= MaxDepth /\ MaxDepth \in Nat
  BY Types
<1>3. stack # <<>>
  BY <1>1 DEF Top, Callbacks
<1>4. "write" \notin Callbacks
  BY DEF Callbacks
<1> HIDE DEF Frames
<1>5. Top(stack) = stack[Len(stack)]
  BY <1>2, <1>3, TopFrame
<1>6. /\ stack' \in Seq(Frames) /\ Len(stack) \in Nat /\ Len(stack) > 0
      /\ Len(stack') = Len(stack) - 1
      /\ \A i \in 1..(Len(stack) - 1) : stack'[i] = stack[i]
      /\ ToSet(stack) = ToSet(stack') \cup {stack[Len(stack)]} /\ Nested(stack')
  BY <1>1, <1>2, <1>3, FrontElements, PopKeepsNested
<1>7. /\ stack' # <<>> => Top(stack)' = stack'[Len(stack')] /\ Len(stack') > 0
      /\ stack' = <<>> => Top(stack)' = "other" /\ Len(stack') = 0
  BY <1>2, <1>6, TopFrame
<1>8. Len(stack') <= MaxDepth
  BY <1>2, <1>6
<1>9. Held(userRef, queue, batch, stack)' => Held(userRef, queue, batch, stack)
  BY <1>1, <1>6, HeldBefore
<1>10. d.writing /\ d.pending = <<>> => Len(stack') >= 2 /\ stack'[2] = "write"
  <2> HAVE d.writing /\ d.pending = <<>>
  <2>1. Len(stack) >= 2 /\ stack[2] = "write"
    BY DEF UdpInv, WriteFrame
  <2>2. Len(stack) # 2
    BY <1>1, <1>4, <1>5, <2>1
  <2> QED
    BY <1>6, <2>1, <2>2
<1>11. ASSUME d' \in Datagrams, Consistent(d'), InOrder(d'), d'.taken = d.taken, WriteFrame',
              \/ /\ d'.alive = d.alive
                 /\ Top(stack) # "complete" \/ Held(userRef, queue, batch, stack)'
              \/ /\ Top(stack) = "complete" /\ ~d'.alive
                 /\ ~Held(userRef, queue, batch, stack)'
       PROVE  UdpInv'
  <2>1. UdpTypeOK'
    BY <1>1, <1>6, <1>8, <1>11 DEF UdpInv, UdpTypeOK, Frames
  <2>2. SendsAccounted'
    BY <1>1, <1>11 DEF UdpInv, SendsAccounted, Left, From
  <2>3. Ownership'
    <3>1. Left("destroy")' = Left("destroy")
      BY <1>1 DEF Left
    <3>2. Top(stack) = "complete" => Held(userRef, queue, batch, stack)
      BY <1>5, <1>6 DEF Held
    <3>3. Top(stack) # "complete" =>
            (Held(userRef, queue, batch, stack)' <=> Held(userRef, queue, batch, stack))
      BY <1>1, <1>5, <1>6 DEF Held, Callbacks
    <3> QED
      BY <1>9, <1>11, <3>1, <3>2, <3>3, OwnershipStep DEF UdpInv
  <2>4. FramesHeld'
    <3>1. batch # <<>> => stack' # <<>>
      <4> HAVE batch # <<>>
      <4>1. stack[1] = "functors"
        BY DEF UdpInv, FramesHeld
      <4>2. Len(stack) # 1
        BY <1>1, <1>5, <4>1 DEF Callbacks
      <4> QED
        BY <1>6, <4>2
    <3>2. \A i \in 1..Len(stack') : i <= Len(stack) /\ stack'[i] = stack[i]
      BY <1>6
    <3> QED
      BY <1>1, <1>2, <1>6, <3>1, <3>2, FramesStep DEF UdpInv
  <2> QED
    BY <1>6, <1>11, <2>1, <2>2, <2>3, <2>4 DEF UdpInv
<1>11a. Top(stack)' = "write" => Held(userRef, queue, batch, stack)'
  <2> HAVE Top(stack)' = "write"
  <2>1. stack' # <<>> /\ Len(stack') = 2 /\ stack'[2] = "write" /\ stack'[1] = "event"
    BY <1>6, <1>7 DEF Nested
  <2>2. DOMAIN stack' = 1..2
    BY <1>6, <2>1, LenProperties
  <2>3. "event" \in ToSet(stack')
    BY <2>1, <2>2 DEF ToSet
  <2> QED
    BY <2>3 DEF Held
<1>12. CASE Top(stack)' = "write" /\ d.pending = <<>>
  <2>1. d' = [d EXCEPT !.undefined = TRUE]
    BY <1>12 DEF CallbackReturn
  <2>2. d' \in Datagrams
    BY <1>2, <2>1 DEF Datagrams
  <2>3. /\ d'.alive = d.alive /\ d'.state = d.state /\ d'.removed = d.removed
        /\ d'.index = d.index /\ d'.reading = d.reading /\ d'.writing = d.writing
        /\ d'.forced = d.forced /\ d'.lost = d.lost /\ d'.taken = d.taken
        /\ d'.sent = d.sent /\ d'.pending = d.pending /\ d'.undefined = TRUE
    BY <1>2, <2>1 DEF Datagrams
  <2>4. Consistent(d')
    BY <1>2, <2>3 DEF Consistent
  <2>5. InOrder(d')
    BY <1>2, <2>3, ClearKeepsOrder
  <2>6. WriteFrame'
    BY <1>10, <2>3 DEF WriteFrame, Running
  <2>7. Top(stack) # "complete" \/ Held(userRef, queue, batch, stack)'
    BY <1>12, <1>11a
  <2> QED
    BY <1>11, <2>2, <2>3, <2>4, <2>5, <2>6, <2>7
<1>13. CASE Top(stack)' = "write" /\ d.pending # <<>>
  <2>1. d' = [d EXCEPT !.pending = Tail(@)]
    BY <1>13 DEF CallbackReturn
  <2>2. /\ d' \in Datagrams /\ Consistent(d') /\ InOrder(d')
        /\ d'.alive = d.alive /\ d'.undefined = d.undefined
        /\ d'.taken = d.taken /\ d'.writing = d.writing
    BY <1>2, <1>13, <2>1, PopKeeps
  <2>3. stack' # <<>> /\ Len(stack') = 2 /\ stack'[2] = "write"
    BY <1>6, <1>7, <1>13 DEF Nested
  <2>4. d.writing
    BY <1>2, <1>13 DEF Consistent
  <2>5. WriteFrame'
    BY <2>2, <2>3, <2>4 DEF WriteFrame
  <2>6. Top(stack) # "complete" \/ Held(userRef, queue, batch, stack)'
    BY <1>13, <1>11a
  <2> QED
    BY <1>11, <2>2, <2>5, <2>6
<1>14. CASE Top(stack)' # "write"
  <2>1. ~(Len(stack') = 2 /\ stack'[2] = "write")
    BY <1>7, <1>14
  <2>2. CASE Top(stack) = "complete"
    <3>1. d' = DropRef(d, TRUE, Held(userRef, queue, batch, stack)')
      BY <1>1, <1>14, <2>2 DEF CallbackReturn
    <3>2. /\ d' \in Datagrams /\ Consistent(d') /\ InOrder(d')
          /\ d'.undefined = d.undefined /\ d'.taken = d.taken
          /\ d'.writing /\ d'.pending = <<>> => d.writing /\ d.pending = <<>>
          /\ ~Held(userRef, queue, batch, stack)' => ~d'.alive
          /\ Held(userRef, queue, batch, stack)' => d' = d
      BY ZenonT(30), <1>2, <3>1, DropRefKeeps
    <3>3. WriteFrame'
      BY <1>10, <2>1, <3>2 DEF WriteFrame
    <3> QED
      BY <1>11, <2>2, <3>2, <3>3
  <2>3. CASE Top(stack) # "complete"
    <3>1. d' = d
      BY <1>14, <2>3 DEF CallbackReturn
    <3>2. WriteFrame'
      BY <1>10, <2>1, <3>1 DEF WriteFrame
    <3> QED
      BY <1>2, <1>11, <2>3, <3>1, <3>2
  <2> QED
    BY <2>2, <2>3
<1> QED
  BY <1>12, <1>13, <1>14

\* handleEvent returns, and its guard goes.
LEMMA EndEventKeeps ==
    ASSUME UdpInv, EndEvent
    PROVE  UdpInv'
<1>1. /\ UNCHANGED <<userRef, sends, queue, batch, next, active, revents>>
      /\ stack = <<"event">> /\ stack' = <<>>
      /\ d' = DropRef(d, TRUE, Held(userRef, queue, batch, stack)')
  BY DEF EndEvent
<1>2. /\ d \in Datagrams /\ Consistent(d) /\ InOrder(d) /\ MaxDepth \in Nat
  BY Types
<1>3. /\ d' \in Datagrams /\ Consistent(d') /\ InOrder(d')
      /\ d'.undefined = d.undefined /\ d'.taken = d.taken
      /\ d'.writing /\ d'.pending = <<>> => d.writing /\ d.pending = <<>>
      /\ ~Held(userRef, queue, batch, stack)' => ~d'.alive
      /\ Held(userRef, queue, batch, stack)' => d' = d
  <2> DEFINE is == Held(userRef, queue, batch, stack)'
             r == DropRef(d, TRUE, is)
  <2> HIDE DEF is
  <2>1. /\ r \in Datagrams /\ Consistent(r) /\ InOrder(r)
        /\ r.undefined = d.undefined /\ r.taken = d.taken
        /\ r.writing /\ r.pending = <<>> => d.writing /\ d.pending = <<>>
        /\ TRUE /\ ~is => ~r.alive
        /\ ~TRUE \/ is => r = d
    BY ZenonT(30), <1>2, DropRefKeeps
  <2>2. d' = r
    BY <1>1 DEF is
  <2> QED
    BY <2>1, <2>2 DEF is
<1>4. UdpTypeOK'
  <2>1. <<>> \in Seq(Callbacks \cup {"event", "functors", "write"}) /\ Len(<<>>) <= MaxDepth
    BY <1>2, EmptySeq
  <2> QED
    BY <1>1, <1>3, <2>1 DEF UdpInv, UdpTypeOK
<1>5. Nested(stack') /\ WriteFrame'
  <2>1. ~(d.writing /\ d.pending = <<>>)
    BY <1>1 DEF UdpInv, WriteFrame
  <2>2. Len(stack') = 0
    BY <1>1
  <2>3. ~(d'.writing /\ d'.pending = <<>>)
    BY <1>3, <2>1
  <2> QED
    BY <2>2, <2>3 DEF Nested, WriteFrame
<1>6. SendsAccounted'
  BY <1>1, <1>3 DEF UdpInv, SendsAccounted, Left, From
<1>7. Ownership'
  <2>1. Held(userRef, queue, batch, stack)
    BY <1>1 DEF Held, ToSet
  <2>2. Left("destroy")' = Left("destroy")
    BY <1>1 DEF Left
  <2> QED
    BY <1>3, <2>1, <2>2, OwnershipStep DEF UdpInv
<1>8. FramesHeld'
  <2>1. batch = <<>>
    BY <1>1 DEF UdpInv, FramesHeld
  <2> QED
    BY <1>1, <2>1 DEF FramesHeld
<1> QED
  BY <1>3, <1>4, <1>5, <1>6, <1>7, <1>8 DEF UdpInv

\* Every step keeps the invariant, one case per disjunct of Next.
LEMMA StepKeeps ==
    ASSUME UdpInv, [Next]_vars
    PROVE  UdpInv'
<1>1. CASE \E op \in Calls \ {"send"} : LoopCall(op)
  BY <1>1, LoopCallKeeps
<1>2. CASE \E op \in Calls : ForeignCall(op)
  BY <1>2, ForeignCallKeeps
<1>3. CASE \E r \in Results : LoopSend(r)
  BY <1>3, LoopSendKeeps
<1>4. CASE LoopRelease
  BY <1>4, LoopReleaseKeeps
<1>5. CASE ForeignRelease
  BY <1>5, ForeignReleaseKeeps
<1>6. CASE \E evs \in SUBSET {"error", "read", "write"} : Poll(evs)
  BY <1>6, PollKeeps
<1>7. CASE TakeFunctors
  BY <1>7, TakeFunctorsKeeps
<1>8. CASE EndBatch
  BY <1>8, EndBatchKeeps
<1>9. CASE HandleEvent
  BY <1>9, HandleEventKeeps
<1>10. CASE HandleError \/ HandleWrite \/ \E ok \in BOOLEAN : HandleRead(ok)
  BY <1>10, HandlersKeep
<1>11. CASE \E r \in Results : RunFunctor(r)
  BY <1>11, RunFunctorKeeps
<1>12. CASE \E r \in Results : WriteOne(r)
  BY <1>12, WriteOneKeeps
<1>13. CASE WriteDone
  BY <1>13, WriteDoneKeeps
<1>14. CASE CallbackReturn
  BY <1>14, CallbackReturnKeeps
<1>15. CASE EndEvent
  BY <1>15, EndEventKeeps
<1>16. CASE UNCHANGED vars
  <2>1. UNCHANGED <<d, userRef, sends, queue, batch, next, stack, active, revents>>
    BY <1>16 DEF vars
  <2> QED
    BY <2>1 DEF UdpInv, UdpTypeOK, WriteFrame, Running, SendsAccounted, Left,
              FramesHeld, Ownership
<1> QED
  BY <1>1, <1>2, <1>3, <1>4, <1>5, <1>6, <1>7, <1>8, <1>9, <1>10, <1>11, <1>12,
     <1>13, <1>14, <1>15, <1>16 DEF Next, Loop

\* A new datagram satisfies it.
LEMMA InitEstablishes ==
    ASSUME Init
    PROVE  UdpInv
<1>1. /\ <<>> \in Seq(1..MaxSends) /\ <<>> \in Seq(Functors)
      /\ <<>> \in Seq(Callbacks \cup {"event", "functors", "write"}) /\ Len(<<>>) = 0
  BY EmptySeq
<1>2. MaxSends \in Nat /\ MaxDepth \in Nat
  BY UdpAssumption
<1>3. d \in Datagrams
  BY <1>1, <1>2 DEF Init, Datagrams, Indices
<1>4. UdpTypeOK
  <2>1. /\ userRef = TRUE /\ sends = 0 /\ queue = <<>> /\ batch = <<>> /\ next = 1
        /\ stack = <<>> /\ active = FALSE /\ revents = {}
    BY DEF Init
  <2>2. sends \in 0..MaxSends /\ next \in 1..(Len(batch) + 1) /\ Len(stack) <= MaxDepth
    BY <1>1, <1>2, <2>1
  <2>3. /\ queue \in Seq(Functors) /\ batch \in Seq(Functors)
        /\ stack \in Seq(Callbacks \cup {"event", "functors", "write"})
    BY <1>1, <2>1
  <2> QED
    BY <1>3, <2>1, <2>2, <2>3 DEF UdpTypeOK
<1>5. Consistent(d)
  BY DEF Init, Consistent
<1>6. InOrder(d)
  BY <1>1 DEF Init, InOrder, Increasing
<1>7. Nested(stack) /\ WriteFrame
  BY <1>1 DEF Init, Nested, WriteFrame
<1>8. SendsAccounted
  BY FromEmpty DEF Init, SendsAccounted, Left
<1>9. Ownership
  <2>1. Left("destroy") = 0
    BY FromEmpty DEF Init, Left
  <2>2. Held(userRef, queue, batch, stack) /\ d.alive
    BY DEF Init, Held
  <2> QED
    BY <2>1, <2>2 DEF Ownership
<1>10. FramesHeld
  BY <1>1 DEF Init, FramesHeld
<1> QED
  BY <1>4, <1>5, <1>6, <1>7, <1>8, <1>9, <1>10 DEF UdpInv

-----------------------------------------------------------------------------
(* The theorems.                                                           *)

\* The inductive invariant holds in every behaviour, whatever the bounds: the
\* state and the channel agree, datagrams are numbered in order, handlers nest
\* one way, what runs is held, and what nobody holds is deleted once.
THEOREM UdpInvariant == Spec => []UdpInv
<1>1. Init => UdpInv
  BY InitEstablishes
<1>2. UdpInv /\ [Next]_vars => UdpInv'
  BY StepKeeps
<1> QED
  BY <1>1, <1>2, PTL DEF Spec

\* What was sent and what is pending, one behind the other, are increasing:
\* sendInLoop and handleWrite never let a datagram overtake another.
THEOREM DatagramsInOrder == Spec => []DatagramOrder
<1>1. UdpInv => DatagramOrder
  <2> SUFFICES ASSUME UdpInv PROVE DatagramOrder
    OBVIOUS
  <2> DEFINE m == Len(d.sent)
             n == Len(d.pending)
             all == d.sent \o d.pending
  <2>1. d \in Datagrams /\ InOrder(d)
    BY Types
  <2>2. d.sent \in Seq(1..MaxSends) /\ d.pending \in Seq(1..MaxSends)
    BY <2>1 DEF Datagrams
  <2>3. /\ m \in Nat /\ n \in Nat /\ Len(all) = m + n
        /\ \A i \in 1..(m + n) : all[i] = IF i <= m THEN d.sent[i] ELSE d.pending[i - m]
    BY ZenonT(30), <2>2, ConcatProperties, LenProperties
  <2> HIDE DEF all
  <2>4. /\ \A i, j \in 1..m : i < j => d.sent[i] < d.sent[j]
        /\ \A i, j \in 1..n : i < j => d.pending[i] < d.pending[j]
        /\ \A i \in 1..m : \A j \in 1..n : d.sent[i] < d.pending[j]
    BY <2>1 DEF InOrder, Increasing
  <2> HIDE DEF m, n
  <2>5. ASSUME NEW i \in 1..(m + n), NEW j \in 1..(m + n), i < j
        PROVE  all[i] < all[j]
    <3>1. CASE j <= m
      <4>1. i \in 1..m /\ j \in 1..m /\ i <= m
        BY <2>3, <2>5, <3>1
      <4> QED
        BY <2>3, <2>4, <2>5, <3>1, <4>1
    <3>2. CASE i <= m /\ ~(j <= m)
      <4>1. i \in 1..m /\ j - m \in 1..n
        BY <2>3, <2>5, <3>2
      <4> QED
        BY <2>3, <2>4, <3>2, <4>1
    <3>3. CASE ~(i <= m)
      <4>1. i - m \in 1..n /\ j - m \in 1..n /\ ~(j <= m) /\ i - m < j - m
        BY <2>3, <2>5, <3>3
      <4> QED
        BY <2>3, <2>4, <3>3, <4>1
    <3> QED
      BY <2>3, <2>5, <3>1, <3>2, <3>3
  <2> QED
    BY <2>3, <2>5 DEF DatagramOrder, UdpInv, all
<1> QED
  BY <1>1, UdpInvariant, PTL

\* Between handlers the interest in writing is up exactly while datagrams wait.
THEOREM InterestMatchesQueue == Spec => []WritingIffPending
<1>1. UdpInv => WritingIffPending
  BY DEF UdpInv, WriteFrame, Consistent, WritingIffPending
<1> QED
  BY <1>1, UdpInvariant, PTL

\* A closed or deleted datagram has left the poller, with its queue empty.
THEOREM ClosedHasLeft == Spec => []ClosedIsUnregistered
<1>1. UdpInv => ClosedIsUnregistered
  BY DEF UdpInv, Consistent, ClosedIsUnregistered
<1> QED
  BY <1>1, UdpInvariant, PTL

\* Only forceClose and destruction throw datagrams away, never close().
THEOREM GracefulKeeps == Spec => []OnlyForceLoses
<1>1. UdpInv => OnlyForceLoses
  BY DEF UdpInv, Consistent, OnlyForceLoses
<1> QED
  BY <1>1, UdpInvariant, PTL

\* Shared ownership, the deleter's two ways and the functors fit together: the
\* datagram is deleted when, and only when, nothing is left that will use it,
\* the functor that is to delete it included.
THEOREM DeletedExactlyWhenUnused == Spec => []DeletedIffUnused
<1>1. UdpInv => DeletedIffUnused
  <2> SUFFICES ASSUME UdpInv PROVE DeletedIffUnused
    OBVIOUS
  <2> DEFINE held == Held(userRef, queue, batch, stack)
             calls == \E f \in Calls : f \in ToSet(queue) \cup ToSet(batch)
             frames == ~(ToSet(stack) \subseteq {"functors"})
             left == "destroy" \in ToSet(queue) \cup ToSet(SubSeq(batch, next, Len(batch)))
  <2>1. held \/ Left("destroy") > 0 <=> d.alive
    <3>1. d.alive \in BOOLEAN
      BY Types DEF Datagrams
    <3> QED
      BY <3>1 DEF UdpInv, Ownership
  <2>2. left <=> Left("destroy") > 0
    <3>1. /\ queue \in Seq(Functors) /\ batch \in Seq(Functors)
          /\ next \in Nat /\ next >= 1 /\ next <= Len(batch) + 1
          /\ Cardinality(From(queue, 1, "destroy")) \in Nat
          /\ Cardinality(From(batch, next, "destroy")) \in Nat
      BY Types
    <3>2. Cardinality(From(queue, 1, "destroy")) > 0 <=> "destroy" \in ToSet(queue)
      <4>1. Len(queue) \in Nat /\ SubSeq(queue, 1, Len(queue)) = queue
        BY <3>1, LenProperties, SubSeqFull
      <4>2. Cardinality(From(queue, 1, "destroy")) > 0 <=>
              "destroy" \in ToSet(SubSeq(queue, 1, Len(queue)))
        BY <3>1, <4>1, FromMember
      <4> QED
        BY <4>1, <4>2
    <3>3. Cardinality(From(batch, next, "destroy")) > 0 <=>
            "destroy" \in ToSet(SubSeq(batch, next, Len(batch)))
      BY <3>1, FromMember
    <3>4. Left("destroy") > 0 <=> \/ Cardinality(From(queue, 1, "destroy")) > 0
                                \/ Cardinality(From(batch, next, "destroy")) > 0
      BY <3>1 DEF Left
    <3> QED
      BY <3>2, <3>3, <3>4
  <2>3. held <=> userRef \/ calls \/ "event" \in ToSet(stack) \/ "complete" \in ToSet(stack)
    BY StrongIsSet DEF Held
  <2>4. "event" \in ToSet(stack) \/ "complete" \in ToSet(stack) => frames
    OBVIOUS
  <2>5. frames => held
    <3> HAVE frames
    <3>1. /\ Len(stack) \in Nat /\ DOMAIN stack = 1..Len(stack) /\ Nested(stack)
          /\ stack \in Seq(Callbacks \cup {"event", "functors", "write"})
      BY Types, LenProperties
    <3>2. PICK i \in 1..Len(stack) : stack[i] # "functors"
      BY <3>1, Zenon DEF ToSet
    <3>3. stack # <<>> /\ stack[1] \in Callbacks \cup {"event", "functors", "write"}
      BY <3>1, <3>2, ElementOfSeq
    <3>4. stack[1] # "write"
      BY <3>1, <3>2 DEF Nested
    <3>5. CASE stack[1] = "event"
      BY <3>1, <3>2, <3>5 DEF ToSet, Held
    <3>6. CASE stack[1] \in Callbacks
      BY <3>3, <3>6 DEF UdpInv, FramesHeld, Held
    <3>7. CASE stack[1] = "functors"
      <4>1. Len(stack) >= 2
        BY <3>1, <3>2, <3>7
      <4>2. stack[2] = "complete" \/ Strong(batch)
        BY <3>7, <4>1 DEF UdpInv, FramesHeld
      <4>3. stack[2] = "complete" => "complete" \in ToSet(stack)
        BY <3>1, <4>1 DEF ToSet
      <4> QED
        BY <4>2, <4>3 DEF Held
    <3> QED
      BY <3>3, <3>4, <3>5, <3>6, <3>7
  <2> HIDE DEF held, calls, frames, left
  <2>6. d.alive <=> userRef \/ frames \/ calls \/ left
    BY <2>1, <2>2, <2>3, <2>4, <2>5
  <2> QED
    BY <2>6 DEF DeletedIffUnused, frames, calls, left
<1> QED
  BY <1>1, UdpInvariant, PTL
=============================================================================
