-------------------------- MODULE HttpServerProofs --------------------------
(***************************************************************************)
(* Proofs about HttpServer, for any number of requests, workers and tasks, *)
(* and every length of the parts of a request.  The inductive invariant is *)
(* HttpServer!HttpInv.  First what the bytes of a request are, then what   *)
(* the parser makes of a buffer, then the actions.                         *)
(***************************************************************************)
EXTENDS HttpServer, SequenceTheorems, TLAPS

-----------------------------------------------------------------------------
(* The bytes of a request.                                                 *)

\* Where byte i of a request is of part p.
In(p, i) == Offset[p] < i /\ i <= Offset[p] + PartLen(p)

\* The constants, and the places of the parts.
LEMMA Lengths ==
    /\ TokenLen \in Nat \ {0} /\ SpanLen \in Nat \ {0}
    /\ MessageLen \in Nat /\ MessageLen = 3 * TokenLen + 3 * SpanLen
    /\ NumRequests \in Nat \ {0} /\ MaxTasks \in Nat
    /\ PartLen("method") = TokenLen /\ PartLen("version") = TokenLen
    /\ PartLen("field") = TokenLen /\ PartLen("url") = SpanLen
    /\ PartLen("value") = SpanLen /\ PartLen("body") = SpanLen
    /\ Offset["method"] = 0 /\ Offset["url"] = TokenLen
    /\ Offset["version"] = TokenLen + SpanLen
    /\ Offset["field"] = 2 * TokenLen + SpanLen
    /\ Offset["value"] = 3 * TokenLen + SpanLen
    /\ Offset["body"] = 3 * TokenLen + 2 * SpanLen
  BY HttpAssumption DEF MessageLen, PartLen, Assigned, Offset

\* Each part has a length above 0 and lies within the request.
LEMMA PartsLie ==
    ASSUME NEW p \in Parts
    PROVE  /\ Offset[p] \in Nat /\ PartLen(p) \in Nat \ {0}
           /\ Offset[p] + PartLen(p) <= MessageLen
           /\ p # "body" => Offset[p] + PartLen(p) < MessageLen
           /\ p = "body" => Offset[p] + PartLen(p) = MessageLen
  BY Lengths DEF Parts

\* Parts do not overlap, and leave nothing between them.
LEMMA PartsApart ==
    ASSUME NEW p \in Parts, NEW q \in Parts, NEW i \in Nat, In(p, i), In(q, i)
    PROVE  p = q
  BY Lengths DEF Parts, In

LEMMA PartsCover ==
    ASSUME NEW i \in 1..MessageLen
    PROVE  \E p \in Parts : In(p, i)
  BY Lengths DEF Parts, In

\* PartAt finds the part.
LEMMA PartAtIs ==
    ASSUME NEW p \in Parts, NEW i \in Nat, In(p, i)
    PROVE  PartAt(i) = p
<1>1. \A q \in Parts : i \in (Offset[q] + 1)..(Offset[q] + PartLen(q)) <=> In(q, i)
  BY PartsLie DEF In
<1>2. \A q \in Parts : i \in (Offset[q] + 1)..(Offset[q] + PartLen(q)) => q = p
  BY <1>1, PartsApart
<1>3. i \in (Offset[p] + 1)..(Offset[p] + PartLen(p))
  BY <1>1
<1> QED
  BY <1>2, <1>3 DEF PartAt

\* A byte that is not bad tells its request, part and position.
LEMMA ByteIs ==
    ASSUME NEW r, NEW kind, NEW i \in 1..MessageLen,
           ~(kind = "bad" /\ i = Offset["version"] + 1)
    PROVE  /\ \A p \in Parts : In(p, i) => Byte(r, kind, i) = <<r, p, i - Offset[p]>>
           /\ \A p \in Parts : Byte(r, kind, i)[2] = p => In(p, i)
           /\ Byte(r, kind, i)[1] = r
           /\ Byte(r, kind, i)[2] \in Parts
<1>1. PICK q \in Parts : In(q, i)
  BY PartsCover
<1>2. i \in Nat
  BY Lengths
<1>3. Byte(r, kind, i) = <<r, q, i - Offset[q]>>
  BY <1>1, <1>2, PartAtIs DEF Byte
<1>4. ASSUME NEW p \in Parts, In(p, i) PROVE Byte(r, kind, i) = <<r, p, i - Offset[p]>>
  BY <1>1, <1>2, <1>3, <1>4, PartsApart
<1> QED
  BY <1>1, <1>3, <1>4

\* The bytes at which llhttp stops.
LEMMA StopBytes ==
    ASSUME NEW r \in Requests, NEW kind, NEW i \in 1..MessageLen
    PROVE  /\ Byte(r, kind, i) \in Bytes /\ Byte(r, kind, i)[1] = r
           /\ Bad(Byte(r, kind, i)) <=> kind = "bad" /\ i = Offset["version"] + 1
           /\ Ends(Byte(r, kind, i)) <=> i = MessageLen
<1>1. CASE kind = "bad" /\ i = Offset["version"] + 1
  <2>1. Byte(r, kind, i) = <<r, "bad", 1>>
    BY <1>1 DEF Byte
  <2>2. i # MessageLen
    BY <1>1, Lengths
  <2> QED
    BY <1>1, <2>1, <2>2 DEF Bad, Ends, Bytes
<1>2. CASE ~(kind = "bad" /\ i = Offset["version"] + 1)
  <2>1. PICK p \in Parts : In(p, i)
    BY PartsCover
  <2>2. Byte(r, kind, i) = <<r, p, i - Offset[p]>>
    BY <1>2, <2>1, ByteIs
  <2>3. i - Offset[p] \in Nat
    BY <2>1, PartsLie, Lengths DEF In
  <2>4. Byte(r, kind, i) \in Bytes
    BY <2>2, <2>3 DEF Bytes
  <2>5. ~Bad(Byte(r, kind, i))
    BY <2>1, <2>2 DEF Bad, Parts
  <2>6. p = "body" /\ i - Offset[p] = SpanLen <=> i = MessageLen
    BY <2>1, PartsLie, Lengths DEF In
  <2> QED
    BY <1>2, <2>2, <2>4, <2>5, <2>6 DEF Ends
<1> QED
  BY <1>1, <1>2

\* The j-th byte behind d requests is the j-th of the next one.
LEMMA SentIs ==
    ASSUME NEW ks, NEW d \in Nat, NEW j \in 1..MessageLen
    PROVE  Sent(ks, d * MessageLen + j) = Byte(d + 1, ks[d + 1], j)
<1> DEFINE L == MessageLen
           x == d * L + j - 1
           q == x \div L
<1>1. L \in Nat \ {0} /\ d * L \in Nat
  BY Lengths
<1> HIDE DEF L
<1>2. j \in 1..L
  BY DEF L
<1>3. q = d
  <2>1. x \in Nat /\ d * L <= x /\ x < d * L + L
    BY <1>1, <1>2
  <2>2. q \in Int /\ q * L <= x /\ x < q * L + L
    BY <1>1, <2>1
  <2>3. ~(q <= d - 1)
    BY <1>1, <2>1, <2>2
  <2>4. ~(q >= d + 1)
    BY <1>1, <2>1, <2>2
  <2> HIDE DEF q
  <2> QED
    BY <2>2, <2>3, <2>4
<1>4. (d * L + j) - 1 = x /\ (d * L + j) - d * L = j
  BY <1>1, <1>2
<1> QED
  BY <1>3, <1>4 DEF Sent, L

-----------------------------------------------------------------------------
(* What the parser makes of a buffer.                                      *)

\* Multiples of the length of a request.
LEMMA Multiples ==
    ASSUME NEW d \in Nat, NEW n \in Nat
    PROVE  /\ d * MessageLen \in Nat
           /\ (d + 1) * MessageLen = d * MessageLen + MessageLen
           /\ d * MessageLen < n * MessageLen => d < n
<1> DEFINE L == MessageLen
<1>1. L \in Nat \ {0}
  BY Lengths
<1> HIDE DEF L
<1>2. d * L \in Nat /\ (d + 1) * L = d * L + L
  BY <1>1
<1>3. d >= n => d * L >= n * L
  BY <1>1
<1>4. n * L \in Nat
  BY <1>1
<1> QED
  BY <1>2, <1>3, <1>4 DEF L

\* The types that the parser's steps need.
LEMMA InputTypes ==
    ASSUME HttpTypeOK, InputTypeOK
    PROVE  /\ buf \in Seq(Bytes) /\ stream \in Seq(Bytes)
           /\ Len(buf) \in Nat /\ Len(stream) \in Nat
           /\ ctx \in [got : [Parts -> Seq(Bytes)], failed : BOOLEAN]
           /\ dispatched \in Seq([Parts -> Seq(Bytes)])
           /\ Len(dispatched) \in Nat /\ Len(dispatched) <= Len(kinds)
           /\ Len(kinds) \in Nat \ {0} /\ Len(kinds) <= NumRequests
           /\ Parsed \in Int /\ Within \in Int
           /\ Parsed = Len(dispatched) * MessageLen + Within
           /\ Parsed + Len(buf) + Len(stream) = Len(kinds) * MessageLen
<1>1. /\ buf \in Seq(Bytes) /\ stream \in Seq(Bytes)
      /\ ctx \in [got : [Parts -> Seq(Bytes)], failed : BOOLEAN]
      /\ dispatched \in Seq([Parts -> Seq(Bytes)])
  BY DEF InputTypeOK
<1>2. Len(buf) \in Nat /\ Len(stream) \in Nat /\ Len(dispatched) \in Nat
  BY <1>1, LenProperties
<1>3. Len(kinds) \in 1..NumRequests /\ Len(dispatched) <= Len(kinds)
  BY DEF HttpTypeOK, Requests
<1>4. Len(kinds) \in Nat \ {0} /\ Len(kinds) <= NumRequests
  BY <1>3, Lengths
<1>5. Len(dispatched) * MessageLen \in Nat /\ Len(kinds) * MessageLen \in Nat
  BY <1>2, <1>4, Multiples
<1> QED
  BY SMTT(30), <1>1, <1>2, <1>3, <1>4, <1>5 DEF Parsed, Within

\* What is in the buffer is the rest of the request at hand, as far as it goes.
LEMMA BufferBytes ==
    ASSUME HttpTypeOK, InputTypeOK, Parsing,
           NEW k \in 1..Len(buf), Within + k <= MessageLen
    PROVE  /\ Len(dispatched) < Len(kinds) /\ Len(dispatched) + 1 \in Requests
           /\ Within + k \in 1..MessageLen
           /\ buf[k] = Byte(Len(dispatched) + 1, kinds[Len(dispatched) + 1], Within + k)
<1> DEFINE D == Len(dispatched)
           j == Within + k
<1>1. /\ Len(buf) \in Nat /\ Len(stream) \in Nat /\ D \in Nat /\ D <= Len(kinds)
      /\ Len(kinds) \in Nat \ {0} /\ Len(kinds) <= NumRequests
      /\ Parsed = D * MessageLen + Within
      /\ Parsed + Len(buf) + Len(stream) = Len(kinds) * MessageLen
  BY InputTypes
<1>2. Within \in 0..(MessageLen - 1) /\ MessageLen \in Nat
  BY Lengths DEF Parsing
<1>3. j \in 1..MessageLen /\ j \in Nat
  BY <1>1, <1>2
<1>4. D * MessageLen \in Nat /\ Len(kinds) * MessageLen \in Nat
  BY <1>1, Multiples
<1>5. Parsed + k = D * MessageLen + j
  BY <1>1, <1>2, <1>4
<1>6. D * MessageLen < Len(kinds) * MessageLen
  BY <1>1, <1>2, <1>4
<1>7. D < Len(kinds)
  BY <1>1, <1>6, Multiples
<1>8. buf[k] = Sent(kinds, Parsed + k)
  BY DEF Parsing
<1>9. Sent(kinds, D * MessageLen + j) = Byte(D + 1, kinds[D + 1], j)
  BY <1>1, <1>3, SentIs
<1>10. D + 1 \in Requests
  <2>1. D \in Nat /\ Len(kinds) \in Nat /\ Len(kinds) <= NumRequests /\ NumRequests \in Nat
    BY <1>1, Lengths
  <2> HIDE DEF D
  <2> QED
    BY <1>7, <2>1 DEF Requests
<1> QED
  BY <1>3, <1>5, <1>7, <1>8, <1>9, <1>10

\* Where the parser stops in the request at hand: at its end or its bad byte.
First ==
    (IF kinds[Len(dispatched) + 1] = "bad" THEN Offset["version"] + 1 ELSE MessageLen)
        - Within

LEMMA StopsAt ==
    ASSUME HttpTypeOK, InputTypeOK, Parsing, buf # <<>>
    PROVE  /\ Len(dispatched) < Len(kinds) /\ Len(dispatched) + 1 \in Requests
           /\ First \in Nat \ {0} /\ Within + First <= MessageLen
           /\ Len(buf) < First => Stops(buf) = {}
           /\ Len(buf) >= First =>
                /\ Stops(buf) # {} /\ Stop(buf) = First
                /\ buf[First][1] = Len(dispatched) + 1
                /\ Bad(buf[First]) <=> kinds[Len(dispatched) + 1] = "bad"
                /\ Ends(buf[First]) <=> kinds[Len(dispatched) + 1] # "bad"
<1> DEFINE D == Len(dispatched)
           kind == kinds[D + 1]
<1>1. Len(buf) \in Nat \ {0} /\ D \in Nat
  <2>1. Len(buf) \in Nat /\ buf \in Seq(Bytes) /\ D \in Nat
    BY InputTypes
  <2> QED
    BY <2>1, EmptySeq
<1>2. Within \in 0..(MessageLen - 1) /\ MessageLen \in Nat
  BY Lengths DEF Parsing
<1>3. D < Len(kinds) /\ D + 1 \in Requests
  <2>1. 1 \in 1..Len(buf) /\ Within + 1 <= MessageLen
    BY <1>1, <1>2
  <2> QED
    BY <2>1, BufferBytes
<1>4. /\ First \in Nat \ {0} /\ Within + First <= MessageLen
      /\ kind = "bad" => First = Offset["version"] + 1 - Within
      /\ kind # "bad" => First = MessageLen - Within
  <2>1. kind = "bad" => Within <= Offset["version"]
    BY <1>3 DEF Parsing
  <2>2. Offset["version"] \in Nat /\ Offset["version"] + 1 <= MessageLen
    BY Lengths
  <2> QED
    BY <1>2, <2>1, <2>2 DEF First
<1>5. ASSUME NEW i \in 1..Len(buf), i <= First
      PROVE  /\ buf[i][1] = D + 1
             /\ Bad(buf[i]) <=> kind = "bad" /\ i = First
             /\ Ends(buf[i]) <=> kind # "bad" /\ i = First
  <2>1. Within + i \in 1..MessageLen /\ buf[i] = Byte(D + 1, kind, Within + i)
    <3>1. Within + i <= MessageLen
      BY <1>1, <1>2, <1>4, <1>5
    <3> QED
      BY <3>1, BufferBytes
  <2>2. /\ buf[i][1] = D + 1
        /\ Bad(buf[i]) <=> kind = "bad" /\ Within + i = Offset["version"] + 1
        /\ Ends(buf[i]) <=> Within + i = MessageLen
    BY <1>3, <2>1, StopBytes
  <2>3. kind = "bad" => (Within + i = Offset["version"] + 1 <=> i = First)
    BY <1>1, <1>2, <1>4, Lengths
  <2>4. kind = "bad" => Within + i # MessageLen
    BY <1>1, <1>2, <1>4, <1>5, Lengths
  <2>5. kind # "bad" => (Within + i = MessageLen <=> i = First)
    BY <1>1, <1>2, <1>4
  <2> QED
    BY <2>2, <2>3, <2>4, <2>5
<1> HIDE DEF D, kind
<1>6. Len(buf) < First => Stops(buf) = {}
  BY <1>1, <1>4, <1>5 DEF Stops
<1>7. ASSUME Len(buf) >= First
      PROVE  Stops(buf) # {} /\ Stop(buf) = First
  <2>1. First \in 1..Len(buf)
    BY <1>1, <1>4, <1>7
  <2>2. First \in Stops(buf)
    BY <1>4, <1>5, <2>1 DEF Stops
  <2>3. \A j \in Stops(buf) : j \in Nat /\ First <= j
    BY <1>1, <1>4, <1>5 DEF Stops
  <2>4. \A i \in Stops(buf) : (\A j \in Stops(buf) : i <= j) => i = First
    BY <1>4, <2>2, <2>3
  <2>5. \A j \in Stops(buf) : First <= j
    BY <2>3
  <2> QED
    BY <2>2, <2>4, <2>5 DEF Stop
<1>8. ASSUME Len(buf) >= First
      PROVE  /\ buf[First][1] = D + 1
             /\ Bad(buf[First]) <=> kind = "bad"
             /\ Ends(buf[First]) <=> kind # "bad"
  <2>1. First \in 1..Len(buf) /\ First <= First
    BY <1>1, <1>4, <1>8
  <2> QED
    BY <1>5, <2>1
<1> QED
  BY <1>3, <1>4, <1>6, <1>7, <1>8 DEF D, kind

\* The first n bytes of the buffer, if none of them is bad, hold of part p those
\* from place lo to place hi, or none.
LEMMA PlacesAre ==
    ASSUME HttpTypeOK, InputTypeOK, Parsing, NEW n \in 1..Len(buf),
           Within + n <= MessageLen,
           kinds[Len(dispatched) + 1] = "bad" => Within + n <= Offset["version"],
           NEW p \in Parts
    PROVE  /\ Places(buf, n, p) = {i \in 1..n : In(p, Within + i)}
           /\ \A i \in Places(buf, n, p) :
                buf[i] = <<Len(dispatched) + 1, p, Within + i - Offset[p]>>
<1> DEFINE D == Len(dispatched)
<1>1. Within \in Nat /\ Offset["version"] \in Nat /\ n \in Nat /\ Len(buf) \in Nat
      /\ MessageLen \in Nat
  BY Lengths, InputTypes DEF Parsing
<1>2. ASSUME NEW i \in 1..n
      PROVE  /\ buf[i][2] = p <=> In(p, Within + i)
             /\ In(p, Within + i) => buf[i] = <<D + 1, p, Within + i - Offset[p]>>
  <2>1. i \in 1..Len(buf) /\ Within + i <= MessageLen
    BY <1>1
  <2>2. Within + i \in 1..MessageLen /\ buf[i] = Byte(D + 1, kinds[D + 1], Within + i)
    BY <2>1, BufferBytes
  <2>3. ~(kinds[D + 1] = "bad" /\ Within + i = Offset["version"] + 1)
    BY <1>1
  <2> DEFINE j == Within + i
             kind == kinds[D + 1]
             r == D + 1
  <2>4. j \in 1..MessageLen /\ buf[i] = Byte(r, kind, j) /\ ~(kind = "bad" /\ j = Offset["version"] + 1)
    BY <2>2, <2>3
  <2> HIDE DEF j, kind, r
  <2>5. /\ In(p, j) => Byte(r, kind, j) = <<r, p, j - Offset[p]>>
        /\ Byte(r, kind, j)[2] = p => In(p, j)
    BY <2>4, ByteIs
  <2>6. /\ buf[i][2] = p <=> In(p, j)
        /\ In(p, j) => buf[i] = <<r, p, j - Offset[p]>>
    BY <2>4, <2>5
  <2> QED
    BY <1>1, <2>1, <2>6, PartsLie, SMTT(30) DEF j, r, D, In
<1> QED
  BY <1>2 DEF Places

\* The least and the greatest number of an interval.
LEMMA IntervalEnds ==
    ASSUME NEW lo \in Nat, NEW hi \in Nat, lo <= hi
    PROVE  Min(lo..hi) = lo /\ Max(lo..hi) = hi
<1>1. lo \in lo..hi /\ \A y \in lo..hi : lo <= y
  OBVIOUS
<1>2. \A x \in lo..hi : (\A y \in lo..hi : x <= y) => x = lo
  OBVIOUS
<1>3. hi \in lo..hi /\ \A y \in lo..hi : hi >= y
  OBVIOUS
<1>4. \A x \in lo..hi : (\A y \in lo..hi : x >= y) => x = hi
  OBVIOUS
<1>5. Min(lo..hi) = lo
  BY <1>1, <1>2 DEF Min
<1>6. Max(lo..hi) = hi
  BY <1>3, <1>4 DEF Max
<1> QED
  BY <1>5, <1>6

\* Begun is a sequence of bytes.
LEMMA BegunIs ==
    ASSUME NEW r \in Requests, NEW p \in Parts, NEW n \in Nat
    PROVE  /\ Upto(p, n) \in Nat /\ Upto(p, n) <= PartLen(p)
           /\ Begun(r, p, n) \in Seq(Bytes) /\ Len(Begun(r, p, n)) = Upto(p, n)
           /\ \A i \in 1..Upto(p, n) : Begun(r, p, n)[i] = <<r, p, i>>
<1>1. Upto(p, n) \in Nat /\ Upto(p, n) <= PartLen(p)
  BY PartsLie DEF Upto
<1>2. \A i \in 1..Upto(p, n) : <<r, p, i>> \in Bytes
  BY <1>1 DEF Bytes
<1>3. Begun(r, p, n) \in [1..Upto(p, n) -> Bytes]
  BY <1>2 DEF Begun
<1>4. Begun(r, p, n) \in Seq(Bytes)
  BY <1>1, <1>3, SeqDef
<1>5. Len(Begun(r, p, n)) \in Nat /\ DOMAIN Begun(r, p, n) = 1..Len(Begun(r, p, n))
  BY <1>4, LenProperties
<1>6. DOMAIN Begun(r, p, n) = 1..Upto(p, n)
  BY DEF Begun
<1>7. Len(Begun(r, p, n)) = Upto(p, n)
  BY <1>1, <1>5, <1>6
<1>8. \A i \in 1..Upto(p, n) : Begun(r, p, n)[i] = <<r, p, i>>
  BY DEF Begun
<1> QED
  BY <1>1, <1>4, <1>7, <1>8

\* The piece of part p continues what there was of it.
LEMMA PieceContinues ==
    ASSUME HttpTypeOK, InputTypeOK, Parsing, NEW n \in 1..Len(buf),
           Within + n <= MessageLen,
           kinds[Len(dispatched) + 1] = "bad" => Within + n <= Offset["version"],
           NEW p \in Parts
    PROVE  LET r == Len(dispatched) + 1 IN
           /\ Places(buf, n, p) = {} => Begun(r, p, Within + n) = Begun(r, p, Within)
           /\ Places(buf, n, p) # {} =>
                /\ Piece(buf, n, p) \in Seq(Bytes)
                /\ Begun(r, p, Within) \o Piece(buf, n, p) = Begun(r, p, Within + n)
<1> DEFINE r == Len(dispatched) + 1
           W == Within
           O == Offset[p]
           P == PartLen(p)
           lo == IF W <= O THEN O + 1 - W ELSE 1
           hi == IF W + n <= O + P THEN n ELSE O + P - W
           A == Places(buf, n, p)
           piece == SubSeq(buf, lo, hi)
           X == Begun(r, p, W)
           Y == Begun(r, p, W + n)
<1>1. W \in Nat /\ n \in Nat \ {0} /\ Len(buf) \in Nat /\ n <= Len(buf) /\ W + n \in Nat
  <2>1. Len(buf) \in Nat
    BY InputTypes
  <2>2. W \in Nat
    BY Lengths DEF Parsing
  <2> HIDE DEF W
  <2> QED
    BY <2>1, <2>2
<1>2. O \in Nat /\ P \in Nat \ {0}
  BY PartsLie
<1>3. r \in Requests
  <2>1. 1 \in 1..Len(buf) /\ Within + 1 <= MessageLen
    BY <1>1, Lengths
  <2> QED
    BY <2>1, BufferBytes
<1>4. /\ A = {i \in 1..n : In(p, W + i)}
      /\ \A i \in A : buf[i] = <<r, p, W + i - O>>
  BY PlacesAre
<1>5. buf \in Seq(Bytes)
  BY InputTypes
<1> HIDE DEF W, O, P, A, r
<1>6. A = {i \in 1..n : O < W + i /\ W + i <= O + P}
  BY <1>4 DEF In, O, P
<1>7. Upto(p, W) = (IF W <= O THEN 0 ELSE IF W >= O + P THEN P ELSE W - O)
  BY DEF Upto, O, P
<1>8. Upto(p, W + n) = (IF W + n <= O THEN 0 ELSE IF W + n >= O + P THEN P ELSE W + n - O)
  BY <1>1, <1>2 DEF Upto, O, P
<1> DEFINE a == Upto(p, W)
           b == Upto(p, W + n)
<1>9. CASE A = {}
  <2>1. ~(W < O + P /\ O < W + n)
    <3>1. ASSUME W < O + P, O < W + n PROVE lo \in A
      BY <1>1, <1>2, <1>6, <3>1
    <3> QED
      BY <1>9, <3>1
  <2>2. Upto(p, W) = Upto(p, W + n)
    BY <1>1, <1>2, <1>7, <1>8, <2>1
  <2> QED
    BY <1>9, <2>2 DEF Begun, A, W, r
<1>10. CASE A # {}
  <2>1. W < O + P /\ O < W + n
    BY <1>1, <1>2, <1>6, <1>10
  <2>2. /\ lo \in Nat \ {0} /\ hi \in Nat /\ lo <= hi /\ hi <= n
        /\ a + 1 = W + lo - O /\ b = W + hi - O
    BY <1>1, <1>2, <1>7, <1>8, <2>1
  <2>3. A = lo..hi
    BY SMTT(30), <1>1, <1>2, <1>6, <2>1
  <2> HIDE DEF lo, hi
  <2>4. Piece(buf, n, p) = piece
    BY <2>2, <2>3, IntervalEnds DEF Piece, A
  <2>5. \A i \in lo..hi : buf[i] \in Bytes
    <3>1. \A i \in lo..hi : i \in 1..Len(buf)
      BY <1>1, <2>2
    <3> QED
      BY <1>5, <3>1, ElementOfSeq
  <2>6. /\ piece \in Seq(Bytes) /\ Len(piece) = hi - lo + 1
        /\ \A i \in 1..(hi - lo + 1) : piece[i] = buf[lo + i - 1]
    <3>1. lo \in Int /\ hi \in Int
      BY <2>2
    <3> QED
      BY <2>2, <2>5, <3>1, SubSeqProperties
  <2> HIDE DEF piece
  <2>7. /\ X \in Seq(Bytes) /\ Len(X) = a /\ a \in Nat
        /\ \A i \in 1..a : X[i] = <<r, p, i>>
    BY <1>1, <1>3, BegunIs
  <2>8. /\ Y \in Seq(Bytes) /\ Len(Y) = b /\ b \in Nat
        /\ \A i \in 1..b : Y[i] = <<r, p, i>>
    BY <1>1, <1>3, BegunIs
  <2> HIDE DEF X, Y, a, b
  <2>9. /\ X \o piece \in Seq(Bytes) /\ Len(X \o piece) = Len(X) + Len(piece)
        /\ \A i \in 1..(Len(X) + Len(piece)) : (X \o piece)[i] =
              IF i <= Len(X) THEN X[i] ELSE piece[i - Len(X)]
    BY <2>6, <2>7, ConcatProperties
  <2>10. Len(X \o piece) = Len(Y)
    <3>1. Len(X \o piece) = a + (hi - lo + 1) /\ Len(Y) = b
      BY <2>6, <2>7, <2>8, <2>9
    <3> QED
      BY <1>1, <1>2, <2>2, <2>7, <3>1
  <2>11. ASSUME NEW i \in 1..Len(X \o piece) PROVE (X \o piece)[i] = Y[i]
    <3>1. Y[i] = <<r, p, i>> /\ i \in 1..(Len(X) + Len(piece))
      BY <2>8, <2>9, <2>10
    <3>2. CASE i <= Len(X)
      <4>1. i \in 1..a
        BY <2>7, <3>1, <3>2
      <4> QED
        BY <2>7, <2>9, <3>1, <3>2, <4>1
    <3>3. CASE ~(i <= Len(X))
      <4> DEFINE k == i - Len(X)
                 m == lo + k - 1
      <4>1. k \in 1..(hi - lo + 1) /\ m \in lo..hi /\ W + m - O = i
        <5>1. /\ Len(X) = a /\ a \in Nat /\ Len(piece) = hi - lo + 1
              /\ i \in 1..(Len(X) + Len(piece))
          BY <2>6, <2>7, <3>1
        <5> QED
          BY <1>1, <1>2, <2>2, <3>3, <5>1
      <4>2. (X \o piece)[i] = piece[k]
        BY <2>9, <3>1, <3>3
      <4> HIDE DEF k
      <4>3. piece[k] = buf[m]
        BY <2>6, <4>1
      <4>4. buf[m] = <<r, p, i>>
        BY <1>4, <2>3, <4>1
      <4> QED
        BY <3>1, <4>2, <4>3, <4>4
    <3> QED
      BY <3>2, <3>3
  <2>12. X \o piece = Y
    BY <2>8, <2>9, <2>10, <2>11, SeqEqual
  <2> QED
    BY <1>10, <2>4, <2>6, <2>12 DEF X, Y, A, W, r
<1> QED
  BY <1>9, <1>10 DEF A, W, r

\* Feeding n bytes that are not bad brings the context to the place behind them.
LEMMA FeedIs ==
    ASSUME HttpTypeOK, InputTypeOK, Parsing, pc # "handle", NEW n \in 1..Len(buf),
           Within + n <= MessageLen,
           kinds[Len(dispatched) + 1] = "bad" => Within + n <= Offset["version"]
    PROVE  LET g == Feed(ctx.got, buf, n) IN
           /\ g \in [Parts -> Seq(Bytes)]
           /\ \A p \in Parts \ Assigned : g[p] = Begun(Len(dispatched) + 1, p, Within + n)
<1> DEFINE g == Feed(ctx.got, buf, n)
<1>1. ctx.got \in [Parts -> Seq(Bytes)]
  BY DEF InputTypeOK
<1>2. \A p \in Parts \ Assigned : ctx.got[p] = Begun(Len(dispatched) + 1, p, Within)
  BY DEF Parsing
<1>3. ASSUME NEW p \in Parts
      PROVE  /\ g[p] \in Seq(Bytes)
             /\ p \notin Assigned => g[p] = Begun(Len(dispatched) + 1, p, Within + n)
  <2>1. g[p] = IF Places(buf, n, p) = {} THEN ctx.got[p]
               ELSE IF p \in Assigned THEN Piece(buf, n, p)
               ELSE ctx.got[p] \o Piece(buf, n, p)
    BY DEF Feed
  <2>2. CASE Places(buf, n, p) = {}
    BY <1>1, <1>2, <2>1, <2>2, PieceContinues
  <2>3. CASE Places(buf, n, p) # {}
    <3>1. /\ Piece(buf, n, p) \in Seq(Bytes)
          /\ Begun(Len(dispatched) + 1, p, Within) \o Piece(buf, n, p) =
               Begun(Len(dispatched) + 1, p, Within + n)
      BY <2>3, PieceContinues
    <3>2. ctx.got[p] \in Seq(Bytes)
      BY <1>1
    <3>3. ctx.got[p] \o Piece(buf, n, p) \in Seq(Bytes)
      BY <3>1, <3>2, ConcatProperties
    <3> QED
      BY <1>2, <2>1, <2>3, <3>1, <3>3
  <2> QED
    BY <2>2, <2>3
<1>4. g = [p \in Parts |-> g[p]]
  BY DEF Feed
<1> HIDE DEF g
<1>5. g \in [Parts -> Seq(Bytes)]
  BY <1>3, <1>4
<1> QED
  BY <1>3, <1>5 DEF g

-----------------------------------------------------------------------------
(* What the actions do to the parser.                                      *)

\* Nothing of a request has been parsed at its start, and all at its end.
LEMMA BegunNone ==
    ASSUME NEW r, NEW p \in Parts
    PROVE  Begun(r, p, 0) = <<>>
<1>1. Upto(p, 0) = 0
  BY PartsLie DEF Upto
<1>2. Begun(r, p, 0) \in [1..0 -> {}] /\ DOMAIN Begun(r, p, 0) = 1..0
  BY <1>1 DEF Begun
<1>3. Begun(r, p, 0) \in Seq({})
  BY <1>2, SeqDef
<1>4. Len(Begun(r, p, 0)) \in Nat /\ DOMAIN Begun(r, p, 0) = 1..Len(Begun(r, p, 0))
  BY <1>3, LenProperties
<1>5. Len(Begun(r, p, 0)) = 0
  BY <1>2, <1>4
<1> QED
  BY <1>3, <1>5, EmptySeq

LEMMA BegunAll ==
    ASSUME NEW r, NEW p \in Parts
    PROVE  Begun(r, p, MessageLen) = Span(r, p)
<1>1. Upto(p, MessageLen) = PartLen(p)
  BY PartsLie, Lengths DEF Upto
<1> QED
  BY <1>1 DEF Begun, Span

\* Steps that leave the parser and the connection's input alone.
LEMMA InputKept ==
    ASSUME Input, UNCHANGED <<kinds, stream, buf, ctx, pc, dispatched>>,
           state' = "connected" => state = "connected"
    PROVE  Input'
<1>1. InputTypeOK' /\ Unread' /\ UrlAndBodyWhole'
  BY DEF Input, InputTypeOK, Unread, UrlAndBodyWhole
<1>2. Parsed' = Parsed /\ Within' = Within
  BY DEF Parsed, Within
<1>3. ~ctx'.failed => Parsing'
  BY <1>2 DEF Input, Parsing
<1>4. ctx'.failed => state' # "connected" /\ pc' # "handle"
  BY DEF Input
<1> QED
  BY <1>1, <1>3, <1>4 DEF Input

\* The message callback: data moves from the socket to the buffer.
LEMMA ReceiveInput ==
    ASSUME HttpTypeOK, Input, NEW n \in 1..Len(stream), Receive(n)
    PROVE  Input'
<1> DEFINE N == Len(kinds) * MessageLen
           x == SubSeq(stream, 1, n)
           y == SubSeq(stream, n + 1, Len(stream))
<1>1. InputTypeOK /\ Unread /\ UrlAndBodyWhole
  BY DEF Input
<1>2. /\ buf \in Seq(Bytes) /\ stream \in Seq(Bytes)
      /\ Len(buf) \in Nat /\ Len(stream) \in Nat /\ Len(kinds) \in Nat
  BY <1>1, InputTypes
<1>3. N \in Nat
  BY <1>2, Multiples
<1>4. n \in Nat /\ n >= 1 /\ n <= Len(stream)
  BY <1>2
<1>5. /\ buf' = buf \o x /\ stream' = y /\ pc = "idle" /\ pc' = "parse"
      /\ UNCHANGED <<kinds, ctx, dispatched, state>>
  BY DEF Receive, connVars
<1>6. /\ x \in Seq(Bytes) /\ Len(x) = n
      /\ \A i \in 1..n : x[i] = stream[i]
  <2>1. \A i \in 1..n : stream[i] \in Bytes
    BY <1>2, <1>4, ElementOfSeq
  <2>2. /\ x \in Seq(Bytes) /\ Len(x) = IF 1 <= n THEN n - 1 + 1 ELSE 0
        /\ \A i \in 1..(n - 1 + 1) : x[i] = stream[1 + i - 1]
    <3>1. 1 \in Int /\ n \in Int
      BY <1>4
    <3> QED
      BY <2>1, <3>1, SubSeqProperties
  <2> HIDE DEF x
  <2>3. \A i \in 1..n : i \in 1..(n - 1 + 1) /\ 1 + i - 1 = i
    BY <1>4
  <2> QED
    BY <1>4, <2>2, <2>3
<1>7. /\ y \in Seq(Bytes) /\ Len(y) = Len(stream) - n
      /\ \A i \in 1..(Len(stream) - n) : y[i] = stream[n + i]
  <2>1. \A i \in (n + 1)..Len(stream) : stream[i] \in Bytes
    <3>1. \A i \in (n + 1)..Len(stream) : i \in 1..Len(stream)
      BY <1>2, <1>4
    <3> QED
      BY <1>2, <3>1, ElementOfSeq
  <2>2. /\ y \in Seq(Bytes)
        /\ Len(y) = IF n + 1 <= Len(stream) THEN Len(stream) - (n + 1) + 1 ELSE 0
        /\ \A i \in 1..(Len(stream) - (n + 1) + 1) : y[i] = stream[(n + 1) + i - 1]
    <3>1. n + 1 \in Int /\ Len(stream) \in Int
      BY <1>2, <1>4
    <3> QED
      BY <2>1, <3>1, SubSeqProperties
  <2> HIDE DEF y
  <2>3. \A i \in 1..(Len(stream) - n) :
           i \in 1..(Len(stream) - (n + 1) + 1) /\ (n + 1) + i - 1 = n + i
    BY <1>2, <1>4
  <2>4. Len(y) = Len(stream) - n
    BY <1>2, <1>4, <2>2
  <2> QED
    BY <2>2, <2>3, <2>4
<1> HIDE DEF x, y, N
<1>8. /\ buf' \in Seq(Bytes) /\ Len(buf') = Len(buf) + n
      /\ \A i \in 1..(Len(buf) + n) :
            buf'[i] = IF i <= Len(buf) THEN buf[i] ELSE x[i - Len(buf)]
  <2>1. /\ buf \o x \in Seq(Bytes) /\ Len(buf \o x) = Len(buf) + Len(x)
        /\ \A i \in 1..(Len(buf) + Len(x)) :
              (buf \o x)[i] = IF i <= Len(buf) THEN buf[i] ELSE x[i - Len(buf)]
    <3>1. buf \in Seq(Bytes) /\ x \in Seq(Bytes)
      BY <1>2, <1>6
    <3> QED
      BY ZenonT(30), <3>1, ConcatProperties
  <2>2. Len(x) = n /\ buf' = buf \o x
    BY <1>5, <1>6
  <2> QED
    BY <2>1, <2>2
<1>9. InputTypeOK' /\ UrlAndBodyWhole'
  BY <1>1, <1>5, <1>7, <1>8 DEF InputTypeOK, UrlAndBodyWhole
<1>10. Parsed = N - (Len(buf) + Len(stream)) /\ Parsed' = Parsed /\ Parsed \in Int
  <2>1. Parsed = N - (Len(buf) + Len(stream))
    BY DEF Parsed, N
  <2>2. Parsed' = N - (Len(buf') + Len(stream'))
    BY <1>5 DEF Parsed, N
  <2>3. Len(buf') + Len(stream') = Len(buf) + Len(stream)
    BY <1>2, <1>4, <1>5, <1>7, <1>8
  <2> QED
    BY <1>2, <1>3, <2>1, <2>2, <2>3
<1>11. Within' = Within
  BY <1>5, <1>10 DEF Within
<1>12. \A k \in 1..Len(stream) : stream[k] = Sent(kinds, N - Len(stream) + k)
  BY <1>1 DEF Unread, N
<1>13. Unread'
  <2>1. ASSUME NEW k \in 1..Len(stream')
        PROVE  stream'[k] = Sent(kinds, N - Len(stream') + k)
    <3>1. k \in 1..(Len(stream) - n) /\ Len(stream') = Len(stream) - n
      BY <1>5, <1>7
    <3>2. n + k \in 1..Len(stream) /\ N - Len(stream) + (n + k) = N - Len(stream') + k
      BY <1>2, <1>3, <1>4, <3>1
    <3>3. stream'[k] = stream[n + k]
      BY <1>5, <1>7, <3>1
    <3>4. stream[n + k] = Sent(kinds, N - Len(stream) + (n + k))
      BY <1>12, <3>2
    <3> QED
      BY <3>2, <3>3, <3>4
  <2> QED
    BY <1>5, <2>1 DEF Unread, N
<1>14. ASSUME ~ctx'.failed PROVE Parsing'
  <2>1. Parsing
    BY <1>5, <1>14 DEF Input
  <2>2. ASSUME NEW k \in 1..Len(buf') PROVE buf'[k] = Sent(kinds, Parsed + k)
    <3>1. k \in 1..(Len(buf) + n)
      BY <1>8
    <3>2. CASE k <= Len(buf)
      <4>1. k \in 1..Len(buf)
        BY <1>2, <3>1, <3>2
      <4>2. buf[k] = Sent(kinds, Parsed + k)
        BY <2>1, <4>1 DEF Parsing
      <4> QED
        BY <1>8, <3>1, <3>2, <4>2
    <3>3. CASE ~(k <= Len(buf))
      <4> DEFINE m == k - Len(buf)
      <4>1. m \in 1..n /\ m \in 1..Len(stream) /\ N - Len(stream) + m = Parsed + k
        BY <1>2, <1>3, <1>4, <1>10, <3>1, <3>3
      <4>2. buf'[k] = x[m]
        BY <1>8, <3>1, <3>3
      <4> HIDE DEF m
      <4>3. x[m] = stream[m]
        BY <1>6, <4>1
      <4>4. stream[m] = Sent(kinds, N - Len(stream) + m)
        BY <1>12, <4>1
      <4> QED
        BY <4>1, <4>2, <4>3, <4>4
    <3> QED
      BY <3>2, <3>3
  <2> QED
    BY <1>5, <1>10, <1>11, <2>1, <2>2 DEF Parsing
<1> QED
  BY <1>1, <1>5, <1>9, <1>13, <1>14 DEF Input

\* The data ends inside the request.
LEMMA PartialInput ==
    ASSUME HttpTypeOK, Input, ParsePartial
    PROVE  Input'
<1> DEFINE D == Len(dispatched)
           W == Within
           n == Len(buf)
           g == Feed(ctx.got, buf, n)
<1>1. /\ pc = "parse" /\ buf # <<>> /\ ~ctx.failed /\ Stops(buf) = {}
      /\ ctx' = [ctx EXCEPT !.got = g] /\ buf' = <<>> /\ pc' = "idle"
      /\ UNCHANGED <<kinds, stream, dispatched, state>>
  BY DEF ParsePartial, connVars
<1>2. InputTypeOK /\ Unread /\ UrlAndBodyWhole /\ Parsing
  BY <1>1 DEF Input
<1>3. /\ buf \in Seq(Bytes) /\ n \in Nat /\ Len(stream) \in Nat /\ D \in Nat
      /\ ctx \in [got : [Parts -> Seq(Bytes)], failed : BOOLEAN]
      /\ Len(kinds) \in Nat /\ Parsed \in Int /\ W \in Int
  BY <1>2, InputTypes
<1>4. n # 0
  BY <1>1, <1>3, EmptySeq
<1>5. D * MessageLen \in Nat /\ Len(kinds) * MessageLen \in Nat
  BY <1>3, Multiples
<1>6. W \in 0..(MessageLen - 1) /\ MessageLen \in Nat /\ Offset["version"] \in Nat
  BY <1>2, Lengths DEF Parsing
<1>7. First \in Nat /\ Len(buf) < First /\ D < Len(kinds)
  BY <1>1, <1>2, StopsAt
<1>8. /\ kinds[D + 1] = "bad" => W + n <= Offset["version"]
      /\ W + n <= MessageLen - 1
  <2>1. First = (IF kinds[D + 1] = "bad" THEN Offset["version"] + 1 ELSE MessageLen) - W
    BY DEF First
  <2>2. Offset["version"] + 1 <= MessageLen
    BY Lengths
  <2>3. /\ n \in Nat /\ W \in Nat /\ MessageLen \in Nat /\ Offset["version"] \in Nat
        /\ First \in Nat /\ n < First
    BY <1>3, <1>6, <1>7
  <2> HIDE DEF D, W, n
  <2> QED
    BY <2>1, <2>2, <2>3
<1>9. /\ g \in [Parts -> Seq(Bytes)]
      /\ \A p \in Parts \ Assigned : g[p] = Begun(D + 1, p, W + n)
  <2>1. n \in 1..Len(buf) /\ W + n <= MessageLen /\ pc # "handle"
    BY <1>1, <1>3, <1>4, <1>6, <1>8
  <2> QED
    BY <1>2, <1>8, <2>1, FeedIs
<1> HIDE DEF g
<1>10. ctx'.got = g /\ ctx'.failed = FALSE
       /\ ctx' \in [got : [Parts -> Seq(Bytes)], failed : BOOLEAN]
  BY <1>1, <1>3, <1>9
<1>11. InputTypeOK' /\ Unread' /\ UrlAndBodyWhole'
  BY <1>1, <1>2, <1>10, EmptySeq DEF InputTypeOK, Unread, UrlAndBodyWhole
<1>12. Len(buf') = 0
  BY <1>1, EmptySeq
<1>13. Within' = W + n
  <2>1. Parsed' = Len(kinds) * MessageLen - (0 + Len(stream))
    BY <1>1, <1>12 DEF Parsed
  <2>2. Parsed = Len(kinds) * MessageLen - (n + Len(stream))
    BY DEF Parsed
  <2>3. Within' = Parsed' - D * MessageLen /\ W = Parsed - D * MessageLen
    BY <1>1 DEF Within
  <2> DEFINE x == Len(kinds) * MessageLen
             y == D * MessageLen
  <2>4. x \in Nat /\ y \in Nat /\ Parsed' = x - (0 + Len(stream))
        /\ Parsed = x - (n + Len(stream)) /\ Within' = Parsed' - y /\ W = Parsed - y
    BY <1>5, <2>1, <2>2, <2>3
  <2>5. n \in Nat /\ Len(stream) \in Nat
    BY <1>3
  <2> HIDE DEF D, W, n, x, y
  <2> QED
    BY <2>4, <2>5
<1>14. Parsing'
  <2>1. \A k \in 1..Len(buf') : buf'[k] = Sent(kinds', Parsed' + k)
    BY <1>12
  <2>2. W + n \in 0..(MessageLen - 1)
    BY <1>3, <1>6, <1>8
  <2>3. Len(dispatched') < Len(kinds') /\ kinds'[Len(dispatched') + 1] = "bad" =>
           Within' <= Offset["version"]
    BY <1>1, <1>8, <1>13
  <2>4. \A p \in Parts \ Assigned : ctx'.got[p] = Begun(Len(dispatched') + 1, p, Within')
    BY <1>1, <1>9, <1>10, <1>13
  <2> QED
    BY <1>1, <1>13, <2>1, <2>2, <2>3, <2>4 DEF Parsing
<1> QED
  BY <1>10, <1>11, <1>14 DEF Input

\* The request ends: it is dispatched whole, and what follows stays in the buffer.
LEMMA CompleteInput ==
    ASSUME HttpTypeOK, Input, ParseComplete
    PROVE  /\ Input' /\ Len(dispatched) < Len(kinds)
           /\ Len(dispatched') = Len(dispatched) + 1
           /\ \A r \in 1..Len(dispatched) : dispatched'[r] = dispatched[r]
<1> DEFINE D == Len(dispatched)
           W == Within
           n == First
           g == Feed(ctx.got, buf, n)
<1>1. /\ pc = "parse" /\ ~ctx.failed /\ Stops(buf) # {} /\ Ends(buf[Stop(buf)])
      /\ ctx' = [ctx EXCEPT !.got = Feed(ctx.got, buf, Stop(buf))]
      /\ buf' = SubSeq(buf, Stop(buf) + 1, Len(buf)) /\ pc' = "handle"
      /\ dispatched' = Append(dispatched, ctx'.got)
      /\ UNCHANGED <<kinds, stream, state>>
  BY DEF ParseComplete, Consumed, connVars
<1>2. InputTypeOK /\ Unread /\ UrlAndBodyWhole /\ Parsing
  BY <1>1 DEF Input
<1>3. /\ buf \in Seq(Bytes) /\ Len(buf) \in Nat /\ Len(stream) \in Nat /\ D \in Nat
      /\ ctx \in [got : [Parts -> Seq(Bytes)], failed : BOOLEAN]
      /\ dispatched \in Seq([Parts -> Seq(Bytes)])
      /\ Len(kinds) \in Nat /\ Parsed \in Int /\ W \in Int
  BY <1>2, InputTypes
<1>4. buf # <<>>
  <2>1. buf = <<>> => Len(buf) = 0
    BY EmptySeq
  <2> QED
    BY <1>1, <2>1 DEF Stops
<1>5. /\ D * MessageLen \in Nat /\ Len(kinds) * MessageLen \in Nat
      /\ (D + 1) * MessageLen = D * MessageLen + MessageLen
  BY <1>3, Multiples
<1>6. W \in 0..(MessageLen - 1) /\ MessageLen \in Nat /\ Offset["version"] \in Nat
  BY <1>2, Lengths DEF Parsing
<1>7. /\ n \in Nat \ {0} /\ n <= Len(buf) /\ Stop(buf) = n /\ D < Len(kinds)
      /\ D + 1 \in Requests /\ kinds[D + 1] # "bad"
  <2>1. /\ D < Len(kinds) /\ D + 1 \in Requests /\ First \in Nat \ {0}
        /\ Len(buf) < First => Stops(buf) = {}
        /\ Len(buf) >= First => /\ Stop(buf) = First
                                /\ Ends(buf[First]) <=> kinds[D + 1] # "bad"
    BY <1>2, <1>4, StopsAt
  <2>2. Len(buf) >= First
    BY <1>1, <1>3, <2>1
  <2> QED
    BY <1>1, <1>3, <2>1, <2>2
<1>8. W + n = MessageLen
  <2>1. n = MessageLen - W
    BY <1>7 DEF First
  <2> QED
    BY <1>6, <2>1
<1>9. /\ g \in [Parts -> Seq(Bytes)]
      /\ \A p \in Parts \ Assigned : g[p] = Begun(D + 1, p, W + n)
  <2>1. n \in Nat \ {0} /\ n <= Len(buf) /\ Len(buf) \in Nat /\ MessageLen \in Nat
    BY <1>3, <1>6, <1>7
  <2>2. kinds[Len(dispatched) + 1] # "bad" /\ pc # "handle"
    BY <1>1, <1>7
  <2> HIDE DEF n
  <2>3. n \in 1..Len(buf) /\ W + n <= MessageLen
    BY <1>8, <2>1
  <2> QED
    BY <1>2, <2>2, <2>3, FeedIs
<1> HIDE DEF g, n
<1>10. ctx'.got = g /\ ctx'.failed = FALSE
       /\ ctx' \in [got : [Parts -> Seq(Bytes)], failed : BOOLEAN]
  <2>1. ctx' = [ctx EXCEPT !.got = g]
    BY <1>1, <1>7 DEF g
  <2> QED
    BY <1>1, <1>3, <1>9, <2>1
<1>11. /\ dispatched' \in Seq([Parts -> Seq(Bytes)]) /\ Len(dispatched') = D + 1
       /\ \A i \in 1..D : dispatched'[i] = dispatched[i]
       /\ dispatched'[D + 1] = g
  BY <1>1, <1>3, <1>9, <1>10, AppendProperties
<1>12. /\ buf' \in Seq(Bytes) /\ Len(buf') = Len(buf) - n
       /\ \A i \in 1..(Len(buf) - n) : buf'[i] = buf[n + i]
  <2>1. \A i \in (n + 1)..Len(buf) : buf[i] \in Bytes
    <3>1. \A i \in (n + 1)..Len(buf) : i \in 1..Len(buf)
      BY <1>3, <1>7
    <3> QED
      BY <1>3, <3>1, ElementOfSeq
  <2> DEFINE y == SubSeq(buf, n + 1, Len(buf))
  <2>2. /\ y \in Seq(Bytes)
        /\ Len(y) = IF n + 1 <= Len(buf) THEN Len(buf) - (n + 1) + 1 ELSE 0
        /\ \A i \in 1..(Len(buf) - (n + 1) + 1) : y[i] = buf[(n + 1) + i - 1]
    <3>1. n + 1 \in Int /\ Len(buf) \in Int
      BY <1>3, <1>7
    <3> QED
      BY <2>1, <3>1, SubSeqProperties
  <2>3. buf' = y
    BY <1>1, <1>7
  <2> HIDE DEF y
  <2>4. \A i \in 1..(Len(buf) - n) :
           i \in 1..(Len(buf) - (n + 1) + 1) /\ (n + 1) + i - 1 = n + i
    BY <1>3, <1>7
  <2>5. Len(y) = Len(buf) - n
    BY <1>3, <1>7, <2>2
  <2> QED
    BY <2>2, <2>3, <2>4, <2>5
<1>13. InputTypeOK' /\ Unread'
  BY <1>1, <1>2, <1>10, <1>11, <1>12 DEF InputTypeOK, Unread
<1>14. UrlAndBodyWhole'
  <2>1. ASSUME NEW i \in 1..Len(dispatched'), NEW p \in {"url", "body"}
        PROVE  dispatched'[i][p] = Span(i, p)
    <3>1. CASE i \in 1..D
      BY <1>2, <1>11, <3>1 DEF UrlAndBodyWhole
    <3>2. CASE i = D + 1
      <4>1. p \in Parts \ Assigned
        BY DEF Parts, Assigned
      <4>2. g[p] = Begun(D + 1, p, MessageLen)
        BY <1>8, <1>9, <4>1
      <4> QED
        BY <1>7, <1>11, <3>2, <4>1, <4>2, BegunAll
    <3>3. i \in 1..D \/ i = D + 1
      BY <1>3, <1>11
    <3> QED
      BY <3>1, <3>2, <3>3
  <2> QED
    BY <2>1 DEF UrlAndBodyWhole
<1>15. Parsed' = Parsed + n /\ Within' = 0
  <2>1. Parsed' = Len(kinds) * MessageLen - ((Len(buf) - n) + Len(stream))
    BY <1>1, <1>12 DEF Parsed
  <2>2. Parsed = Len(kinds) * MessageLen - (Len(buf) + Len(stream))
    BY DEF Parsed
  <2>3. Within' = Parsed' - (D + 1) * MessageLen
    BY <1>11 DEF Within
  <2> DEFINE x == Len(kinds) * MessageLen
             y == D * MessageLen
  <2>4. /\ x \in Nat /\ y \in Nat /\ Parsed' = x - ((Len(buf) - n) + Len(stream))
        /\ Parsed = x - (Len(buf) + Len(stream)) /\ W = Parsed - y
        /\ Within' = Parsed' - (y + MessageLen)
    BY <1>5, <2>1, <2>2, <2>3 DEF Within
  <2>5. n \in Nat /\ Len(buf) \in Nat /\ Len(stream) \in Nat /\ MessageLen \in Nat
        /\ W \in Nat
    BY <1>3, <1>6, <1>7
  <2> HIDE DEF D, W, x, y
  <2> QED
    BY <1>8, <2>4, <2>5
<1>16. Parsing'
  <2>1. ASSUME NEW k \in 1..Len(buf') PROVE buf'[k] = Sent(kinds, Parsed' + k)
    <3>1. k \in 1..(Len(buf) - n)
      BY <1>12
    <3>2. n + k \in 1..Len(buf) /\ Parsed + (n + k) = Parsed' + k
      BY <1>3, <1>7, <1>15, <3>1
    <3>3. buf[n + k] = Sent(kinds, Parsed + (n + k))
      BY <1>2, <3>2 DEF Parsing
    <3> QED
      BY <1>12, <3>1, <3>2, <3>3
  <2>2. Within' \in 0..(MessageLen - 1) /\ Within' <= Offset["version"]
    BY <1>6, <1>15, Lengths
  <2>3. Len(dispatched') > 0 /\ ctx'.got = dispatched'[Len(dispatched')]
    BY <1>3, <1>10, <1>11
  <2> QED
    BY <1>1, <1>15, <2>1, <2>2, <2>3 DEF Parsing
<1>17. Input'
  BY <1>10, <1>13, <1>14, <1>16 DEF Input
<1> QED
  BY <1>7, <1>11, <1>17

\* A bad byte, of the request behind those dispatched: the parser has failed.
LEMMA ErrorInput ==
    ASSUME HttpTypeOK, Input, ParseError
    PROVE  /\ Input'
           /\ ~ctx.failed => /\ Len(dispatched) + 1 \in Requests
                             /\ buf[Stop(buf)][1] = Len(dispatched) + 1
<1>1. /\ pc = "parse" /\ buf # <<>> /\ pc' = "idle"
      /\ ctx.failed \/ (Stops(buf) # {} /\ Bad(buf[Stop(buf)]))
      /\ ctx' = [ctx EXCEPT !.failed = TRUE]
      /\ buf' = IF ctx.failed THEN <<>> ELSE SubSeq(buf, Stop(buf), Len(buf))
      /\ UNCHANGED <<kinds, stream, dispatched>>
  BY DEF ParseError
<1>2. state' # "connected"
  BY DEF ParseError, RefuseHere, AnswerHere
<1>3. InputTypeOK /\ Unread /\ UrlAndBodyWhole
  BY DEF Input
<1>4. /\ buf \in Seq(Bytes) /\ Len(buf) \in Nat
      /\ ctx \in [got : [Parts -> Seq(Bytes)], failed : BOOLEAN]
  BY <1>3, InputTypes
<1>5. ASSUME ~ctx.failed
      PROVE  /\ Len(dispatched) + 1 \in Requests
             /\ buf[Stop(buf)][1] = Len(dispatched) + 1
             /\ Stop(buf) \in Nat \ {0}
  <2>1. Parsing /\ Stops(buf) # {}
    BY <1>1, <1>5 DEF Input
  <2>2. /\ Len(dispatched) + 1 \in Requests /\ First \in Nat \ {0}
        /\ Len(buf) < First => Stops(buf) = {}
        /\ Len(buf) >= First => Stop(buf) = First /\ buf[First][1] = Len(dispatched) + 1
    BY <1>1, <1>3, <2>1, StopsAt
  <2> QED
    BY <1>4, <2>1, <2>2
<1>6. buf' \in Seq(Bytes)
  <2>1. CASE ctx.failed
    BY <1>1, <2>1, EmptySeq
  <2>2. CASE ~ctx.failed
    <3>1. Stop(buf) \in Nat \ {0}
      BY <1>5, <2>2
    <3>2. \A i \in Stop(buf)..Len(buf) : i \in 1..Len(buf)
      BY <1>4, <3>1
    <3>3. \A i \in Stop(buf)..Len(buf) : buf[i] \in Bytes
      BY <1>4, <3>2, ElementOfSeq
    <3>4. SubSeq(buf, Stop(buf), Len(buf)) \in Seq(Bytes)
      <4>1. Stop(buf) \in Int /\ Len(buf) \in Int
        BY <1>4, <3>1
      <4> QED
        BY <3>3, <4>1, SubSeqProperties
    <3> QED
      BY <1>1, <2>2, <3>4
  <2> QED
    BY <2>1, <2>2
<1>7. ctx'.failed = TRUE /\ ctx' \in [got : [Parts -> Seq(Bytes)], failed : BOOLEAN]
  BY <1>1, <1>4
<1>8. InputTypeOK' /\ Unread' /\ UrlAndBodyWhole'
  BY <1>1, <1>3, <1>6, <1>7 DEF InputTypeOK, Unread, UrlAndBodyWhole
<1> QED
  BY <1>1, <1>2, <1>5, <1>7, <1>8 DEF Input

\* The request that is handled is the last one dispatched.
LEMMA HandledIs ==
    ASSUME HttpTypeOK, Input, pc = "handle"
    PROVE  /\ Len(dispatched) \in Requests /\ ~ctx.failed /\ Parsing
           /\ Id(ctx.got) = Len(dispatched) /\ ctx.got = dispatched[Len(dispatched)]
<1> DEFINE D == Len(dispatched)
<1>1. ~ctx.failed /\ Parsing /\ InputTypeOK /\ UrlAndBodyWhole
  BY DEF Input
<1>2. D > 0 /\ ctx.got = dispatched[D]
  BY <1>1 DEF Parsing
<1>3. D \in Nat /\ D <= Len(kinds) /\ Len(kinds) \in Nat /\ Len(kinds) <= NumRequests
      /\ NumRequests \in Nat
  BY <1>1, InputTypes, Lengths
<1> HIDE DEF D
<1>4. D \in 1..D /\ D \in Requests
  BY <1>2, <1>3 DEF Requests
<1>5. dispatched[D]["url"] = Span(D, "url")
  BY <1>1, <1>4 DEF UrlAndBodyWhole, D
<1>6. Span(D, "url")[1] = <<D, "url", 1>>
  <2>1. 1 \in 1..PartLen("url")
    BY Lengths
  <2> QED
    BY <2>1 DEF Span
<1>7. Id(ctx.got) = D
  BY <1>2, <1>5, <1>6 DEF Id
<1> QED
  BY <1>1, <1>2, <1>4, <1>7 DEF D

\* After it, a fresh context waits at the start of the next request.
LEMMA TurnInput ==
    ASSUME HttpTypeOK, Input, pc = "handle", NextTurn,
           UNCHANGED <<kinds, stream, buf, dispatched>>
    PROVE  Input'
<1>1. ~ctx.failed /\ Parsing /\ InputTypeOK /\ Unread /\ UrlAndBodyWhole
  BY HandledIs DEF Input
<1>2. ctx' = NewContext /\ pc' = "parse"
  BY DEF NextTurn
<1>3. /\ ctx'.got = [p \in Parts |-> <<>>] /\ ctx'.failed = FALSE
      /\ ctx' \in [got : [Parts -> Seq(Bytes)], failed : BOOLEAN]
  BY <1>2, EmptySeq DEF NewContext
<1>4. InputTypeOK' /\ Unread' /\ UrlAndBodyWhole'
  BY <1>1, <1>3 DEF InputTypeOK, Unread, UrlAndBodyWhole
<1>5. Parsed' = Parsed /\ Within' = Within /\ Within = 0
  BY <1>1 DEF Parsed, Within, Parsing
<1>6. \A p \in Parts \ Assigned : ctx'.got[p] = Begun(Len(dispatched') + 1, p, Within')
  BY <1>3, <1>5, BegunNone
<1>7. Parsing'
  BY <1>1, <1>2, <1>5, <1>6 DEF Parsing
<1> QED
  BY <1>3, <1>4, <1>7 DEF Input

\* A turn of the loop that finds nothing leaves the input as it is.
LEMMA NoMoreInput ==
    ASSUME Input, NoMore
    PROVE  Input'
<1>1. /\ pc = "parse" /\ pc' = "idle"
      /\ UNCHANGED <<kinds, stream, buf, ctx, state, dispatched>>
  BY DEF NoMore, inputVars, connVars
<1>2. Parsed' = Parsed /\ Within' = Within
  BY <1>1 DEF Parsed, Within
<1>3. Parsing => Parsing'
  BY <1>1, <1>2 DEF Parsing
<1>4. InputTypeOK' /\ Unread' /\ UrlAndBodyWhole'
  BY <1>1 DEF Input, InputTypeOK, Unread, UrlAndBodyWhole
<1> QED
  BY <1>1, <1>3, <1>4 DEF Input

-----------------------------------------------------------------------------
(* Where requests are, and the answers.                                    *)

\* What has been given is what has been dispatched, but for a request at hand.
LEMMA GivenIs ==
    ASSUME HttpTypeOK, Input
    PROVE  /\ Given \in Nat /\ Len(dispatched) \in Nat /\ NumRequests \in Nat
           /\ Len(dispatched) <= NumRequests /\ Given <= Len(dispatched)
           /\ pc = "handle" => Len(dispatched) = Given + 1
           /\ pc # "handle" => Len(dispatched) = Given
<1>1. /\ Len(dispatched) \in Nat /\ Len(dispatched) <= Len(kinds) /\ Len(kinds) \in Nat
      /\ Len(kinds) <= NumRequests /\ NumRequests \in Nat
  BY InputTypes, Lengths DEF Input
<1>2. pc = "handle" => Len(dispatched) > 0
  BY HandledIs, <1>1 DEF Requests
<1> QED
  BY <1>1, <1>2 DEF Given

\* The elements of the sequences.
LEMMA Elements ==
    ASSUME HttpTypeOK
    PROVE  /\ Len(wire) \in Nat /\ Len(tasks) \in Nat /\ Len(queue) \in Nat
           /\ \A i \in 1..Len(wire) :
                wire[i][1] \in Requests /\ wire[i] = <<wire[i][1], wire[i][2]>>
           /\ \A i \in 1..Len(tasks) : tasks[i] \in Requests
           /\ \A i \in 1..Len(queue) :
                \/ queue[i] = <<"shutdown", 0>>
                \/ queue[i][2] \in Requests /\ queue[i] = <<"send", queue[i][2]>>
           /\ Requests \subseteq Nat \ {0}
<1>1. /\ wire \in Seq(Requests \X {200, 400, 503}) /\ tasks \in Seq(Requests)
      /\ queue \in Seq(({"send"} \X Requests) \cup {<<"shutdown", 0>>})
  BY DEF HttpTypeOK
<1>2. \A i \in 1..Len(wire) : wire[i] \in Requests \X {200, 400, 503}
  BY <1>1, ElementOfSeq
<1>3. \A i \in 1..Len(tasks) : tasks[i] \in Requests
  BY <1>1, ElementOfSeq
<1>4. \A i \in 1..Len(queue) : queue[i] \in ({"send"} \X Requests) \cup {<<"shutdown", 0>>}
  BY <1>1, ElementOfSeq
<1>5. Len(wire) \in Nat /\ Len(tasks) \in Nat /\ Len(queue) \in Nat
  BY <1>1, LenProperties
<1>6. Requests \subseteq Nat \ {0}
  BY HttpAssumption DEF Requests
<1> QED
  BY <1>2, <1>3, <1>4, <1>5, <1>6

\* What was read in a request that has been given does not change.
LEMMA FinalKept ==
    ASSUME HttpTypeOK, Input, Answers, kinds' = kinds,
           \A r \in 1..Given : dispatched'[r] = dispatched[r]
    PROVE  /\ \A r \in 1..Given : Closing(r)' <=> Closing(r)
           /\ \A i \in 1..Len(wire) : wire'[i] = wire[i] =>
                (Final(wire[i])' <=> Final(wire[i]))
<1>1. \A r \in 1..Given : Closing(r)' <=> Closing(r)
  BY DEF Closing, Closes, Span
<1>2. ASSUME NEW i \in 1..Len(wire), wire'[i] = wire[i]
      PROVE  Final(wire[i])' <=> Final(wire[i])
  <2>1. CASE wire[i][2] # 200
    BY <1>2, <2>1 DEF Final
  <2>2. CASE wire[i][2] = 200
    <3>1. wire[i][1] <= Given /\ wire[i][1] \in Nat \ {0} /\ Given \in Nat
      BY <1>2, <2>2, Elements, GivenIs DEF Answers
    <3>2. wire[i][1] \in 1..Given
      BY <3>1
    <3> DEFINE r == wire[i][1]
    <3>3. Closing(r)' <=> Closing(r)
      <4>1. \A q \in 1..Given : Closes(q, dispatched[q])' <=> Closes(q, dispatched[q])
        BY <1>1 DEF Closing
      <4>2. wire'[i][1] = wire[i][1]
        BY <1>2
      <4> QED
        BY <3>2, <4>1, <4>2 DEF Closing, Closes, Span
    <3> QED
      BY <1>2, <3>3 DEF Final, Closing
  <2> QED
    BY <2>1, <2>2
<1> QED
  BY <1>1, <1>2

\* More given: requests are where they were.
LEMMA OnceKept ==
    ASSUME HttpTypeOK, Once, UNCHANGED <<tasks, job, place, queue>>,
           Given \in Nat, Given' \in Nat, Given <= Given'
    PROVE  Once'
<1>1. \A i \in 1..Len(tasks) : tasks[i] <= Given'
  BY Elements DEF Once
<1>2. \A w \in Workers : place[w] # "idle" => job[w] \in 1..Given'
  BY DEF Once
<1>3. \A i \in 1..Len(queue) : queue[i][2] <= Given'
  BY Elements DEF Once
<1> QED
  BY <1>1, <1>2, <1>3 DEF Once, InTasks, AtWork, InQueue

\* Receiving and parsing leave answers and what waits for one alone.
LEMMA RestKept ==
    ASSUME HttpTypeOK, Input, Once, Answers, Announced,
           UNCHANGED <<isPool, kinds, connVars, poolVars, peerClosed>>, Given' = Given,
           \A r \in 1..Given : dispatched'[r] = dispatched[r]
    PROVE  Once' /\ Answers' /\ Announced'
<1>1. UNCHANGED <<isPool, kinds, state, queue, wire, tasks, job, place, peerClosed>>
  BY DEF connVars, poolVars
<1>2. Once'
  BY <1>1, OnceKept, GivenIs
<1>3. \A r \in 1..Given : Closing(r)' <=> Closing(r)
  BY <1>1, FinalKept
<1>4. \A i \in 1..Len(wire) : Final(wire[i])' <=> Final(wire[i])
  BY <1>1, FinalKept
<1>5. Answers'
  <2>1. AnswersWellFormed'
    BY <1>1, <1>4 DEF Answers, AnswersWellFormed
  <2>2. \A r \in Requests : /\ InTasks(r)' <=> InTasks(r)
                            /\ AtWork(r)' <=> AtWork(r)
                            /\ InQueue(r)' <=> InQueue(r)
                            /\ Answered(r)' <=> Answered(r)
    BY <1>1 DEF InTasks, AtWork, InQueue, Answered
  <2> QED
    BY <1>1, <1>4, <2>1, <2>2 DEF Answers
<1>6. Announced'
  <2>1. CloseIsAnnounced' /\ (Told => Told')
    BY <1>1, <1>4 DEF Announced, CloseIsAnnounced, Told
  <2>2. ASSUME NEW w \in Workers, place'[w] = "shutdown"
        PROVE  /\ Closing(job[w])'
               /\ state' = "connected" =>
                    InQueue(job[w])' \/ \E i \in 1..Len(wire') : wire'[i] = <<job'[w], 200>>
    <3>1. job[w] \in 1..Given
      BY <1>1, <2>2 DEF Once
    <3>2. Closing(job[w]) /\ (state = "connected" =>
            InQueue(job[w]) \/ \E i \in 1..Len(wire) : wire[i] = <<job[w], 200>>)
      BY <1>1, <2>2 DEF Announced
    <3>3. Closing(job[w])' <=> Closing(job[w])
      BY <1>1, <1>3, <3>1 DEF Closing, Closes
    <3> QED
      BY <1>1, <3>2, <3>3 DEF InQueue
  <2>3. ASSUME NEW i \in 1..Len(queue), queue[i][1] = "shutdown"
        PROVE  (Told \/ \E j \in 1..(i - 1) : queue[j][1] = "send" /\ Closing(queue[j][2]))'
    <3>1. CASE Told
      BY <2>1, <3>1
    <3>2. CASE \E j \in 1..(i - 1) : queue[j][1] = "send" /\ Closing(queue[j][2])
      <4>1. PICK j \in 1..(i - 1) : queue[j][1] = "send" /\ Closing(queue[j][2])
        BY <3>2
      <4>2. j \in 1..Len(queue)
        BY Elements
      <4>3. queue[j][2] \in 1..Given
        BY <4>1, <4>2, Elements, GivenIs, SMTT(30) DEF Once
      <4>4. Closing(queue[j][2])' <=> Closing(queue[j][2])
        BY <1>1, <1>3, <4>3 DEF Closing, Closes
      <4> QED
        BY <1>1, <4>1, <4>4
    <3> QED
      BY <2>3, <3>1, <3>2 DEF Announced
  <2>4. (state = "disconnected" => peerClosed)' /\ (peerClosed => state # "connected")'
    BY <1>1 DEF Announced
  <2>5. \A i \in 1..Len(queue') : queue'[i][1] = "shutdown" =>
          (Told \/ \E j \in 1..(i - 1) : queue[j][1] = "send" /\ Closing(queue[j][2]))'
    BY <1>1, <2>3
  <2> QED
    BY <2>1, <2>2, <2>4, <2>5, Zenon DEF Announced
<1> QED
  BY <1>2, <1>5, <1>6

\* What has been said stays said.
LEMMA ToldKept ==
    ASSUME HttpTypeOK, Input, Answers, UNCHANGED <<kinds, dispatched>>,
           peerClosed => peerClosed',
           \A i \in 1..Len(wire) : i \in 1..Len(wire') /\ wire'[i] = wire[i]
    PROVE  /\ Told => Told'
           /\ \A r \in 1..Given : Closing(r)' <=> Closing(r)
           /\ \A i \in 1..Len(wire) : Final(wire[i])' <=> Final(wire[i])
<1>1. /\ \A r \in 1..Given : Closing(r)' <=> Closing(r)
      /\ \A i \in 1..Len(wire) : Final(wire[i])' <=> Final(wire[i])
  BY FinalKept
<1>2. Told => Told'
  BY <1>1 DEF Told
<1> QED
  BY <1>1, <1>2

\* A queue that keeps its entries keeps the shutdowns behind what explains them.
LEMMA ShutdownsKept ==
    ASSUME HttpTypeOK, Input, Once, Announced, Told => Told',
           \A r \in 1..Given : Closing(r)' <=> Closing(r),
           \A i \in 1..Len(queue) : queue'[i] = queue[i],
           NEW i \in 1..Len(queue), queue[i][1] = "shutdown"
    PROVE  (Told \/ \E j \in 1..(i - 1) : queue[j][1] = "send" /\ Closing(queue[j][2]))'
<1>1. CASE Told
  BY <1>1
<1>2. CASE \E j \in 1..(i - 1) : queue[j][1] = "send" /\ Closing(queue[j][2])
  <2>1. PICK j \in 1..(i - 1) : queue[j][1] = "send" /\ Closing(queue[j][2])
    BY <1>2
  <2>2. j \in 1..Len(queue)
    BY Elements
  <2>3. queue[j][2] \in 1..Given /\ queue'[j] = queue[j]
    BY <2>1, <2>2, Elements, GivenIs, SMTT(30) DEF Once
  <2>4. Closing(queue[j][2])' <=> Closing(queue[j][2])
    BY <2>3 DEF Closing, Closes
  <2> QED
    BY <2>1, <2>3, <2>4
<1> QED
  BY <1>1, <1>2 DEF Announced

\* One more response.
LEMMA WireGrows ==
    ASSUME HttpTypeOK, NEW x, wire' = Append(wire, x)
    PROVE  /\ Len(wire') = Len(wire) + 1 /\ wire'[Len(wire) + 1] = x
           /\ \A i \in 1..Len(wire) : i \in 1..Len(wire') /\ wire'[i] = wire[i]
           /\ \A i \in 1..Len(wire') : i \in 1..Len(wire) \/ i = Len(wire) + 1
<1>1. wire \in Seq(Requests \X {200, 400, 503}) /\ Len(wire) \in Nat
  BY Elements DEF HttpTypeOK
<1> QED
  BY <1>1

\* onMessage answers or refuses the request behind those that have been given.
LEMMA AnswerKeeps ==
    ASSUME HttpTypeOK, Input, Once, Answers, Announced,
           NEW r, NEW status, NEW last \in BOOLEAN, AnswerHere(r, status, last), pc' # "handle",
           UNCHANGED <<isPool, kinds, queue, poolVars, dispatched, peerClosed>>,
           state = "connected" => r = Given + 1,
           \/ status = 200 /\ ~isPool /\ pc = "handle" /\ (last <=> Closing(r))
           \/ status # 200 /\ last
    PROVE  Once' /\ Answers' /\ Announced'
<1>1. UNCHANGED <<isPool, kinds, queue, tasks, job, place, dispatched, peerClosed>>
  BY DEF poolVars
<1>2. /\ Given \in Nat /\ Given' \in Nat /\ Given <= Given' /\ Len(dispatched) \in Nat
      /\ pc = "handle" => Given' = Given + 1
  BY <1>1, GivenIs DEF Given
<1>3. Once'
  BY <1>1, <1>2, OnceKept
<1>4. /\ Len(wire) \in Nat
      /\ \A i \in 1..Len(wire) : wire[i][1] \in Nat \ {0}
  BY Elements
<1>5. CASE state # "connected"
  <2>1. UNCHANGED <<state, wire>>
    BY <1>5 DEF AnswerHere
  <2>2. /\ Told => Told'
        /\ \A q \in 1..Given : Closing(q)' <=> Closing(q)
        /\ \A i \in 1..Len(wire) : Final(wire[i])' <=> Final(wire[i])
    BY <1>1, <2>1, ToldKept
  <2>3. Answers'
    <3>1. AnswersWellFormed'
      BY <1>1, <2>1, <2>2 DEF Answers, AnswersWellFormed
    <3>2. \A i \in 1..Len(wire') : wire'[i][2] = 200 => wire'[i][1] <= Given'
      BY <1>2, <1>4, <2>1 DEF Answers
    <3>3. ~isPool' => /\ tasks' = <<>> /\ queue' = <<>>
                      /\ \A w \in Workers : place'[w] = "idle"
      BY <1>1 DEF Answers
    <3> QED
      BY <1>5, <2>1, <3>1, <3>2, <3>3 DEF Answers
  <2>4. Announced'
    <3>1. CloseIsAnnounced'
      BY <1>1, <2>1, <2>2 DEF Announced, CloseIsAnnounced
    <3>2. (state = "disconnected" => peerClosed)' /\ (peerClosed => state # "connected")'
      BY <1>1, <2>1 DEF Announced
    <3>3. \A w \in Workers : place'[w] = "shutdown" => Closing(job[w])'
      <4> SUFFICES ASSUME NEW w \in Workers, place[w] = "shutdown"
                   PROVE  Closing(job[w])'
        BY <1>1
      <4>1. job[w] \in 1..Given /\ Closing(job[w])
        BY DEF Once, Announced
      <4> QED
        BY <1>1, <4>1 DEF Closing, Closes, Span
    <3>4. \A i \in 1..Len(queue') : queue'[i][1] = "shutdown" =>
            (Told \/ \E j \in 1..(i - 1) : queue[j][1] = "send" /\ Closing(queue[j][2]))'
      BY <1>1, <2>2, ShutdownsKept
    <3> QED
      BY <1>5, <2>1, <3>1, <3>2, <3>3, <3>4 DEF Announced
  <2> QED
    BY <1>3, <2>3, <2>4
<1>6. CASE state = "connected"
  <2>0. PICK n \in Nat : n = Len(wire) + 1
    BY <1>4
  <2>1. /\ wire' = Append(wire, <<r, status>>)
        /\ state' = IF last THEN "disconnecting" ELSE "connected"
        /\ r = Given + 1
    BY <1>6 DEF AnswerHere
  <2>2. /\ Len(wire') = n /\ wire'[n] = <<r, status>>
        /\ \A i \in 1..Len(wire) : i \in 1..Len(wire') /\ wire'[i] = wire[i]
        /\ \A i \in 1..Len(wire') : i \in 1..Len(wire) \/ i = n
    BY <2>0, <2>1, WireGrows
  <2>3. /\ Told => Told'
        /\ \A q \in 1..Given : Closing(q)' <=> Closing(q)
        /\ \A i \in 1..Len(wire) : Final(wire[i])' <=> Final(wire[i])
    BY <1>1, <2>2, ToldKept
  <2>4. \A i \in 1..Len(wire) : wire[i][2] = 200 /\ wire[i][1] <= Given
    BY <1>6 DEF Answers
  <2>5. Final(wire[n])' <=> last
    <3>1. Final(wire[n])' <=> (status # 200 \/ Closing(r)')
      BY <2>2 DEF Final, Closing, Closes, Span
    <3>2. Closing(r)' <=> Closing(r)
      BY <1>1 DEF Closing, Closes, Span
    <3> QED
      BY <3>1, <3>2
  <2>6. ~isPool => Len(wire) = Given /\ \A i \in 1..Len(wire) : wire[i][1] = i /\ ~Final(wire[i])
    BY <1>6 DEF Answers, AnswersWellFormed
  <2>7. n \in 1..Len(wire') /\ n \in Nat
    BY <1>4, <2>0, <2>2
  <2>8. Answers'
    <3>1. AnswersWellFormed'
      <4>1. ASSUME NEW i \in 1..Len(wire'), NEW j \in 1..Len(wire'), wire'[i][1] = wire'[j][1]
            PROVE  i = j
        <5>1. \A k \in 1..Len(wire) : wire'[k][1] # Given + 1
          <6> SUFFICES ASSUME NEW k \in 1..Len(wire) PROVE wire'[k][1] # Given + 1
            OBVIOUS
          <6>1. wire'[k] = wire[k] /\ wire[k][1] \in Nat /\ wire[k][1] <= Given
            BY <1>4, <2>2, <2>4
          <6> QED
            BY <1>2, <6>1
        <5>2. wire'[n][1] = Given + 1
          BY <2>1, <2>2
        <5>3. \A k, l \in 1..Len(wire) : wire[k][1] = wire[l][1] => k = l
          BY DEF Answers, AnswersWellFormed
        <5> QED
          BY <2>2, <4>1, <5>1, <5>2, <5>3
      <4>2. \A i \in 1..Len(wire') : wire'[i][2] # 200 => i = Len(wire')
        BY <2>2, <2>4
      <4>3. ~isPool' => \A i \in 1..Len(wire') :
              wire'[i][1] = i /\ (Final(wire[i])' => i = Len(wire'))
        BY <1>1, <2>1, <2>2, <2>3, <2>0, <2>6
      <4> QED
        BY <4>1, <4>2, <4>3 DEF AnswersWellFormed
    <3>2. \A i \in 1..Len(wire') : wire'[i][2] = 200 => wire'[i][1] <= Given'
      <4>1. \A i \in 1..Len(wire) : wire'[i][1] <= Given'
        BY <1>2, <1>4, <2>2, <2>4
      <4>2. wire'[n][2] = 200 => wire'[n][1] <= Given'
        BY <1>2, <2>1, <2>2
      <4> QED
        BY <2>2, <4>1, <4>2
    <3>3. ~isPool' => /\ tasks' = <<>> /\ queue' = <<>>
                      /\ \A w \in Workers : place'[w] = "idle"
      BY <1>1 DEF Answers
    <3>4. ASSUME state' = "connected"
          PROVE  ~isPool' /\ ~last /\ status = 200 /\ Given' = Given + 1
      BY <1>1, <1>2, <2>1, <3>4
    <3>5. state' = "connected" => \A i \in 1..Len(wire') : wire'[i][2] = 200
      BY <2>2, <2>4, <3>4
    <3>6. state' = "connected" => \A q \in Requests : ~InTasks(q)' /\ ~AtWork(q)' /\ ~InQueue(q)'
      BY <3>3, <3>4 DEF InTasks, AtWork, InQueue
    <3>7. state' = "connected" => Len(wire') = Given' /\ \A i \in 1..Len(wire') : ~Final(wire[i])'
      BY <1>1, <2>2, <2>3, <2>5, <2>0, <2>6, <3>4
    <3> QED
      BY <3>1, <3>2, <3>3, <3>5, <3>6, <3>7 DEF Answers
  <2>9. Announced'
    <3>1. CloseIsAnnounced'
      BY <2>1, <2>5, <2>7 DEF CloseIsAnnounced
    <3>2. (state = "disconnected" => peerClosed)' /\ (peerClosed => state # "connected")'
      BY <1>1, <1>6, <2>1 DEF Announced
    <3>3. \A w \in Workers : place'[w] = "shutdown" => Closing(job[w])' /\ state' # "connected"
      <4> SUFFICES ASSUME NEW w \in Workers, place[w] = "shutdown"
                   PROVE  Closing(job[w])' /\ state' # "connected"
        BY <1>1
      <4>1. job[w] \in 1..Given /\ Closing(job[w]) /\ isPool
        BY DEF Once, Announced, Answers
      <4> QED
        BY <1>1, <2>1, <4>1 DEF Closing, Closes, Span
    <3>4. \A i \in 1..Len(queue') : queue'[i][1] = "shutdown" =>
            (Told \/ \E j \in 1..(i - 1) : queue[j][1] = "send" /\ Closing(queue[j][2]))'
      BY <1>1, <2>3, ShutdownsKept
    <3> QED
      BY <3>1, <3>2, <3>3, <3>4 DEF Announced
  <2> QED
    BY <1>3, <2>8, <2>9
<1> QED
  BY <1>5, <1>6

\* The pool moves requests on: answers stay, for none that moves has one.
LEMMA AnswersKept ==
    ASSUME HttpTypeOK, Input, Answers, UNCHANGED <<isPool, kinds, state, wire, dispatched>>,
           isPool, Given \in Nat, Given' \in Nat, Given <= Given',
           state = "connected" => \A r \in Requests :
             Answered(r) => ~InTasks(r)' /\ ~AtWork(r)' /\ ~InQueue(r)'
    PROVE  Answers'
<1>1. \A i \in 1..Len(wire) : Final(wire[i])' <=> Final(wire[i])
  BY FinalKept
<1>2. AnswersWellFormed'
  BY <1>1 DEF Answers, AnswersWellFormed
<1>3. \A i \in 1..Len(wire) : wire[i][2] = 200 => wire[i][1] <= Given'
  <2>1. \A i \in 1..Len(wire) : wire[i][1] \in Nat
    BY Elements
  <2>2. \A i \in 1..Len(wire) : wire[i][2] = 200 => wire[i][1] <= Given
    BY DEF Answers
  <2> QED
    BY <2>1, <2>2
<1>4. \A r \in Requests : Answered(r)' <=> Answered(r)
  BY DEF Answered
<1> QED
  BY <1>2, <1>3, <1>4 DEF Answers

\* And so do the reasons for a shutdown, when new ones have theirs.
LEMMA AnnouncedKept ==
    ASSUME HttpTypeOK, Input, Once, Answers, Announced,
           UNCHANGED <<kinds, state, wire, dispatched, peerClosed>>,
           \A i \in 1..Len(queue) : i \in 1..Len(queue') /\ queue'[i] = queue[i],
           \A w \in Workers : place'[w] = "shutdown" =>
             \/ place[w] = "shutdown" /\ job'[w] = job[w]
             \/ Closing(job'[w]) /\ (state = "connected" => InQueue(job[w])'),
           \A i \in 1..Len(queue') \ 1..Len(queue) : queue'[i][1] = "shutdown" =>
             Told \/ \E j \in 1..Len(queue) : queue[j][1] = "send" /\ Closing(queue[j][2])
    PROVE  Announced'
<1>1. /\ Told => Told'
      /\ \A r \in 1..Given : Closing(r)' <=> Closing(r)
      /\ \A i \in 1..Len(wire) : Final(wire[i])' <=> Final(wire[i])
  BY ToldKept
<1>2. CloseIsAnnounced'
  BY <1>1 DEF Announced, CloseIsAnnounced
<1>3. (state = "disconnected" => peerClosed)' /\ (peerClosed => state # "connected")'
  BY DEF Announced
<1>4. ASSUME NEW w \in Workers, place'[w] = "shutdown"
      PROVE  /\ Closing(job[w])'
             /\ state' = "connected" =>
                  InQueue(job[w])' \/ \E i \in 1..Len(wire') : wire'[i] = <<job'[w], 200>>
  <2>1. CASE place[w] = "shutdown" /\ job'[w] = job[w]
    <3>1. Closing(job[w]) /\ (state = "connected" =>
            InQueue(job[w]) \/ \E i \in 1..Len(wire) : wire[i] = <<job[w], 200>>)
      BY <2>1 DEF Announced
    <3>2. InQueue(job[w]) => InQueue(job[w])'
      BY <2>1 DEF InQueue
    <3> QED
      BY <2>1, <3>1, <3>2 DEF Closing, Closes, Span
  <2>2. CASE Closing(job'[w]) /\ (state = "connected" => InQueue(job[w])')
    BY <2>2 DEF Closing, Closes, Span
  <2> QED
    BY <1>4, <2>1, <2>2
<1>5. ASSUME NEW i \in 1..Len(queue'), queue'[i][1] = "shutdown"
      PROVE  (Told \/ \E j \in 1..(i - 1) : queue[j][1] = "send" /\ Closing(queue[j][2]))'
  <2>1. CASE i \in 1..Len(queue)
    <3>1. queue[i][1] = "shutdown"
      BY <1>5, <2>1
    <3> QED
      BY <1>1, <2>1, <3>1, ShutdownsKept
  <2>2. CASE Told
    BY <1>1, <2>2
  <2>3. CASE /\ i \notin 1..Len(queue)
             /\ \E j \in 1..Len(queue) : queue[j][1] = "send" /\ Closing(queue[j][2])
    <3>1. PICK j \in 1..Len(queue) : queue[j][1] = "send" /\ Closing(queue[j][2])
      BY <2>3
    <3>2. j \in 1..(i - 1)
      BY <2>3, Elements
    <3>3. queue[j][2] \in 1..Given /\ queue'[j] = queue[j]
      BY <3>1, Elements, GivenIs, SMTT(30) DEF Once
    <3>4. Closing(queue[j][2])' <=> Closing(queue[j][2])
      BY <1>1, <3>3 DEF Closing, Closes
    <3> QED
      BY <3>1, <3>2, <3>3, <3>4
  <2> QED
    BY <1>5, <2>1, <2>2, <2>3
<1> QED
  BY <1>2, <1>3, <1>4, <1>5, Zenon DEF Announced

\* A request goes to the pool: no other place has it.
LEMMA SubmitKeeps ==
    ASSUME HttpInv, Submit
    PROVE  Once' /\ Answers' /\ Announced'
<1> USE DEF HttpInv
<1> DEFINE r == Len(dispatched)
           n == Len(tasks) + 1
<1>1. /\ pc = "handle" /\ pc' = "parse" /\ isPool /\ tasks' = Append(tasks, Id(ctx.got))
      /\ UNCHANGED <<isPool, kinds, state, queue, wire, job, place, dispatched, peerClosed>>
  BY DEF Submit, NextTurn, connVars
<1>2. r \in Requests /\ Id(ctx.got) = r
  BY <1>1, HandledIs
<1>3. Given \in Nat /\ r = Given + 1 /\ Given' = r
  BY <1>1, GivenIs DEF Given
<1>4. Len(tasks) \in Nat /\ tasks \in Seq(Requests) /\ Requests \subseteq Nat \ {0}
  BY Elements DEF HttpTypeOK
<1>5. /\ Len(tasks') = n /\ tasks'[n] = r
      /\ \A i \in 1..Len(tasks) : tasks'[i] = tasks[i]
      /\ \A i \in 1..Len(tasks') : i \in 1..Len(tasks) \/ i = n
  BY <1>1, <1>2, <1>4
<1>6. \A i \in 1..Len(tasks) : tasks[i] \in Nat /\ tasks[i] <= Given
  BY Elements DEF Once
<1>7. \A w \in Workers : place[w] # "idle" => job[w] \in 1..Given
  BY DEF Once
<1>8. \A i \in 1..Len(queue) : queue[i][2] \in Nat /\ queue[i][2] <= Given
  BY Elements DEF Once
<1>9. \A q \in Requests : /\ InTasks(q)' => InTasks(q) \/ q = r
                          /\ AtWork(q)' <=> AtWork(q)
                          /\ InQueue(q)' <=> InQueue(q)
  BY <1>1, <1>5 DEF InTasks, AtWork, InQueue
<1>10. ~AtWork(r) /\ ~InQueue(r)
  BY <1>3, <1>7, <1>8 DEF AtWork, InQueue
<1>11. Given' \in Nat /\ Given <= Given'
  BY <1>3
<1>12. Once'
  <2>1. \A i \in 1..Len(tasks') : tasks'[i] <= Given'
    BY <1>3, <1>5, <1>6
  <2>2. \A w \in Workers : place[w] # "idle" => job[w] \in 1..Given'
    BY <1>3, <1>7
  <2>3. \A i \in 1..Len(queue) : queue[i][2] <= Given'
    BY <1>3, <1>8
  <2>4. \A i, j \in 1..Len(tasks') : tasks'[i] = tasks'[j] => i = j
    <3>1. \A i \in 1..Len(tasks) : tasks'[i] # r
      BY <1>3, <1>5, <1>6
    <3> QED
      BY <1>5, <3>1 DEF Once
  <2>5. \A q \in Requests : /\ InTasks(q)' => ~AtWork(q)' /\ ~InQueue(q)'
                            /\ AtWork(q)' => ~InQueue(q)'
    BY <1>9, <1>10 DEF Once
  <2> QED
    BY <1>1, <2>1, <2>2, <2>3, <2>4, <2>5 DEF Once
<1>13. Answers'
  <2>1. state = "connected" => ~Answered(r)
    <3>1. state = "connected" => \A i \in 1..Len(wire) : wire[i][1] <= Given /\ wire[i][1] \in Nat
      BY Elements DEF Answers
    <3> QED
      BY <1>3, <3>1 DEF Answered
  <2>2. state = "connected" => \A q \in Requests :
          Answered(q) => ~InTasks(q)' /\ ~AtWork(q)' /\ ~InQueue(q)'
    BY <1>9, <2>1 DEF Answers
  <2> QED
    BY <1>1, <1>3, <1>11, <2>2, AnswersKept
<1>14. Announced'
  BY <1>1, AnnouncedKept
<1> QED
  BY <1>12, <1>13, <1>14

\* A business thread takes the request at the head of the queue.
LEMMA TakeKeeps ==
    ASSUME HttpInv, NEW w \in Workers, TakeTask(w)
    PROVE  Once' /\ Answers' /\ Announced'
<1> USE DEF HttpInv
<1> DEFINE r == Head(tasks)
<1>1. /\ place[w] = "idle" /\ tasks # <<>> /\ tasks' = Tail(tasks)
      /\ job' = [job EXCEPT ![w] = r] /\ place' = [place EXCEPT ![w] = "handle"]
      /\ UNCHANGED <<isPool, kinds, pc, state, queue, wire, dispatched, peerClosed>>
  BY DEF TakeTask, connVars
<1>2. /\ tasks \in Seq(Requests) /\ job \in [Workers -> 0..NumRequests]
      /\ place \in [Workers -> {"idle", "handle", "shutdown"}]
  BY DEF HttpTypeOK
<1>3. /\ Len(tasks) \in Nat /\ Len(tasks') = Len(tasks) - 1 /\ 1 \in 1..Len(tasks)
      /\ r = tasks[1]
      /\ \A i \in 1..Len(tasks') : i + 1 \in 1..Len(tasks) /\ tasks'[i] = tasks[i + 1]
  BY <1>1, <1>2
<1>4. /\ job'[w] = r /\ place'[w] = "handle"
      /\ \A v \in Workers \ {w} : job'[v] = job[v] /\ place'[v] = place[v]
  BY <1>1, <1>2
<1>5. isPool
  BY <1>1 DEF Answers
<1>6. Given' = Given /\ Given \in Nat
  BY <1>1, GivenIs DEF Given
<1>7. r \in Requests /\ r \in 1..Given /\ InTasks(r)
  <2>1. r \in Requests /\ r \in Nat \ {0} /\ r <= Given
    BY <1>3, Elements DEF Once
  <2> QED
    BY <1>3, <1>6, <2>1 DEF InTasks
<1> HIDE DEF r
<1>8. \A q \in Requests : /\ InTasks(q)' => InTasks(q) /\ q # r
                          /\ AtWork(q)' => AtWork(q) \/ q = r
                          /\ InQueue(q)' <=> InQueue(q)
  <2>1. ASSUME NEW q \in Requests, InTasks(q)' PROVE InTasks(q) /\ q # r
    <3>1. PICK i \in 1..Len(tasks') : tasks'[i] = q
      BY <2>1 DEF InTasks
    <3>2. i + 1 \in 1..Len(tasks) /\ tasks[i + 1] = q /\ i + 1 # 1
      BY <1>3, <3>1
    <3> QED
      BY <1>3, <3>2 DEF InTasks, Once
  <2>2. \A q \in Requests : AtWork(q)' => AtWork(q) \/ q = r
    BY <1>4 DEF AtWork
  <2>3. \A q \in Requests : InQueue(q)' <=> InQueue(q)
    BY <1>1 DEF InQueue
  <2> QED
    BY <2>1, <2>2, <2>3
<1>9. ~AtWork(r) /\ ~InQueue(r)
  BY <1>7 DEF Once
<1>10. Once'
  <2>1. \A i \in 1..Len(tasks') : tasks'[i] <= Given'
    BY <1>3, <1>6 DEF Once
  <2>2. \A v \in Workers : place'[v] # "idle" => job'[v] \in 1..Given'
    BY <1>4, <1>6, <1>7 DEF Once
  <2>3. \A i, j \in 1..Len(tasks') : tasks'[i] = tasks'[j] => i = j
    <3>1. \A i, j \in 1..Len(tasks') : tasks'[i] = tasks'[j] => i + 1 = j + 1
      BY <1>3 DEF Once
    <3> QED
      BY <3>1
  <2>4. \A u, v \in Workers :
          place'[u] = "handle" /\ place'[v] = "handle" /\ job'[u] = job'[v] => u = v
    <3>1. \A v \in Workers \ {w} : place[v] = "handle" => job[v] # r
      BY <1>9 DEF AtWork
    <3> QED
      BY <1>4, <3>1 DEF Once
  <2>5. \A q \in Requests : /\ InTasks(q)' => ~AtWork(q)' /\ ~InQueue(q)'
                            /\ AtWork(q)' => ~InQueue(q)'
    BY <1>7, <1>8, <1>9 DEF Once
  <2> QED
    BY <1>1, <1>6, <2>1, <2>2, <2>3, <2>4, <2>5 DEF Once
<1>11. Answers'
  <2>1. state = "connected" => \A q \in Requests :
          Answered(q) => ~InTasks(q)' /\ ~AtWork(q)' /\ ~InQueue(q)'
    BY <1>7, <1>8 DEF Answers
  <2> QED
    BY <1>1, <1>5, <1>6, <2>1, AnswersKept
<1>12. Announced'
  <2>1. \A v \in Workers : place'[v] = "shutdown" => place[v] = "shutdown" /\ job'[v] = job[v]
    BY <1>4
  <2> QED
    BY <1>1, <2>1, AnnouncedKept
<1> QED
  BY <1>10, <1>11, <1>12

\* What the two steps of work_func do to the queue and to its thread.
LEMMA QueueGrows ==
    ASSUME HttpTypeOK, NEW x, queue' = Append(queue, x)
    PROVE  /\ Len(queue') = Len(queue) + 1 /\ queue'[Len(queue) + 1] = x
           /\ \A i \in 1..Len(queue) : i \in 1..Len(queue') /\ queue'[i] = queue[i]
           /\ \A i \in 1..Len(queue') : i \in 1..Len(queue) \/ i = Len(queue) + 1
<1>1. /\ queue \in Seq(({"send"} \X Requests) \cup {<<"shutdown", 0>>})
      /\ Len(queue) \in Nat
  BY Elements DEF HttpTypeOK
<1> QED
  BY <1>1

\* A business thread sends: the request leaves it for the queue, at most.
LEMMA SendKeeps ==
    ASSUME HttpInv, NEW w \in Workers, WorkerSend(w)
    PROVE  Once' /\ Answers' /\ Announced'
<1> USE DEF HttpInv
<1>1. PICK r : r = job[w]
  OBVIOUS
<1>2. /\ place[w] = "handle"
      /\ queue' = IF state = "connected" THEN Append(queue, <<"send", r>>) ELSE queue
      /\ \/ Closing(r) /\ place' = [place EXCEPT ![w] = "shutdown"] /\ job' = job
         \/ place' = [place EXCEPT ![w] = "idle"] /\ job' = [job EXCEPT ![w] = 0]
      /\ UNCHANGED <<isPool, kinds, pc, state, wire, tasks, dispatched, peerClosed>>
  BY <1>1 DEF WorkerSend, Closing
<1>3. /\ job \in [Workers -> 0..NumRequests]
      /\ place \in [Workers -> {"idle", "handle", "shutdown"}]
  BY DEF HttpTypeOK
<1>4. /\ place'[w] = "idle" \/ (place'[w] = "shutdown" /\ job'[w] = r /\ Closing(r))
      /\ \A v \in Workers \ {w} : job'[v] = job[v] /\ place'[v] = place[v]
  BY <1>1, <1>2, <1>3
<1>5. isPool
  BY <1>2 DEF Answers
<1>6. Given' = Given /\ Given \in Nat /\ Given <= NumRequests /\ NumRequests \in Nat
  BY <1>2, GivenIs DEF Given
<1>7. r \in 1..Given /\ r \in Requests /\ AtWork(r)
  <2>1. r \in 1..Given
    BY <1>1, <1>2 DEF Once
  <2> QED
    BY <1>1, <1>2, <1>6, <2>1 DEF AtWork, Requests
<1>8. ~InTasks(r) /\ ~InQueue(r) /\ (state = "connected" => ~Answered(r))
  BY <1>7 DEF Once, Answers
<1>9. \A i \in 1..Len(queue) : i \in 1..Len(queue') /\ queue'[i] = queue[i]
  BY <1>2, QueueGrows
<1>10. \A i \in 1..Len(queue') : i \in 1..Len(queue) \/
         (queue'[i] = <<"send", r>> /\ i = Len(queue) + 1)
  BY <1>2, QueueGrows
<1>11. state = "connected" => InQueue(r)'
  <2> SUFFICES ASSUME state = "connected" PROVE InQueue(r)'
    OBVIOUS
  <2>1. Len(queue') = Len(queue) + 1 /\ queue'[Len(queue) + 1] = <<"send", r>>
    BY <1>2, QueueGrows
  <2>2. Len(queue) + 1 \in 1..Len(queue')
    BY <2>1, Elements
  <2> QED
    BY <2>1, <2>2 DEF InQueue
<1>12. \A q \in Requests : /\ InTasks(q)' <=> InTasks(q)
                           /\ AtWork(q)' => AtWork(q) /\ q # r
                           /\ InQueue(q)' => InQueue(q) \/ q = r
  <2>1. ASSUME NEW q \in Requests, AtWork(q)' PROVE AtWork(q) /\ q # r
    <3>1. PICK v \in Workers : place'[v] = "handle" /\ job'[v] = q
      BY <2>1 DEF AtWork
    <3>2. v # w /\ place[v] = "handle" /\ job[v] = q
      BY <1>4, <3>1
    <3> QED
      BY <1>1, <1>2, <3>2 DEF AtWork, Once
  <2>2. \A q \in Requests : InQueue(q)' => InQueue(q) \/ q = r
    BY <1>9, <1>10 DEF InQueue
  <2>3. \A q \in Requests : InTasks(q)' <=> InTasks(q)
    BY <1>2 DEF InTasks
  <2> QED
    BY <2>1, <2>2, <2>3
<1>13. Once'
  <2>1. \A v \in Workers : place'[v] # "idle" => job'[v] \in 1..Given'
    BY <1>4, <1>6, <1>7 DEF Once
  <2>2. \A i \in 1..Len(queue') : queue'[i][2] <= Given'
    BY <1>6, <1>7, <1>9, <1>10 DEF Once
  <2>3. \A u, v \in Workers :
          place'[u] = "handle" /\ place'[v] = "handle" /\ job'[u] = job'[v] => u = v
    BY <1>4 DEF Once
  <2>4. \A i, j \in 1..Len(queue') : queue'[i][1] = "send" /\ queue'[i] = queue'[j] => i = j
    <3>1. \A i \in 1..Len(queue) : queue[i] # <<"send", r>>
      BY <1>8 DEF InQueue
    <3> QED
      BY <1>9, <1>10, <3>1, SMTT(30) DEF Once
  <2>5. \A q \in Requests : /\ InTasks(q)' => ~AtWork(q)' /\ ~InQueue(q)'
                            /\ AtWork(q)' => ~InQueue(q)'
    BY <1>7, <1>8, <1>12 DEF Once
  <2> QED
    BY <1>2, <1>6, <2>1, <2>2, <2>3, <2>4, <2>5 DEF Once
<1>14. Answers'
  <2>1. state = "connected" => \A q \in Requests :
          Answered(q) => ~InTasks(q)' /\ ~AtWork(q)' /\ ~InQueue(q)'
    BY <1>7, <1>8, <1>12 DEF Answers
  <2> QED
    BY <1>2, <1>5, <1>6, <2>1, AnswersKept
<1>15. Announced'
  <2>1. \A v \in Workers : place'[v] = "shutdown" =>
          \/ place[v] = "shutdown" /\ job'[v] = job[v]
          \/ Closing(job'[v]) /\ (state = "connected" => InQueue(job[v])')
    <3>1. place'[w] = "shutdown" =>
            Closing(job'[w]) /\ (state = "connected" => InQueue(job[w])')
      BY <1>4, <1>11 DEF InQueue
    <3> QED
      BY <1>4, <3>1
  <2>2. \A i \in 1..Len(queue') \ 1..Len(queue) : queue'[i][1] # "shutdown"
    BY <1>10
  <2> QED
    BY <1>2, <1>9, <2>1, <2>2, AnnouncedKept
<1> QED
  BY <1>13, <1>14, <1>15

\* It asks for the shutdown behind the answer that says so.
LEMMA ShutdownKeeps ==
    ASSUME HttpInv, NEW w \in Workers, WorkerShutdown(w)
    PROVE  Once' /\ Answers' /\ Announced'
<1> USE DEF HttpInv
<1>1. /\ place[w] = "shutdown"
      /\ queue' = IF state = "connected" THEN Append(queue, <<"shutdown", 0>>) ELSE queue
      /\ place' = [place EXCEPT ![w] = "idle"] /\ job' = [job EXCEPT ![w] = 0]
      /\ UNCHANGED <<isPool, kinds, pc, state, wire, tasks, dispatched, peerClosed>>
  BY DEF WorkerShutdown
<1>2. /\ job \in [Workers -> 0..NumRequests]
      /\ place \in [Workers -> {"idle", "handle", "shutdown"}]
  BY DEF HttpTypeOK
<1>3. /\ place'[w] = "idle"
      /\ \A v \in Workers \ {w} : job'[v] = job[v] /\ place'[v] = place[v]
  BY <1>1, <1>2
<1>4. isPool
  BY <1>1 DEF Answers
<1>5. Given' = Given /\ Given \in Nat
  BY <1>1, GivenIs DEF Given
<1>6. \A i \in 1..Len(queue) : i \in 1..Len(queue') /\ queue'[i] = queue[i]
  BY <1>1, QueueGrows
<1>7. \A i \in 1..Len(queue') : i \in 1..Len(queue) \/
        (queue'[i] = <<"shutdown", 0>> /\ state = "connected")
  BY <1>1, QueueGrows
<1>8. \A q \in Requests : /\ InTasks(q)' <=> InTasks(q)
                          /\ AtWork(q)' => AtWork(q)
                          /\ InQueue(q)' => InQueue(q)
  <2>1. \A q \in Requests : AtWork(q)' => AtWork(q)
    BY <1>3 DEF AtWork
  <2>2. \A q \in Requests : InQueue(q)' => InQueue(q)
    BY <1>6, <1>7 DEF InQueue
  <2>3. \A q \in Requests : InTasks(q)' <=> InTasks(q)
    BY <1>1 DEF InTasks
  <2> QED
    BY <2>1, <2>2, <2>3
<1>9. Once'
  <2>1. \A v \in Workers : place'[v] # "idle" => job'[v] \in 1..Given'
    BY <1>3, <1>5 DEF Once
  <2>2. \A i \in 1..Len(queue') : queue'[i][2] <= Given'
    BY <1>5, <1>6, <1>7 DEF Once
  <2>3. \A u, v \in Workers :
          place'[u] = "handle" /\ place'[v] = "handle" /\ job'[u] = job'[v] => u = v
    BY <1>3 DEF Once
  <2>4. \A i, j \in 1..Len(queue') : queue'[i][1] = "send" /\ queue'[i] = queue'[j] => i = j
    BY <1>6, <1>7 DEF Once
  <2>5. \A q \in Requests : /\ InTasks(q)' => ~AtWork(q)' /\ ~InQueue(q)'
                            /\ AtWork(q)' => ~InQueue(q)'
    BY <1>8 DEF Once
  <2> QED
    BY <1>1, <1>5, <2>1, <2>2, <2>3, <2>4, <2>5 DEF Once
<1>10. Answers'
  <2>1. state = "connected" => \A q \in Requests :
          Answered(q) => ~InTasks(q)' /\ ~AtWork(q)' /\ ~InQueue(q)'
    BY <1>8 DEF Answers
  <2> QED
    BY <1>1, <1>4, <1>5, <2>1, AnswersKept
<1>11. Announced'
  <2>1. \A v \in Workers : place'[v] = "shutdown" => place[v] = "shutdown" /\ job'[v] = job[v]
    BY <1>3
  <2>2. state = "connected" =>
          Told \/ \E j \in 1..Len(queue) : queue[j][1] = "send" /\ Closing(queue[j][2])
    <3> SUFFICES ASSUME state = "connected"
                 PROVE  Told \/ \E j \in 1..Len(queue) :
                                  queue[j][1] = "send" /\ Closing(queue[j][2])
      OBVIOUS
    <3>1. /\ Closing(job[w])
          /\ InQueue(job[w]) \/ \E i \in 1..Len(wire) : wire[i] = <<job[w], 200>>
      BY <1>1 DEF Announced
    <3>2. CASE InQueue(job[w])
      <4>1. PICK j \in 1..Len(queue) : queue[j] = <<"send", job[w]>>
        BY <3>2 DEF InQueue
      <4>2. queue[j][1] = "send" /\ queue[j][2] = job[w]
        BY <4>1
      <4> QED
        BY <3>1, <4>2
    <3>3. CASE \E i \in 1..Len(wire) : wire[i] = <<job[w], 200>>
      <4>1. PICK i \in 1..Len(wire) : wire[i] = <<job[w], 200>>
        BY <3>3
      <4>2. wire[i][1] = job[w]
        BY <4>1
      <4>3. Final(wire[i])
        BY <3>1, <4>2 DEF Final, Closing
      <4> QED
        BY <4>3 DEF Told
    <3> QED
      BY <3>1, <3>2, <3>3
  <2>3. \A i \in 1..Len(queue') \ 1..Len(queue) : queue'[i][1] = "shutdown" =>
          Told \/ \E j \in 1..Len(queue) : queue[j][1] = "send" /\ Closing(queue[j][2])
    BY <1>7, <2>2
  <2> QED
    BY <1>1, <1>6, <2>1, <2>3, AnnouncedKept
<1> QED
  BY <1>9, <1>10, <1>11

\* The peer closes: there will be no more answers.
LEMMA PeerCloseKeeps ==
    ASSUME HttpInv, PeerClose
    PROVE  Once' /\ Answers' /\ Announced'
<1> USE DEF HttpInv
<1>1. /\ state' = "disconnected" /\ peerClosed' = TRUE
      /\ UNCHANGED <<isPool, kinds, pc, queue, wire, tasks, job, place, dispatched>>
  BY DEF PeerClose, poolVars
<1>2. Given' = Given /\ Given \in Nat
  BY <1>1, GivenIs DEF Given
<1>3. Once'
  BY <1>1, <1>2, OnceKept
<1>4. /\ Told'
      /\ \A r \in 1..Given : Closing(r)' <=> Closing(r)
      /\ \A i \in 1..Len(wire) : Final(wire[i])' <=> Final(wire[i])
  BY <1>1, ToldKept DEF Told
<1>5. Answers'
  <2>1. AnswersWellFormed'
    BY <1>1, <1>4 DEF Answers, AnswersWellFormed
  <2> QED
    BY <1>1, <1>2, <2>1 DEF Answers
<1>6. Announced'
  <2>1. CloseIsAnnounced'
    BY <1>1 DEF CloseIsAnnounced
  <2>2. \A v \in Workers : place'[v] = "shutdown" => Closing(job[v])'
    <3> SUFFICES ASSUME NEW v \in Workers, place[v] = "shutdown" PROVE Closing(job[v])'
      BY <1>1
    <3>1. Closing(job[v])
      BY DEF Announced
    <3> QED
      BY <1>1, <3>1 DEF Closing, Closes, Span
  <2> QED
    BY <1>1, <1>4, <2>1, <2>2 DEF Announced
<1> QED
  BY <1>3, <1>5, <1>6

\* A functor is taken from the queue, whatever it does.
LEMMA QueueShrinks ==
    ASSUME HttpTypeOK, queue # <<>>, queue' = Tail(queue)
    PROVE  /\ Len(queue') = Len(queue) - 1 /\ 1 \in 1..Len(queue) /\ Head(queue) = queue[1]
           /\ \A i \in 1..Len(queue') : i + 1 \in 1..Len(queue) /\ queue'[i] = queue[i + 1]
           /\ \A i \in 1..Len(queue) : i # 1 => i - 1 \in 1..Len(queue') /\ queue'[i - 1] = queue[i]
<1>1. /\ queue \in Seq(({"send"} \X Requests) \cup {<<"shutdown", 0>>})
      /\ Len(queue) \in Nat
  BY Elements DEF HttpTypeOK
<1>2. Len(queue') = Len(queue) - 1 /\ 1 \in 1..Len(queue) /\ Head(queue) = queue[1]
  BY <1>1
<1>3. \A i \in 1..Len(queue') : i + 1 \in 1..Len(queue) /\ queue'[i] = queue[i + 1]
  BY <1>1, <1>2
<1>4. ASSUME NEW i \in 1..Len(queue), i # 1
      PROVE  i - 1 \in 1..Len(queue') /\ queue'[i - 1] = queue[i]
  <2>1. i - 1 \in 1..Len(queue') /\ (i - 1) + 1 = i
    BY <1>1, <1>2, <1>4
  <2> QED
    BY <1>3, <2>1
<1> QED
  BY <1>2, <1>3, <1>4

\* Once, for it, and the requests still queued.
LEMMA FunctorOnce ==
    ASSUME HttpInv, RunFunctor
    PROVE  /\ Once'
           /\ \A q \in Requests : /\ InTasks(q)' <=> InTasks(q)
                                  /\ AtWork(q)' <=> AtWork(q)
                                  /\ InQueue(q)' => InQueue(q) /\ queue[1] # <<"send", q>>
                                  /\ InQueue(q) => InQueue(q)' \/ queue[1] = <<"send", q>>
<1> USE DEF HttpInv
<1>1. /\ queue # <<>> /\ queue' = Tail(queue)
      /\ UNCHANGED <<pc, tasks, job, place, dispatched>>
  BY DEF RunFunctor, poolVars
<1>2. /\ Len(queue') = Len(queue) - 1 /\ 1 \in 1..Len(queue)
      /\ \A i \in 1..Len(queue') : i + 1 \in 1..Len(queue) /\ queue'[i] = queue[i + 1]
      /\ \A i \in 1..Len(queue) : i # 1 => i - 1 \in 1..Len(queue') /\ queue'[i - 1] = queue[i]
  BY <1>1, QueueShrinks
<1>3. Given' = Given
  BY <1>1 DEF Given
<1>4. ASSUME NEW q \in Requests, InQueue(q)'
      PROVE  InQueue(q) /\ queue[1] # <<"send", q>>
  <2>1. PICK i \in 1..Len(queue') : queue'[i] = <<"send", q>>
    BY <1>4 DEF InQueue
  <2>2. i + 1 \in 1..Len(queue) /\ queue[i + 1] = <<"send", q>> /\ i + 1 # 1
    BY <1>2, <2>1
  <2>3. queue[i + 1][1] = "send"
    BY <2>2
  <2>4. queue[i + 1] # queue[1]
    BY <1>2, <2>2, <2>3 DEF Once
  <2> QED
    BY <2>2, <2>4 DEF InQueue
<1>5. \A q \in Requests : InQueue(q) => InQueue(q)' \/ queue[1] = <<"send", q>>
  BY <1>2 DEF InQueue
<1>6. \A q \in Requests : /\ InTasks(q)' <=> InTasks(q)
                          /\ AtWork(q)' <=> AtWork(q)
  BY <1>1 DEF InTasks, AtWork
<1>7. Once'
  <2>1. \A i \in 1..Len(queue') : queue'[i][2] <= Given'
    BY <1>2, <1>3 DEF Once
  <2>2. \A i, j \in 1..Len(queue') : queue'[i][1] = "send" /\ queue'[i] = queue'[j] => i = j
    <3>1. \A i, j \in 1..Len(queue') :
            queue'[i][1] = "send" /\ queue'[i] = queue'[j] => i + 1 = j + 1
      BY <1>2, SMTT(30) DEF Once
    <3> QED
      BY <3>1
  <2>3. \A q \in Requests : /\ InTasks(q)' => ~AtWork(q)' /\ ~InQueue(q)'
                            /\ AtWork(q)' => ~InQueue(q)'
    BY <1>4, <1>6 DEF Once
  <2> QED
    BY <1>1, <1>3, <2>1, <2>2, <2>3 DEF Once
<1> QED
  BY <1>4, <1>5, <1>6, <1>7

\* A shutdown stays explained when the entry before the head goes, if that is
\* told or explains nothing.
LEMMA ShutdownsMoveUp ==
    ASSUME HttpInv, RunFunctor, Told => Told',
           \A r \in 1..Given : Closing(r)' <=> Closing(r),
           queue[1][1] = "send" /\ Closing(queue[1][2]) => Told',
           NEW i \in 1..Len(queue'), queue'[i][1] = "shutdown"
    PROVE  (Told \/ \E j \in 1..(i - 1) : queue[j][1] = "send" /\ Closing(queue[j][2]))'
<1> USE DEF HttpInv
<1>1. queue # <<>> /\ queue' = Tail(queue)
  BY DEF RunFunctor
<1>2. /\ Len(queue') = Len(queue) - 1 /\ 1 \in 1..Len(queue) /\ Len(queue) \in Nat
      /\ \A k \in 1..Len(queue') : k + 1 \in 1..Len(queue) /\ queue'[k] = queue[k + 1]
      /\ \A k \in 1..Len(queue) : k # 1 => k - 1 \in 1..Len(queue') /\ queue'[k - 1] = queue[k]
  BY <1>1, QueueShrinks, Elements
<1>3. Told \/ \E j \in 1..((i + 1) - 1) : queue[j][1] = "send" /\ Closing(queue[j][2])
  BY <1>2, ZenonT(30) DEF Announced
<1>4. CASE Told
  BY <1>4
<1>5. CASE \E j \in 1..i : queue[j][1] = "send" /\ Closing(queue[j][2])
  <2>1. PICK j \in 1..i : queue[j][1] = "send" /\ Closing(queue[j][2])
    BY <1>5
  <2>2. CASE j = 1
    BY <2>1, <2>2
  <2>3. CASE j # 1
    <3>1. PICK k \in 1..(i - 1) : k = j - 1
      BY <2>3
    <3>2. j \in 1..Len(queue) /\ queue'[k] = queue[j]
      BY <1>2, <2>3, <3>1
    <3>3. UNCHANGED <<kinds, dispatched>>
      BY DEF RunFunctor
    <3>4. Closing(queue[k][2])'
      BY <2>1, <3>2, <3>3 DEF Closing, Closes, Span
    <3>5. queue'[k][1] = "send"
      BY <2>1, <3>2
    <3> QED
      BY <3>4, <3>5
  <2> QED
    BY <2>2, <2>3
<1> QED
  BY <1>2, <1>3, <1>4, <1>5

\* A queued send: an answer to a request that had none.
LEMMA FunctorSendKeeps ==
    ASSUME HttpInv, RunFunctor, Head(queue)[1] = "send"
    PROVE  Answers' /\ Announced'
<1> USE DEF HttpInv
<1>1. PICK r : r = Head(queue)[2]
  OBVIOUS
<1>2. /\ queue # <<>> /\ queue' = Tail(queue) /\ AnswerHere(r, 200, FALSE)
      /\ UNCHANGED <<isPool, kinds, pc, tasks, job, place, dispatched, peerClosed>>
  BY <1>1 DEF RunFunctor, poolVars
<1>3. /\ 1 \in 1..Len(queue) /\ Head(queue) = queue[1]
  BY <1>2, QueueShrinks
<1>4. queue[1] = <<"send", r>> /\ r \in Requests
  BY <1>1, <1>3, Elements
<1>5. Given' = Given /\ Given \in Nat /\ r \in 1..Given /\ isPool
  <2>1. Given' = Given /\ Given \in Nat /\ isPool
    BY <1>2, GivenIs DEF Given, Answers
  <2>2. r <= Given /\ r \in Nat \ {0}
    BY <1>3, <1>4, Elements DEF Once
  <2> QED
    BY <2>1, <2>2
<1>6. /\ \A q \in Requests : /\ InTasks(q)' <=> InTasks(q)
                             /\ AtWork(q)' <=> AtWork(q)
                             /\ InQueue(q)' => InQueue(q) /\ q # r
                             /\ InQueue(q) => InQueue(q)' \/ q = r
      /\ InQueue(r)
  <2>1. \A q \in Requests : queue[1] = <<"send", q>> <=> q = r
    BY <1>4
  <2>2. InQueue(r)
    BY <1>3, <1>4 DEF InQueue
  <2> QED
    BY <2>1, <2>2, FunctorOnce
<1>7. CASE state # "connected"
  <2>1. UNCHANGED <<state, wire>>
    BY <1>2, <1>7 DEF AnswerHere
  <2>2. Answers'
    BY <1>2, <1>5, <1>7, <2>1, AnswersKept
  <2>3. /\ Told => Told'
        /\ \A q \in 1..Given : Closing(q)' <=> Closing(q)
        /\ \A i \in 1..Len(wire) : Final(wire[i])' <=> Final(wire[i])
    BY <1>2, <2>1, ToldKept
  <2>4. Told
    <3>1. state \in {"disconnecting", "disconnected"}
      BY <1>7 DEF HttpTypeOK
    <3> QED
      BY <3>1 DEF Announced, CloseIsAnnounced, Told
  <2>5. Announced'
    <3>1. CloseIsAnnounced'
      BY <1>2, <2>1, <2>3 DEF Announced, CloseIsAnnounced
    <3>2. (state = "disconnected" => peerClosed)' /\ (peerClosed => state # "connected")'
      BY <1>2, <2>1 DEF Announced
    <3>3. \A v \in Workers : place'[v] = "shutdown" => Closing(job[v])'
      <4> SUFFICES ASSUME NEW v \in Workers, place[v] = "shutdown" PROVE Closing(job[v])'
        BY <1>2
      <4>1. Closing(job[v])
        BY DEF Announced
      <4> QED
        BY <1>2, <4>1 DEF Closing, Closes, Span
    <3> QED
      BY <1>7, <2>1, <2>3, <2>4, <3>1, <3>2, <3>3 DEF Announced
  <2> QED
    BY <2>2, <2>5
<1>8. CASE state = "connected"
  <2>1. PICK n \in Nat : n = Len(wire) + 1
    BY Elements
  <2>2. wire' = Append(wire, <<r, 200>>) /\ state' = "connected"
    BY <1>2, <1>8 DEF AnswerHere
  <2>3. /\ Len(wire') = n /\ wire'[n] = <<r, 200>> /\ n \in 1..Len(wire')
        /\ \A i \in 1..Len(wire) : i \in 1..Len(wire') /\ wire'[i] = wire[i]
        /\ \A i \in 1..Len(wire') : i \in 1..Len(wire) \/ i = n
    BY <2>1, <2>2, WireGrows, Elements
  <2>4. /\ Told => Told'
        /\ \A q \in 1..Given : Closing(q)' <=> Closing(q)
        /\ \A i \in 1..Len(wire) : Final(wire[i])' <=> Final(wire[i])
    BY <1>2, <2>3, ToldKept
  <2>5. ~Answered(r) /\ ~InTasks(r) /\ ~AtWork(r)
    BY <1>4, <1>6, <1>8 DEF Answers, Once
  <2>6. \A i \in 1..Len(wire) : wire'[i][2] = 200 /\ wire'[i][1] <= Given /\ wire'[i][1] # r
    BY <1>8, <2>3, <2>5 DEF Answers, Answered
  <2>7. wire'[n][1] = r /\ wire'[n][2] = 200
    BY <2>3
  <2>8. Answers'
    <3>1. AnswersWellFormed'
      <4>1. \A i, j \in 1..Len(wire') : wire'[i][1] = wire'[j][1] => i = j
        <5>1. \A i, j \in 1..Len(wire) : wire[i][1] = wire[j][1] => i = j
          BY DEF Answers, AnswersWellFormed
        <5> QED
          BY <2>3, <2>6, <2>7, <5>1
      <4>2. \A i \in 1..Len(wire') : wire'[i][2] = 200
        BY <2>3, <2>6, <2>7
      <4> QED
        BY <1>2, <1>5, <4>1, <4>2 DEF AnswersWellFormed
    <3>2. \A i \in 1..Len(wire') : wire'[i][2] = 200 /\ wire'[i][1] <= Given'
      BY <1>5, <2>3, <2>6, <2>7
    <3>3. \A q \in Requests : Answered(q)' => ~InTasks(q)' /\ ~AtWork(q)' /\ ~InQueue(q)'
      <4>1. \A q \in Requests : Answered(q)' => Answered(q) \/ q = r
        BY <2>3, <2>7 DEF Answered
      <4> QED
        BY <1>6, <1>8, <2>5, <4>1 DEF Answers
    <3> QED
      BY <1>2, <1>5, <3>1, <3>2, <3>3 DEF Answers
  <2>9. Closing(r) => Told'
    <3>1. Closing(r) => Final(wire[n])'
      BY <1>2, <2>7 DEF Final, Closing, Closes, Span
    <3> QED
      BY <2>3, <3>1 DEF Told
  <2>10. Announced'
    <3>1. CloseIsAnnounced'
      BY <2>2 DEF CloseIsAnnounced
    <3>2. (state = "disconnected" => peerClosed)' /\ (peerClosed => state # "connected")'
      BY <1>2, <1>8, <2>2 DEF Announced
    <3>3. ASSUME NEW v \in Workers, place'[v] = "shutdown"
          PROVE  /\ Closing(job[v])'
                 /\ state' = "connected" =>
                      InQueue(job[v])' \/ \E i \in 1..Len(wire') : wire'[i] = <<job'[v], 200>>
      <4>1. /\ Closing(job[v]) /\ job[v] \in 1..Given
            /\ InQueue(job[v]) \/ \E i \in 1..Len(wire) : wire[i] = <<job[v], 200>>
        BY <1>2, <1>8, <3>3 DEF Announced, Once
      <4>2. Closing(job[v])'
        BY <1>2, <4>1 DEF Closing, Closes, Span
      <4>3. CASE InQueue(job[v])
        <5>1. job[v] \in Requests
          BY <4>1, GivenIs DEF Requests
        <5>2. CASE job[v] = r
          BY <1>2, <2>3, <4>2, <5>2
        <5>3. CASE \E i \in 1..Len(queue') : queue'[i] = <<"send", job[v]>>
          BY <1>2, <4>2, <5>3 DEF InQueue
        <5> QED
          BY <1>6, <4>3, <5>1, <5>2, <5>3 DEF InQueue
      <4>4. CASE \E i \in 1..Len(wire) : wire[i] = <<job[v], 200>>
        BY <1>2, <2>3, <4>2, <4>4
      <4> QED
        BY <4>1, <4>3, <4>4
    <3>4. queue[1][1] = "send" /\ Closing(queue[1][2]) => Told'
      BY <1>4, <2>9
    <3>5. \A i \in 1..Len(queue') : queue'[i][1] = "shutdown" =>
            (Told \/ \E j \in 1..(i - 1) : queue[j][1] = "send" /\ Closing(queue[j][2]))'
      BY <2>4, <3>4, ShutdownsMoveUp
    <3> QED
      BY <3>1, <3>2, <3>3, <3>5, Zenon DEF Announced
  <2> QED
    BY <2>8, <2>10
<1> QED
  BY <1>7, <1>8

\* A queued shutdown at the head: what explains it has been sent.
LEMMA FunctorShutdownKeeps ==
    ASSUME HttpInv, RunFunctor, Head(queue)[1] # "send"
    PROVE  Answers' /\ Announced'
<1> USE DEF HttpInv
<1>1. /\ queue # <<>> /\ queue' = Tail(queue) /\ state' = "disconnecting" /\ wire' = wire
      /\ UNCHANGED <<isPool, kinds, pc, tasks, job, place, dispatched, peerClosed>>
  BY DEF RunFunctor, poolVars
<1>2. 1 \in 1..Len(queue) /\ Head(queue) = queue[1]
  BY <1>1, QueueShrinks
<1>3. queue[1][1] = "shutdown"
  BY <1>2, Elements
<1>4. Told /\ isPool
  <2>1. \A j \in 1..(1 - 1) : FALSE
    OBVIOUS
  <2> QED
    BY <1>1, <1>2, <1>3, <2>1 DEF Announced, Answers
<1>5. /\ Told'
      /\ \A q \in 1..Given : Closing(q)' <=> Closing(q)
      /\ \A i \in 1..Len(wire) : Final(wire[i])' <=> Final(wire[i])
  BY <1>1, <1>4, ToldKept
<1>6. Given' = Given
  BY <1>1 DEF Given
<1>7. Answers'
  <2>1. AnswersWellFormed'
    BY <1>1, <1>5 DEF Answers, AnswersWellFormed
  <2> QED
    BY <1>1, <1>4, <1>6, <2>1 DEF Answers
<1>8. Announced'
  <2>1. CloseIsAnnounced'
    BY <1>5 DEF CloseIsAnnounced, Told
  <2>2. (state = "disconnected" => peerClosed)' /\ (peerClosed => state # "connected")'
    BY <1>1 DEF Announced
  <2>3. \A v \in Workers : place'[v] = "shutdown" => Closing(job[v])'
    <3> SUFFICES ASSUME NEW v \in Workers, place[v] = "shutdown" PROVE Closing(job[v])'
      BY <1>1
    <3>1. Closing(job[v])
      BY DEF Announced
    <3> QED
      BY <1>1, <3>1 DEF Closing, Closes, Span
  <2> QED
    BY <1>1, <1>5, <2>1, <2>2, <2>3 DEF Announced
<1> QED
  BY <1>7, <1>8

-----------------------------------------------------------------------------
(* The beginning.                                                          *)

\* What the client sends is made of bytes.
LEMMA SentBytes ==
    ASSUME NEW ks, NEW n \in Requests, NEW k \in 1..(n * MessageLen)
    PROVE  Sent(ks, k) \in Bytes
<1> DEFINE L == MessageLen
           d == (k - 1) \div L
           j == k - d * L
<1>1. L \in Nat \ {0} /\ n \in Nat /\ n <= NumRequests /\ NumRequests \in Nat
  BY Lengths, HttpAssumption DEF Requests
<1> HIDE DEF L
<1>2. n * L \in Nat /\ k \in 1..(n * L)
  BY <1>1 DEF L
<1>3. k - 1 \in Nat
  BY <1>2
<1>4. d \in Nat /\ d * L <= k - 1 /\ k - 1 < d * L + L
  BY <1>1, <1>3
<1> HIDE DEF d
<1>5. d * L \in Nat
  BY <1>1, <1>4
<1>6. j \in 1..L /\ d * L < n * L /\ k = d * L + j
  BY <1>1, <1>2, <1>4, <1>5
<1>7. d < n
  BY <1>1, <1>4, <1>6, Multiples DEF L
<1>8. d + 1 \in Requests
  BY <1>1, <1>4, <1>7 DEF Requests
<1> HIDE DEF j
<1>9. Sent(ks, k) = Byte(d + 1, ks[d + 1], j)
  <2>1. Sent(ks, d * MessageLen + j) = Byte(d + 1, ks[d + 1], j)
    BY <1>4, <1>6, SentIs DEF L
  <2> QED
    BY <1>6, <2>1 DEF L
<1> QED
  BY <1>6, <1>8, <1>9, StopBytes DEF L

\* All of it is still to come: the context waits for the first request.
LEMMA InitInput ==
    ASSUME Init
    PROVE  HttpTypeOK /\ Input
<1> DEFINE K == Len(kinds)
           N == K * MessageLen
<1>1. kinds \in Seq({"keep", "close", "bad"}) /\ K \in Requests
  <2>1. PICK n \in Requests : kinds \in [1..n -> {"keep", "close", "bad"}]
    BY DEF Init
  <2>2. n \in Nat
    BY <2>1, HttpAssumption DEF Requests
  <2>3. kinds \in Seq({"keep", "close", "bad"})
    BY <2>1, <2>2, SeqDef
  <2>4. K \in Nat /\ DOMAIN kinds = 1..K
    BY <2>3, LenProperties
  <2>5. 1..K = 1..n
    BY <2>1, <2>4
  <2> HIDE DEF K
  <2>6. K = n
    <3>1. n \in 1..n /\ n \in Nat \ {0}
      BY <2>1, HttpAssumption DEF Requests
    <3>2. n \in 1..K
      BY <2>5, <3>1, Zenon
    <3>3. K \in 1..K
      BY <2>4, <3>1, <3>2
    <3>4. K \in 1..n
      BY <2>5, <3>3, Zenon
    <3> QED
      BY <2>4, <3>1, <3>2, <3>4
  <2> QED
    BY <2>1, <2>3, <2>6
<1>2. K \in Nat \ {0} /\ NumRequests \in Nat \ {0}
  BY <1>1, HttpAssumption DEF Requests
<1>3. N \in Nat
  BY <1>2, Multiples
<1>4. stream = [k \in 1..N |-> Sent(kinds, k)]
  BY DEF Init
<1>5. \A k \in 1..N : Sent(kinds, k) \in Bytes
  BY <1>1, SentBytes
<1> HIDE DEF N, K
<1>6. stream \in [1..N -> Bytes]
  BY <1>4, <1>5
<1>7. stream \in Seq(Bytes)
  BY <1>3, <1>6, SeqDef
<1>8. Len(stream) = N
  <2>1. DOMAIN stream = 1..N /\ DOMAIN stream = 1..Len(stream) /\ Len(stream) \in Nat
    BY <1>6, <1>7, LenProperties
  <2> QED
    BY <1>3, <2>1
<1>9. /\ buf = <<>> /\ ctx = NewContext /\ pc = "idle" /\ dispatched = <<>>
      /\ state = "connected" /\ queue = <<>> /\ tasks = <<>> /\ wire = <<>>
      /\ job = [w \in Workers |-> 0] /\ place = [w \in Workers |-> "idle"]
      /\ peerClosed = FALSE /\ isPool \in BOOLEAN
  BY HttpAssumption DEF Init
<1>10. Len(buf) = 0 /\ Len(dispatched) = 0
  BY <1>9
<1>11. HttpTypeOK
  <2>1. /\ queue \in Seq(({"send"} \X Requests) \cup {<<"shutdown", 0>>})
        /\ tasks \in Seq(Requests) /\ Len(tasks) = 0
        /\ wire \in Seq(Requests \X {200, 400, 503})
    BY <1>9, EmptySeq
  <2>2. /\ job \in [Workers -> 0..NumRequests]
        /\ place \in [Workers -> {"idle", "handle", "shutdown"}]
    BY <1>2, <1>9
  <2>3. Len(tasks) <= MaxTasks /\ Len(dispatched) <= Len(kinds)
    BY <1>2, <1>10, <2>1, HttpAssumption DEF K
  <2> QED
    BY <1>1, <1>9, <2>1, <2>2, <2>3 DEF HttpTypeOK, K
<1>12. InputTypeOK
  <2>1. ctx \in [got : [Parts -> Seq(Bytes)], failed : BOOLEAN]
    BY <1>9, EmptySeq DEF NewContext
  <2> QED
    BY <1>7, <1>9, <2>1, EmptySeq DEF InputTypeOK
<1>13. Unread
  <2>1. \A k \in 1..Len(stream) : (N - Len(stream)) + k = k
    BY <1>3, <1>8
  <2>2. Len(kinds) * MessageLen = N
    BY DEF N, K
  <2> QED
    BY <1>4, <1>8, <2>1, <2>2 DEF Unread
<1>14. UrlAndBodyWhole
  BY <1>10 DEF UrlAndBodyWhole
<1>15. Parsed = 0 /\ Within = 0
  <2>1. Parsed = N - (Len(buf) + Len(stream))
    BY DEF Parsed, N, K
  <2>2. Parsed = 0
    BY <1>3, <1>8, <1>10, <2>1
  <2>3. 0 * MessageLen = 0
    BY Lengths
  <2> QED
    BY <1>10, <2>2, <2>3 DEF Within
<1>16. Parsing
  <2>1. \A p \in Parts : ctx.got[p] = <<>>
    BY <1>9 DEF NewContext
  <2>2. \A p \in Parts \ Assigned : ctx.got[p] = Begun(Len(dispatched) + 1, p, Within)
    BY <1>15, <2>1, BegunNone
  <2>3. Within \in 0..(MessageLen - 1) /\ Within <= Offset["version"]
    BY <1>15, Lengths
  <2>4. \A k \in 1..Len(buf) : buf[k] = Sent(kinds, Parsed + k)
    BY <1>10
  <2> QED
    BY <1>9, <2>2, <2>3, <2>4 DEF Parsing
<1>17. ctx.failed = FALSE
  BY <1>9 DEF NewContext
<1> QED
  BY <1>11, <1>12, <1>13, <1>14, <1>16, <1>17 DEF Input

LEMMA InitHolds == Init => HttpInv
<1> SUFFICES ASSUME Init PROVE HttpInv
  OBVIOUS
<1>1. HttpTypeOK /\ Input
  BY InitInput
<1>2. /\ Len(tasks) = 0 /\ Len(queue) = 0 /\ Len(wire) = 0 /\ Len(dispatched) = 0
      /\ tasks = <<>> /\ queue = <<>> /\ pc = "idle" /\ state = "connected"
      /\ peerClosed = FALSE /\ place = [w \in Workers |-> "idle"]
  BY DEF Init
<1>3. \A w \in Workers : place[w] = "idle"
  BY <1>2
<1>4. Once
  BY <1>2, <1>3 DEF Once, InTasks, AtWork, InQueue
<1>5. Given = 0
  BY <1>2 DEF Given
<1>6. Answers
  BY <1>2, <1>3, <1>5 DEF Answers, AnswersWellFormed, Answered
<1>7. Announced
  BY <1>2, <1>3 DEF Announced, CloseIsAnnounced
<1> QED
  BY <1>1, <1>4, <1>6, <1>7 DEF HttpInv

-----------------------------------------------------------------------------
(* The steps.                                                              *)

LEMMA AnswerTypes ==
    ASSUME HttpTypeOK, NEW r \in Requests, NEW status \in {200, 400, 503}, NEW last,
           AnswerHere(r, status, last)
    PROVE  /\ wire' \in Seq(Requests \X {200, 400, 503})
           /\ state' \in {"connected", "disconnecting", "disconnected"}
<1>1. /\ wire \in Seq(Requests \X {200, 400, 503})
      /\ state \in {"connected", "disconnecting", "disconnected"}
  BY DEF HttpTypeOK
<1>2. <<r, status>> \in Requests \X {200, 400, 503}
  OBVIOUS
<1>3. Append(wire, <<r, status>>) \in Seq(Requests \X {200, 400, 503})
  BY <1>1, <1>2, AppendProperties
<1>4. CASE state # "connected"
  BY <1>1, <1>4 DEF AnswerHere
<1>5. CASE state = "connected"
  <2>1. wire' = Append(wire, <<r, status>>) /\ state' \in {"connected", "disconnecting"}
    BY <1>5, ZenonT(30) DEF AnswerHere
  <2> QED
    BY <1>3, <2>1
<1> QED
  BY <1>4, <1>5

\* A refusal, 400 or 503, by onMessage.
LEMMA RefuseKeeps ==
    ASSUME HttpInv, NEW r \in Requests, NEW status \in {400, 503}, RefuseHere(r, status),
           pc' \in {"idle", "parse"}, state = "connected" => r = Given + 1,
           UNCHANGED <<isPool, kinds, queue, poolVars, dispatched, peerClosed>>
    PROVE  HttpTypeOK' /\ Once' /\ Answers' /\ Announced'
<1>1. PICK last : last = TRUE
  OBVIOUS
<1>2. AnswerHere(r, status, last)
  BY <1>1, ZenonT(30) DEF RefuseHere
<1>3. last /\ last \in BOOLEAN
  BY <1>1
<1>4. pc' # "handle" /\ status \in {200, 400, 503}
  OBVIOUS
<1>5. HttpTypeOK /\ Input /\ Once /\ Answers /\ Announced
  BY DEF HttpInv
<1>6. Once' /\ Answers' /\ Announced'
  <2>1. \/ status = 200 /\ ~isPool /\ pc = "handle" /\ (last <=> Closing(r))
        \/ status # 200 /\ last
    BY <1>3
  <2>2. last \in BOOLEAN
    BY <1>3
  <2> QED
    BY <1>2, <1>4, <1>5, <2>1, <2>2, AnswerKeeps
<1>7. /\ wire' \in Seq(Requests \X {200, 400, 503})
      /\ state' \in {"connected", "disconnecting", "disconnected"}
  BY <1>2, <1>4, <1>5, AnswerTypes
<1>8. HttpTypeOK'
  <2>1. UNCHANGED <<isPool, kinds, queue, tasks, job, place, dispatched, peerClosed>>
    BY DEF poolVars
  <2> QED
    BY <1>5, <1>7, <2>1 DEF HttpTypeOK
<1> QED
  BY <1>6, <1>8

\* Each step of onMessage.
LEMMA ReceiveKeeps ==
    ASSUME HttpInv, NEW n \in 1..Len(stream), Receive(n)
    PROVE  HttpInv'
<1> USE DEF HttpInv
<1>1. /\ pc = "idle" /\ pc' = "parse"
      /\ UNCHANGED <<isPool, kinds, connVars, poolVars, dispatched, peerClosed>>
  BY DEF Receive
<1>2. Input'
  BY ReceiveInput
<1>3. Given' = Given
  BY <1>1 DEF Given
<1>4. Once' /\ Answers' /\ Announced'
  BY <1>1, <1>3, RestKept
<1>5. HttpTypeOK'
  BY <1>1 DEF HttpTypeOK, connVars, poolVars
<1> QED
  BY <1>2, <1>4, <1>5

LEMMA NoMoreKeeps ==
    ASSUME HttpInv, NoMore
    PROVE  HttpInv'
<1> USE DEF HttpInv
<1>1. /\ pc = "parse" /\ pc' = "idle"
      /\ UNCHANGED <<isPool, kinds, connVars, poolVars, dispatched, peerClosed>>
  BY DEF NoMore
<1>2. Input'
  BY NoMoreInput
<1>3. Given' = Given
  BY <1>1 DEF Given
<1>4. Once' /\ Answers' /\ Announced'
  BY <1>1, <1>3, RestKept
<1>5. HttpTypeOK'
  BY <1>1 DEF HttpTypeOK, connVars, poolVars
<1> QED
  BY <1>2, <1>4, <1>5

LEMMA ParsePartialKeeps ==
    ASSUME HttpInv, ParsePartial
    PROVE  HttpInv'
<1> USE DEF HttpInv
<1>1. /\ pc = "parse" /\ pc' = "idle"
      /\ UNCHANGED <<isPool, kinds, connVars, poolVars, dispatched, peerClosed>>
  BY DEF ParsePartial
<1>2. Input'
  BY PartialInput
<1>3. Given' = Given
  BY <1>1 DEF Given
<1>4. Once' /\ Answers' /\ Announced'
  BY <1>1, <1>3, RestKept
<1>5. HttpTypeOK'
  BY <1>1 DEF HttpTypeOK, connVars, poolVars
<1> QED
  BY <1>2, <1>4, <1>5

LEMMA ParseCompleteKeeps ==
    ASSUME HttpInv, ParseComplete
    PROVE  HttpInv'
<1> USE DEF HttpInv
<1>1. /\ pc = "parse" /\ pc' = "handle"
      /\ UNCHANGED <<isPool, kinds, connVars, poolVars, peerClosed>>
  BY DEF ParseComplete
<1>2. /\ Input' /\ Len(dispatched) < Len(kinds)
      /\ Len(dispatched') = Len(dispatched) + 1
      /\ \A r \in 1..Len(dispatched) : dispatched'[r] = dispatched[r]
  BY CompleteInput
<1>3. Given = Len(dispatched) /\ Len(dispatched) \in Nat
  BY <1>1, GivenIs
<1>4. Given' = Given
  BY <1>1, <1>2, <1>3 DEF Given
<1>5. Once' /\ Answers' /\ Announced'
  BY <1>1, <1>2, <1>3, <1>4, RestKept
<1>6. Len(dispatched') <= Len(kinds')
  BY <1>1, <1>2, <1>3, InputTypes DEF Input
<1>7. HttpTypeOK'
  BY <1>1, <1>6 DEF HttpTypeOK, connVars, poolVars
<1> QED
  BY <1>2, <1>5, <1>7

LEMMA ParseErrorKeeps ==
    ASSUME HttpInv, ParseError
    PROVE  HttpInv'
<1> USE DEF HttpInv
<1>1. PICK r : r = IF ctx.failed THEN NumRequests ELSE buf[Stop(buf)][1]
  OBVIOUS
<1>2. /\ pc = "parse" /\ pc' = "idle" /\ RefuseHere(r, 400)
      /\ UNCHANGED <<isPool, kinds, queue, poolVars, dispatched, peerClosed>>
  BY <1>1 DEF ParseError
<1>3. /\ Input'
      /\ ~ctx.failed => Len(dispatched) + 1 \in Requests /\ r = Len(dispatched) + 1
  BY <1>1, ErrorInput
<1>4. r \in Requests
  BY <1>1, <1>3, HttpAssumption DEF Requests
<1>5. state = "connected" => r = Given + 1
  BY <1>2, <1>3, GivenIs DEF Input
<1>6. HttpTypeOK' /\ Once' /\ Answers' /\ Announced'
  BY <1>2, <1>4, <1>5, RefuseKeeps
<1> QED
  BY <1>3, <1>6

LEMMA HandleInlineKeeps ==
    ASSUME HttpInv, HandleInline
    PROVE  HttpInv'
<1> USE DEF HttpInv
<1>1. PICK r : r = Len(dispatched)
  OBVIOUS
<1>2. pc = "handle" /\ ~isPool /\ NextTurn /\ pc' = "parse"
  BY DEF HandleInline, NextTurn
<1>3. r \in Requests /\ Id(ctx.got) = r /\ ctx.got = dispatched[r]
  BY <1>1, <1>2, HandledIs
<1>4. PICK last : last = Closes(Id(ctx.got), ctx.got)
  OBVIOUS
<1>5. /\ AnswerHere(r, 200, last) /\ (last <=> Closing(r)) /\ last \in BOOLEAN
      /\ UNCHANGED <<isPool, kinds, stream, buf, queue, poolVars, dispatched, peerClosed>>
  BY <1>3, <1>4 DEF HandleInline, Closing, Closes
<1>6. Input'
  BY <1>2, <1>5, TurnInput
<1>7. r = Given + 1
  BY <1>1, <1>2, GivenIs
<1>8. Once' /\ Answers' /\ Announced'
  BY <1>2, <1>5, <1>7, AnswerKeeps
<1>9. /\ wire' \in Seq(Requests \X {200, 400, 503})
      /\ state' \in {"connected", "disconnecting", "disconnected"}
  BY <1>3, <1>5, AnswerTypes
<1>10. HttpTypeOK'
  BY <1>2, <1>5, <1>9 DEF HttpTypeOK, poolVars
<1> QED
  BY <1>6, <1>8, <1>10

LEMMA SubmitRefusedKeeps ==
    ASSUME HttpInv, SubmitRefused
    PROVE  HttpInv'
<1> USE DEF HttpInv
<1>1. PICK r : r = Len(dispatched)
  OBVIOUS
<1>2. pc = "handle" /\ isPool /\ NextTurn /\ pc' = "parse"
  BY DEF SubmitRefused, NextTurn
<1>3. r \in Requests /\ Id(ctx.got) = r
  BY <1>1, <1>2, HandledIs
<1>4. /\ RefuseHere(r, 503)
      /\ UNCHANGED <<isPool, kinds, stream, buf, queue, poolVars, dispatched, peerClosed>>
  BY <1>3 DEF SubmitRefused
<1>5. Input'
  BY <1>2, <1>4, TurnInput
<1>6. r = Given + 1
  BY <1>1, <1>2, GivenIs
<1>7. HttpTypeOK' /\ Once' /\ Answers' /\ Announced'
  BY <1>2, <1>3, <1>4, <1>6, RefuseKeeps
<1> QED
  BY <1>5, <1>7

LEMMA SubmitTypes ==
    ASSUME HttpInv, Submit
    PROVE  HttpTypeOK' /\ Input'
<1> USE DEF HttpInv
<1>1. /\ pc = "handle" /\ NextTurn /\ pc' = "parse" /\ Len(tasks) < MaxTasks
      /\ tasks' = Append(tasks, Id(ctx.got))
      /\ UNCHANGED <<isPool, kinds, stream, buf, state, queue, wire, job, place, dispatched,
                     peerClosed>>
  BY DEF Submit, NextTurn, connVars
<1>2. Input'
  BY <1>1, TurnInput
<1>3. Id(ctx.got) \in Requests
  BY <1>1, HandledIs
<1>4. tasks' \in Seq(Requests) /\ Len(tasks') = Len(tasks) + 1 /\ Len(tasks) \in Nat
  BY <1>1, <1>3, AppendProperties, Elements DEF HttpTypeOK
<1>5. Len(tasks') <= MaxTasks
  BY <1>1, <1>4, HttpAssumption
<1> QED
  BY <1>1, <1>2, <1>4, <1>5 DEF HttpTypeOK

\* The steps of a business thread.
LEMMA WorkerTypes ==
    ASSUME HttpInv, NEW w \in Workers, WorkerStep(w)
    PROVE  HttpTypeOK' /\ Input'
<1> USE DEF HttpInv
<1>1. UNCHANGED <<isPool, kinds, stream, buf, ctx, pc, state, wire, dispatched, peerClosed>>
  BY DEF WorkerStep, TakeTask, WorkerSend, WorkerShutdown, inputVars, connVars
<1>2. Input'
  BY <1>1, InputKept
<1> DEFINE Functors == ({"send"} \X Requests) \cup {<<"shutdown", 0>>}
<1>3. /\ queue \in Seq(Functors) /\ tasks \in Seq(Requests) /\ Len(tasks) <= MaxTasks
      /\ job \in [Workers -> 0..NumRequests]
      /\ place \in [Workers -> {"idle", "handle", "shutdown"}]
  BY DEF HttpTypeOK
<1>4. NumRequests \in Nat /\ MaxTasks \in Nat /\ Len(tasks) \in Nat
  BY HttpAssumption, Elements
<1>5. /\ queue' \in Seq(Functors) /\ tasks' \in Seq(Requests) /\ Len(tasks') <= MaxTasks
      /\ job' \in [Workers -> 0..NumRequests]
      /\ place' \in [Workers -> {"idle", "handle", "shutdown"}]
  <2>1. CASE TakeTask(w)
    <3>1. /\ queue' = queue /\ tasks # <<>> /\ tasks' = Tail(tasks)
          /\ job' = [job EXCEPT ![w] = Head(tasks)] /\ place' = [place EXCEPT ![w] = "handle"]
      BY <2>1 DEF TakeTask, connVars
    <3>2. /\ tasks' \in Seq(Requests) /\ Len(tasks') = Len(tasks) - 1
          /\ Head(tasks) \in Requests
      BY <1>3, <3>1, HeadTailProperties
    <3>3. Head(tasks) \in 0..NumRequests
      BY <1>4, <3>2 DEF Requests
    <3>4. Len(tasks') <= MaxTasks
      BY <1>3, <1>4, <3>2
    <3> QED
      BY <1>3, <3>1, <3>2, <3>3, <3>4
  <2>2. CASE WorkerSend(w)
    <3>1. /\ queue' = queue \/ queue' = Append(queue, <<"send", job[w]>>)
          /\ tasks' = tasks /\ place[w] = "handle"
          /\ \/ place' = [place EXCEPT ![w] = "shutdown"] /\ job' = job
             \/ place' = [place EXCEPT ![w] = "idle"] /\ job' = [job EXCEPT ![w] = 0]
      BY <2>2 DEF WorkerSend
    <3>2. job[w] \in Requests
      <4>1. job[w] \in 1..Given
        BY <3>1 DEF Once
      <4> QED
        BY <4>1, GivenIs DEF Requests
    <3>3. <<"send", job[w]>> \in Functors
      BY <3>2
    <3>4. Append(queue, <<"send", job[w]>>) \in Seq(Functors)
      BY <1>3, <3>3, AppendProperties
    <3>5. 0 \in 0..NumRequests
      BY <1>4
    <3> QED
      BY <1>3, <3>1, <3>4, <3>5
  <2>3. CASE WorkerShutdown(w)
    <3>1. /\ queue' = queue \/ queue' = Append(queue, <<"shutdown", 0>>)
          /\ tasks' = tasks
          /\ place' = [place EXCEPT ![w] = "idle"] /\ job' = [job EXCEPT ![w] = 0]
      BY <2>3 DEF WorkerShutdown
    <3>2. <<"shutdown", 0>> \in Functors
      OBVIOUS
    <3>3. Append(queue, <<"shutdown", 0>>) \in Seq(Functors)
      BY <1>3, <3>2, AppendProperties
    <3>4. 0 \in 0..NumRequests
      BY <1>4
    <3> QED
      BY <1>3, <3>1, <3>3, <3>4
  <2> QED
    BY <2>1, <2>2, <2>3 DEF WorkerStep
<1>6. HttpTypeOK'
  BY <1>1, <1>5 DEF HttpTypeOK
<1> QED
  BY <1>2, <1>6

\* A functor and the peer.
LEMMA FunctorTypes ==
    ASSUME HttpInv, RunFunctor
    PROVE  HttpTypeOK' /\ Input'
<1> USE DEF HttpInv
<1>1. /\ queue # <<>> /\ queue' = Tail(queue)
      /\ IF Head(queue)[1] = "send"
         THEN AnswerHere(Head(queue)[2], 200, FALSE)
         ELSE state' = "disconnecting" /\ UNCHANGED wire
      /\ UNCHANGED <<isPool, kinds, stream, buf, ctx, pc, tasks, job, place, dispatched,
                     peerClosed>>
  BY DEF RunFunctor, inputVars, poolVars
<1>2. state' = "connected" => state = "connected"
  BY <1>1 DEF AnswerHere
<1>3. Input'
  BY <1>1, <1>2, InputKept
<1>4. /\ wire' \in Seq(Requests \X {200, 400, 503})
      /\ state' \in {"connected", "disconnecting", "disconnected"}
  <2>1. CASE Head(queue)[1] = "send"
    <3>1. Head(queue)[2] \in Requests
      BY <1>1, <2>1, QueueShrinks, Elements
    <3> QED
      <4>1. PICK last : last = FALSE
        OBVIOUS
      <4>2. AnswerHere(Head(queue)[2], 200, last)
        BY <1>1, <2>1, <4>1
      <4> QED
        BY <3>1, <4>2, AnswerTypes
  <2>2. CASE Head(queue)[1] # "send"
    BY <1>1, <2>2 DEF HttpTypeOK
  <2> QED
    BY <2>1, <2>2
<1>5. queue' \in Seq(({"send"} \X Requests) \cup {<<"shutdown", 0>>})
  <2>1. queue \in Seq(({"send"} \X Requests) \cup {<<"shutdown", 0>>})
    BY DEF HttpTypeOK
  <2> QED
    BY <1>1, <2>1, HeadTailProperties
<1>6. HttpTypeOK'
  BY <1>1, <1>4, <1>5 DEF HttpTypeOK
<1> QED
  BY <1>3, <1>6

LEMMA PeerCloseTypes ==
    ASSUME HttpInv, PeerClose
    PROVE  HttpTypeOK' /\ Input'
<1> USE DEF HttpInv
<1>1. /\ state' = "disconnected" /\ peerClosed' = TRUE
      /\ UNCHANGED <<isPool, kinds, stream, buf, ctx, pc, queue, wire, tasks, job, place,
                     dispatched>>
  BY DEF PeerClose, inputVars, poolVars
<1>2. Input'
  BY <1>1, InputKept
<1>3. HttpTypeOK'
  BY <1>1 DEF HttpTypeOK
<1> QED
  BY <1>2, <1>3

\* Every step keeps the invariant.
LEMMA NextKeeps == HttpInv /\ [Next]_vars => HttpInv'
<1> SUFFICES ASSUME HttpInv, [Next]_vars PROVE HttpInv'
  OBVIOUS
<1>1. ASSUME NEW n \in 1..Len(stream), Receive(n) PROVE HttpInv'
  BY <1>1, ReceiveKeeps
<1>2. CASE NoMore
  BY <1>2, NoMoreKeeps
<1>3. CASE ParsePartial
  BY <1>3, ParsePartialKeeps
<1>4. CASE ParseComplete
  BY <1>4, ParseCompleteKeeps
<1>5. CASE ParseError
  BY <1>5, ParseErrorKeeps
<1>6. CASE HandleInline
  BY <1>6, HandleInlineKeeps
<1>7. CASE Submit
  BY <1>7, SubmitTypes, SubmitKeeps DEF HttpInv
<1>8. CASE SubmitRefused
  BY <1>8, SubmitRefusedKeeps
<1>9. CASE RunFunctor
  BY <1>9, FunctorTypes, FunctorOnce, FunctorSendKeeps, FunctorShutdownKeeps DEF HttpInv
<1>10. ASSUME NEW w \in Workers, WorkerStep(w) PROVE HttpInv'
  <2>1. HttpTypeOK' /\ Input'
    BY <1>10, WorkerTypes
  <2>2. Once' /\ Answers' /\ Announced'
    BY <1>10, TakeKeeps, SendKeeps, ShutdownKeeps DEF WorkerStep
  <2> QED
    BY <2>1, <2>2 DEF HttpInv
<1>11. CASE PeerClose
  BY <1>11, PeerCloseTypes, PeerCloseKeeps DEF HttpInv
<1>12. CASE UNCHANGED vars
  <2>1. UNCHANGED <<isPool, kinds, stream, buf, ctx, pc, state, queue, tasks, job, place,
                    wire, dispatched, peerClosed>>
    BY <1>12 DEF vars
  <2>2. HttpTypeOK' /\ Input'
    BY <2>1, InputKept DEF HttpInv, HttpTypeOK
  <2>3. Given' = Given
    BY <2>1 DEF Given
  <2>4. Once' /\ Answers' /\ Announced'
    BY <2>1, <2>3, RestKept DEF HttpInv, connVars, poolVars
  <2> QED
    BY <2>2, <2>4 DEF HttpInv
<1> QED
  BY <1>1, <1>2, <1>3, <1>4, <1>5, <1>6, <1>7, <1>8, <1>9, <1>10, <1>11, <1>12
     DEF Next, LoopStep

-----------------------------------------------------------------------------
(* The theorems.                                                           *)

\* The inductive invariant holds of every connection, however long its requests
\* and however many, in whatever pieces they arrive (HttpServer::onMessage).
THEOREM HttpInvariant == Spec => []HttpInv
<1>1. Init => HttpInv
  BY InitHolds
<1>2. HttpInv /\ [Next]_vars => HttpInv'
  BY NextKeeps
<1> QED
  BY <1>1, <1>2, PTL DEF Spec

\* Types: the pool's queue stays within its threshold, and at most as many
\* requests are dispatched as the client sent.
THEOREM HttpTypeCorrect == Spec => []HttpTypeOK
<1>1. HttpInv => HttpTypeOK
  BY DEF HttpInv
<1> QED
  BY <1>1, HttpInvariant, PTL

\* Whatever the segmentation, HttpContext::parse dispatches requests once each,
\* in the order sent, with their url and body whole.
THEOREM UrlAndBodyAlwaysWhole == Spec => []UrlAndBodyWhole
<1>1. HttpInv => UrlAndBodyWhole
  BY DEF HttpInv, Input
<1> QED
  BY <1>1, HttpInvariant, PTL

\* With any number of business threads, no request is answered twice and a
\* refusal is the last response; without them responses are in order, and stop
\* at the one that closes (handleRequest, work_func, sendErrorAndClose).
THEOREM AnswersAlwaysWellFormed == Spec => []AnswersWellFormed
<1>1. HttpInv => AnswersWellFormed
  BY DEF HttpInv, Answers
<1> QED
  BY <1>1, HttpInvariant, PTL

\* The server shuts its side down only behind a response that says so, even when
\* send and shutdown of a business thread are queued one by one.
THEOREM CloseAlwaysAnnounced == Spec => []CloseIsAnnounced
<1>1. HttpInv => CloseIsAnnounced
  BY DEF HttpInv, Announced
<1> QED
  BY <1>1, HttpInvariant, PTL
=============================================================================
