-------------------------- MODULE TcpServerProofs --------------------------
(***************************************************************************)
(* Proofs about Buffer, TcpConnection and TcpServer, for every number of   *)
(* connections, loops and messages and every size of the buffers.  The     *)
(* inductive invariant is TcpServer!TcpInv.  First what the functions on   *)
(* buffers do to the bytes to be read, then what the functions on          *)
(* connections keep, then the queues of the loops, then the actions.       *)
(***************************************************************************)
EXTENDS TcpServer, SequenceTheorems, FiniteSetTheorems, TLAPS

-----------------------------------------------------------------------------
(* Buffers.                                                                *)

\* A buffer over a set of cells.
BufferOver(S, b) == b \in [cells : Seq(S), read : Nat, write : Nat] /\ IsBuffer(b)

\* The fields of a buffer, and what readable bytes are.
LEMMA BufferFields ==
    ASSUME NEW S, NEW b, BufferOver(S, b)
    PROVE  /\ b.cells \in Seq(S) /\ b.read \in Nat /\ b.write \in Nat
           /\ Len(b.cells) \in Nat /\ CheapPrepend \in Nat
           /\ CheapPrepend <= b.read /\ b.read <= b.write /\ b.write <= Len(b.cells)
           /\ \A i \in 1..Len(b.cells) : b.cells[i] \in S
           /\ ReadableBytes(b) = b.write - b.read /\ ReadableBytes(b) \in Nat
           /\ WritableBytes(b) = Len(b.cells) - b.write /\ WritableBytes(b) \in Nat
           /\ Readable(b) \in Seq(S) /\ Len(Readable(b)) = ReadableBytes(b)
           /\ \A i \in 1..ReadableBytes(b) : Readable(b)[i] = b.cells[b.read + i]
<1>1. /\ b.cells \in Seq(S) /\ b.read \in Nat /\ b.write \in Nat
      /\ CheapPrepend <= b.read /\ b.read <= b.write /\ b.write <= Len(b.cells)
  BY DEF BufferOver, IsBuffer
<1>2. Len(b.cells) \in Nat /\ CheapPrepend \in Nat
      /\ \A i \in 1..Len(b.cells) : b.cells[i] \in S
  BY <1>1, LenProperties, ElementOfSeq, BufferAssumption
<1>3. /\ ReadableBytes(b) = b.write - b.read /\ ReadableBytes(b) \in Nat
      /\ WritableBytes(b) = Len(b.cells) - b.write /\ WritableBytes(b) \in Nat
  BY <1>1, <1>2 DEF ReadableBytes, WritableBytes
<1>4. \A i \in (b.read + 1)..b.write : b.cells[i] \in S
  BY <1>1, <1>2
<1>5. /\ Readable(b) \in Seq(S)
      /\ Len(Readable(b)) = IF b.read + 1 <= b.write THEN b.write - (b.read + 1) + 1 ELSE 0
      /\ \A i \in 1..(b.write - (b.read + 1) + 1) :
            Readable(b)[i] = b.cells[(b.read + 1) + i - 1]
  <2>1. b.read + 1 \in Int /\ b.write \in Int
    BY <1>1
  <2> QED
    BY <1>4, <2>1, SubSeqProperties DEF Readable
<1>6. Len(Readable(b)) = ReadableBytes(b)
  BY <1>1, <1>3, <1>5
<1>7. \A i \in 1..ReadableBytes(b) : Readable(b)[i] = b.cells[b.read + i]
  <2> TAKE i \in 1..ReadableBytes(b)
  <2>1. i \in 1..(b.write - (b.read + 1) + 1) /\ (b.read + 1) + i - 1 = b.read + i
    BY SMTT(30), <1>1, <1>3
  <2> QED
    BY <1>5, <2>1
<1> QED
  BY <1>1, <1>2, <1>3, <1>5, <1>6, <1>7

\* Bytes that fit are stored behind those to be read.
LEMMA StoreAppends ==
    ASSUME NEW S, NEW b, BufferOver(S, b), NEW data \in Seq(S),
           Len(data) <= WritableBytes(b)
    PROVE  /\ BufferOver(S, Store(b, data))
           /\ Readable(Store(b, data)) = Readable(b) \o data
           /\ Store(b, data).write = b.write + Len(data)
           /\ Len(Store(b, data).cells) = Len(b.cells)
<1> DEFINE s == Store(b, data)
           w == b.write
           n == Len(data)
           C == [i \in 1..Len(b.cells) |-> IF i \in (w + 1)..(w + n) THEN data[i - w] ELSE b.cells[i]]
<1>1. /\ b.cells \in Seq(S) /\ b.read \in Nat /\ w \in Nat
      /\ Len(b.cells) \in Nat /\ CheapPrepend \in Nat
      /\ CheapPrepend <= b.read /\ b.read <= w /\ w <= Len(b.cells)
      /\ \A i \in 1..Len(b.cells) : b.cells[i] \in S
      /\ ReadableBytes(b) = w - b.read /\ ReadableBytes(b) \in Nat
      /\ WritableBytes(b) = Len(b.cells) - w /\ WritableBytes(b) \in Nat
      /\ Readable(b) \in Seq(S) /\ Len(Readable(b)) = ReadableBytes(b)
      /\ \A i \in 1..ReadableBytes(b) : Readable(b)[i] = b.cells[b.read + i]
  BY BufferFields
<1>2. n \in Nat /\ \A i \in 1..n : data[i] \in S
  BY LenProperties, ElementOfSeq
<1>3. b \in [cells : Seq(S), read : Nat, write : Nat]
  BY DEF BufferOver
<1>4. s = [b EXCEPT !.cells = C, !.write = w + n]
  BY DEF Store
<1>5. \A i \in 1..Len(b.cells) : C[i] \in S
  <2> TAKE i \in 1..Len(b.cells)
  <2>1. CASE i \in (w + 1)..(w + n)
    <3>1. i - w \in 1..n
      BY SMTT(30), <1>1, <1>2, <2>1
    <3> QED
      BY <1>2, <2>1, <3>1
  <2>2. CASE i \notin (w + 1)..(w + n)
    BY <1>1, <2>2
  <2> QED
    BY <2>1, <2>2
<1>6. C \in Seq(S) /\ Len(C) = Len(b.cells)
  <2>1. C \in [1..Len(b.cells) -> S]
    BY <1>5
  <2>2. C \in Seq(S)
    BY <1>1, <2>1, SeqDef
  <2>3. Len(C) \in Nat /\ DOMAIN C = 1..Len(C) /\ DOMAIN C = 1..Len(b.cells)
    BY <2>2, LenProperties
  <2> QED
    BY <1>1, <2>2, <2>3
<1>7. /\ \A i \in 1..w : C[i] = b.cells[i]
      /\ \A i \in 1..n : C[w + i] = data[i]
  <2>1. ASSUME NEW i \in 1..w PROVE C[i] = b.cells[i]
    <3>1. i \in 1..Len(b.cells) /\ i \notin (w + 1)..(w + n)
      BY <1>1, <1>2
    <3> QED
      BY <3>1
  <2>2. ASSUME NEW i \in 1..n PROVE C[w + i] = data[i]
    <3>1. w + i \in 1..Len(b.cells) /\ w + i \in (w + 1)..(w + n) /\ (w + i) - w = i
      BY SMTT(30), <1>1, <1>2
    <3> QED
      BY <3>1
  <2> QED
    BY <2>1, <2>2
<1> HIDE DEF C
<1>8. s.cells = C /\ s.read = b.read /\ s.write = w + n
      /\ s \in [cells : Seq(S), read : Nat, write : Nat]
      /\ DOMAIN s = {"cells", "read", "write"}
  <2>1. w + n \in Nat
    BY <1>1, <1>2
  <2>2. C \in Seq(S)
    BY <1>6
  <2> HIDE DEF w, n, s
  <2> QED
    BY <1>3, <1>4, <2>1, <2>2
<1> HIDE DEF s
<1>9. BufferOver(S, s)
  BY <1>1, <1>2, <1>6, <1>8 DEF BufferOver, IsBuffer
<1>10. /\ Readable(s) \in Seq(S) /\ Len(Readable(s)) = ReadableBytes(s)
       /\ ReadableBytes(s) = s.write - s.read
       /\ \A i \in 1..ReadableBytes(s) : Readable(s)[i] = s.cells[s.read + i]
  BY <1>9, BufferFields
<1>11. /\ Readable(b) \o data \in Seq(S)
       /\ Len(Readable(b) \o data) = Len(Readable(b)) + n
       /\ \A i \in 1..(Len(Readable(b)) + n) : (Readable(b) \o data)[i] =
            IF i <= Len(Readable(b)) THEN Readable(b)[i] ELSE data[i - Len(Readable(b))]
  BY ZenonT(30), <1>1, ConcatProperties
<1>12. Len(Readable(s)) = Len(Readable(b) \o data)
  <2>1. Len(Readable(s)) = (w + n) - b.read /\ Len(Readable(b)) = w - b.read
    BY <1>1, <1>8, <1>10
  <2>2. Len(Readable(b) \o data) = Len(Readable(b)) + n
    BY <1>11
  <2>3. b.read \in Nat /\ w \in Nat /\ n \in Nat
    BY <1>1, <1>2
  <2> HIDE DEF w, n, s
  <2> QED
    BY SMTT(30), <2>1, <2>2, <2>3
<1>13. ASSUME NEW i \in 1..Len(Readable(s))
       PROVE  Readable(s)[i] = (Readable(b) \o data)[i]
  <2>1. /\ i \in 1..(Len(Readable(b)) + n) /\ Len(Readable(b)) = w - b.read
        /\ Readable(s)[i] = C[b.read + i]
    BY <1>1, <1>8, <1>10, <1>11, <1>12, <1>13
  <2>2. CASE i <= w - b.read
    <3>1. b.read + i \in 1..w /\ i \in 1..ReadableBytes(b)
      BY SMTT(30), <1>1, <1>2, <2>1, <2>2
    <3>2. Readable(s)[i] = b.cells[b.read + i]
      BY <1>7, <2>1, <3>1
    <3>3. Readable(b)[i] = b.cells[b.read + i]
      BY <1>1, <3>1
    <3>4. (Readable(b) \o data)[i] = Readable(b)[i]
      BY <1>11, <2>1, <2>2
    <3> QED
      BY <3>2, <3>3, <3>4
  <2>3. CASE ~(i <= w - b.read)
    <3>1. i - (w - b.read) \in 1..n /\ w + (i - (w - b.read)) = b.read + i
      <4>1. w \in Nat /\ n \in Nat /\ b.read \in Nat /\ b.read <= w
        BY <1>1, <1>2
      <4>2. i \in 1..((w - b.read) + n)
        BY <2>1
      <4> HIDE DEF w, n
      <4> QED
        BY SMTT(30), <2>3, <4>1, <4>2
    <3> QED
      BY <1>7, <1>11, <2>1, <2>3, <3>1
  <2> QED
    BY <2>2, <2>3
<1>14. Readable(s) = Readable(b) \o data
  BY <1>10, <1>11, <1>12, <1>13, SeqEqual
<1> QED
  BY <1>6, <1>8, <1>9, <1>14 DEF s

\* Two buffers with the same cells between their indices read the same.
LEMMA SameReadable ==
    ASSUME NEW S, NEW b, NEW s, BufferOver(S, b), BufferOver(S, s),
           ReadableBytes(s) = ReadableBytes(b),
           \A i \in 1..ReadableBytes(b) : s.cells[s.read + i] = b.cells[b.read + i]
    PROVE  Readable(s) = Readable(b)
<1>1. /\ Readable(b) \in Seq(S) /\ Len(Readable(b)) = ReadableBytes(b)
      /\ \A i \in 1..ReadableBytes(b) : Readable(b)[i] = b.cells[b.read + i]
  BY BufferFields
<1>2. /\ Readable(s) \in Seq(S) /\ Len(Readable(s)) = ReadableBytes(s)
      /\ \A i \in 1..ReadableBytes(s) : Readable(s)[i] = s.cells[s.read + i]
  BY BufferFields
<1>3. \A i \in 1..Len(Readable(s)) : Readable(s)[i] = Readable(b)[i]
  BY <1>1, <1>2
<1> QED
  BY <1>1, <1>2, <1>3, SeqEqual

\* makeSpace keeps what is to be read and makes the room it is asked for.
LEMMA MakeSpaceKeeps ==
    ASSUME NEW S, Blank \in S, NEW b, BufferOver(S, b),
           NEW len \in Nat, len > WritableBytes(b)
    PROVE  /\ BufferOver(S, MakeSpace(b, len))
           /\ Readable(MakeSpace(b, len)) = Readable(b)
           /\ WritableBytes(MakeSpace(b, len)) >= len
<1> DEFINE r == b.read
           w == b.write
           N == Len(b.cells)
           R == ReadableBytes(b)
           W == WritableBytes(b)
           P == CheapPrepend
<1>1. /\ b.cells \in Seq(S) /\ \A i \in 1..N : b.cells[i] \in S
  BY BufferFields
<1>2. /\ r \in Nat /\ w \in Nat /\ N \in Nat /\ P \in Nat /\ P <= r /\ r <= w /\ w <= N
      /\ R = w - r /\ R \in Nat /\ W = N - w /\ W \in Nat
  BY BufferFields
<1>3. b \in [cells : Seq(S), read : Nat, write : Nat]
  BY DEF BufferOver
<1>4. PrependBytes(b) = r
  BY DEF PrependBytes
<1>5. CASE W + r < len + P
  <2> DEFINE X == Blanks(len - W)
             C == b.cells \o X
             s == [b EXCEPT !.cells = C]
  <2>1. MakeSpace(b, len) = s
    BY <1>4, <1>5 DEF MakeSpace
  <2>2. len - W \in Nat
    BY <1>2
  <2>3. X \in Seq(S) /\ Len(X) = len - W
    <3>1. X \in [1..(len - W) -> S]
      BY DEF Blanks
    <3>2. X \in Seq(S)
      BY <2>2, <3>1, SeqDef
    <3>3. Len(X) \in Nat /\ DOMAIN X = 1..Len(X) /\ DOMAIN X = 1..(len - W)
      BY <3>1, <3>2, LenProperties
    <3> QED
      BY <2>2, <3>2, <3>3
  <2> HIDE DEF X
  <2>4. C \in Seq(S) /\ Len(C) = N + (len - W) /\ \A i \in 1..N : C[i] = b.cells[i]
    <3>1. /\ C \in Seq(S) /\ Len(C) = N + Len(X)
          /\ \A i \in 1..(N + Len(X)) : C[i] = IF i <= N THEN b.cells[i] ELSE X[i - N]
      BY <1>1, <2>3, ConcatProperties
    <3>2. \A i \in 1..N : i \in 1..(N + Len(X)) /\ i <= N
      BY <1>2, <2>2, <2>3
    <3> QED
      BY <2>3, <3>1, <3>2
  <2> HIDE DEF C
  <2>5. /\ s.cells = C /\ s.read = r /\ s.write = w /\ DOMAIN s = {"cells", "read", "write"}
        /\ s \in [cells : Seq(S), read : Nat, write : Nat]
    BY <1>3, <2>4
  <2> HIDE DEF s
  <2>6. w <= Len(C) /\ Len(C) - w >= len
    <3> HIDE DEF w, N, W
    <3> QED
      BY <1>2, <2>4
  <2>7. BufferOver(S, s) /\ WritableBytes(s) >= len /\ ReadableBytes(s) = R
    BY <1>2, <2>5, <2>6 DEF BufferOver, IsBuffer, WritableBytes, ReadableBytes
  <2>8. \A i \in 1..R : s.cells[s.read + i] = b.cells[b.read + i]
    <3>1. \A i \in 1..R : r + i \in 1..N
      BY SMTT(30), <1>2
    <3> QED
      BY <2>4, <2>5, <3>1
  <2> QED
    BY <2>1, <2>7, <2>8, SameReadable
<1>6. CASE ~(W + r < len + P)
  <2> DEFINE C == [i \in 1..N |-> IF i \in (P + 1)..(P + R) THEN b.cells[i - P + r]
                                  ELSE b.cells[i]]
             s == [cells |-> C, read |-> P, write |-> P + R]
  <2>1. MakeSpace(b, len) = s
    BY <1>4, <1>6 DEF MakeSpace
  <2>2. ASSUME NEW i \in 1..N PROVE C[i] \in S
    <3>1. CASE i \in (P + 1)..(P + R)
      <4>1. i - P + r \in 1..N
        <5> HIDE DEF r, w, N, R, W, P, C
        <5> QED
          BY <1>2, <3>1
      <4> QED
        BY <1>1, <3>1, <4>1
    <3>2. CASE i \notin (P + 1)..(P + R)
      BY <1>1, <3>2
    <3> QED
      BY <3>1, <3>2
  <2>3. C \in Seq(S) /\ Len(C) = N
    <3>1. C \in [1..N -> S]
      BY <2>2
    <3>2. C \in Seq(S)
      BY ZenonT(30), <1>2, <3>1, SeqDef
    <3>3. Len(C) \in Nat /\ DOMAIN C = 1..Len(C) /\ DOMAIN C = 1..N
      BY <3>2, LenProperties
    <3> QED
      BY <1>2, <3>2, <3>3
  <2>4. ASSUME NEW i \in 1..R PROVE C[P + i] = b.cells[r + i]
    <3>1. P + i \in 1..N /\ P + i \in (P + 1)..(P + R) /\ (P + i) - P + r = r + i
      BY SMTT(30), <1>2
    <3> QED
      BY <3>1
  <2> HIDE DEF C
  <2>5. P + R \in Nat /\ P <= P + R /\ P + R <= N /\ N - (P + R) >= len /\ (P + R) - P = R
    <3> HIDE DEF r, w, N, R, W, P
    <3> QED
      BY <1>2, <1>6
  <2>6. /\ s.cells = C /\ s.read = P /\ s.write = P + R /\ DOMAIN s = {"cells", "read", "write"}
        /\ s \in [cells : Seq(S), read : Nat, write : Nat]
    BY <1>2, <2>3, <2>5
  <2> HIDE DEF s
  <2>7. BufferOver(S, s) /\ WritableBytes(s) >= len /\ ReadableBytes(s) = R
    BY <1>2, <2>3, <2>5, <2>6 DEF BufferOver, IsBuffer, WritableBytes, ReadableBytes
  <2>8. \A i \in 1..R : s.cells[s.read + i] = b.cells[b.read + i]
    BY <2>4, <2>6
  <2> QED
    BY <2>1, <2>7, <2>8, SameReadable
<1> QED
  BY <1>5, <1>6

\* append puts the bytes behind those to be read, whatever the room.
LEMMA AppendDataAppends ==
    ASSUME NEW S, Blank \in S, NEW b, BufferOver(S, b), NEW data \in Seq(S)
    PROVE  /\ BufferOver(S, AppendData(b, data))
           /\ Readable(AppendData(b, data)) = Readable(b) \o data
<1> DEFINE n == Len(data)
           e == EnsureWritableBytes(b, n)
<1>1. n \in Nat
  BY LenProperties
<1>2. WritableBytes(b) \in Nat
  BY BufferFields
<1>3. BufferOver(S, e) /\ Readable(e) = Readable(b) /\ n <= WritableBytes(e)
  <2>1. CASE n > WritableBytes(b)
    <3>1. e = MakeSpace(b, n)
      BY <2>1 DEF EnsureWritableBytes
    <3>2. /\ BufferOver(S, MakeSpace(b, n)) /\ Readable(MakeSpace(b, n)) = Readable(b)
          /\ WritableBytes(MakeSpace(b, n)) >= n
      BY <1>1, <2>1, MakeSpaceKeeps
    <3>3. WritableBytes(MakeSpace(b, n)) \in Nat
      BY <3>2, BufferFields
    <3> HIDE DEF n, e
    <3> QED
      BY <1>1, <3>1, <3>2, <3>3
  <2>2. CASE ~(n > WritableBytes(b))
    <3>1. e = b
      BY <2>2 DEF EnsureWritableBytes
    <3> HIDE DEF n, e
    <3> QED
      BY <1>1, <1>2, <2>2, <3>1
  <2> QED
    BY <2>1, <2>2
<1>4. AppendData(b, data) = Store(e, data)
  BY DEF AppendData
<1> HIDE DEF e
<1>5. BufferOver(S, Store(e, data)) /\ Readable(Store(e, data)) = Readable(e) \o data
  BY <1>3, StoreAppends
<1> QED
  BY <1>3, <1>4, <1>5

\* reset(n) drops the first n of the bytes to be read.
LEMMA ResetDrops ==
    ASSUME NEW S, NEW b, BufferOver(S, b), NEW n \in Nat, n <= ReadableBytes(b)
    PROVE  /\ BufferOver(S, Reset(b, n))
           /\ ReadableBytes(Reset(b, n)) = ReadableBytes(b) - n
           /\ SubSeq(Readable(b), 1, n) \o Readable(Reset(b, n)) = Readable(b)
<1> DEFINE r == b.read
           w == b.write
           R == ReadableBytes(b)
           A == Readable(b)
           s == Reset(b, n)
<1>1. /\ r \in Nat /\ w \in Nat /\ Len(b.cells) \in Nat /\ CheapPrepend \in Nat
      /\ CheapPrepend <= r /\ r <= w /\ w <= Len(b.cells) /\ R = w - r /\ R \in Nat
  BY BufferFields
<1>2. /\ A \in Seq(S) /\ Len(A) = R /\ \A i \in 1..R : A[i] = b.cells[r + i]
  BY BufferFields
<1>0. n <= R
  OBVIOUS
<1>3. b \in [cells : Seq(S), read : Nat, write : Nat]
  BY DEF BufferOver
<1>4. BufferOver(S, s) /\ ReadableBytes(s) = R - n
      /\ \A i \in 1..(R - n) : s.cells[s.read + i] = b.cells[r + n + i]
  <2>1. CASE n < R
    <3>1. s = [b EXCEPT !.read = r + n]
      BY <2>1 DEF Reset
    <3>2. r + n \in Nat /\ CheapPrepend <= r + n /\ r + n <= w /\ w - (r + n) = R - n
      <4> HIDE DEF r, w, R
      <4> QED
        BY <1>1, <2>1
    <3>3. /\ s.cells = b.cells /\ s.read = r + n /\ s.write = w
          /\ s \in [cells : Seq(S), read : Nat, write : Nat]
          /\ DOMAIN s = {"cells", "read", "write"}
      <4> HIDE DEF s
      <4> QED
        BY <1>3, <3>1, <3>2
    <3> HIDE DEF s
    <3> QED
      BY <1>1, <3>2, <3>3 DEF BufferOver, IsBuffer, ReadableBytes
  <2>2. CASE ~(n < R)
    <3>1. s = [b EXCEPT !.read = CheapPrepend, !.write = CheapPrepend]
      BY <2>2 DEF Reset, ResetAll
    <3>2. /\ s.cells = b.cells /\ s.read = CheapPrepend /\ s.write = CheapPrepend
          /\ s \in [cells : Seq(S), read : Nat, write : Nat]
          /\ DOMAIN s = {"cells", "read", "write"}
      <4> HIDE DEF s
      <4> QED
        BY <1>1, <1>3, <3>1
    <3>3. R - n = 0 /\ CheapPrepend <= Len(b.cells) /\ CheapPrepend - CheapPrepend = 0
      <4> HIDE DEF r, w, R
      <4> QED
        BY <1>0, <1>1, <2>2
    <3> HIDE DEF s, R
    <3> QED
      BY <1>1, <3>2, <3>3 DEF BufferOver, IsBuffer, ReadableBytes
  <2> QED
    BY <2>1, <2>2
<1> HIDE DEF s
<1>5. /\ Readable(s) \in Seq(S) /\ Len(Readable(s)) = R - n
      /\ \A i \in 1..(R - n) : Readable(s)[i] = s.cells[s.read + i]
  BY <1>4, BufferFields
<1>6. \A i \in 1..(R - n) : Readable(s)[i] = A[n + i]
  <2> TAKE i \in 1..(R - n)
  <2>1. n + i \in 1..R /\ r + (n + i) = r + n + i
    <3> HIDE DEF r, w, R
    <3> QED
      BY <1>1
  <2> QED
    BY <1>2, <1>4, <1>5, <2>1
<1> HIDE DEF A, R
<1>7. /\ SubSeq(A, 1, n) \in Seq(S) /\ Len(SubSeq(A, 1, n)) = n
      /\ \A i \in 1..n : SubSeq(A, 1, n)[i] = A[i]
  <2>1. \A i \in 1..n : A[i] \in S
    <3>1. \A i \in 1..n : i \in 1..Len(A)
      BY <1>0, <1>1, <1>2
    <3> QED
      BY <1>2, <3>1, ElementOfSeq
  <2>2. /\ SubSeq(A, 1, n) \in Seq(S) /\ Len(SubSeq(A, 1, n)) = IF 1 <= n THEN n - 1 + 1 ELSE 0
        /\ \A i \in 1..(n - 1 + 1) : SubSeq(A, 1, n)[i] = A[1 + i - 1]
    <3>1. 1 \in Int /\ n \in Int
      OBVIOUS
    <3> QED
      BY <2>1, <3>1, SubSeqProperties
  <2>3. \A i \in 1..n : i \in 1..(n - 1 + 1) /\ 1 + i - 1 = i
    OBVIOUS
  <2>4. Len(SubSeq(A, 1, n)) = n
    BY <2>2
  <2> QED
    BY <2>2, <2>3, <2>4
<1> DEFINE B == SubSeq(A, 1, n)
           D == Readable(s)
<1> HIDE DEF B, D
<1>8. /\ B \o D \in Seq(S) /\ Len(B \o D) = Len(B) + Len(D)
      /\ \A i \in 1..(Len(B) + Len(D)) : (B \o D)[i] = IF i <= Len(B) THEN B[i] ELSE D[i - Len(B)]
  <2>1. B \in Seq(S) /\ D \in Seq(S)
    BY <1>5, <1>7 DEF B, D
  <2> QED
    BY <2>1, ConcatProperties
<1>9. Len(B) = n /\ Len(D) = R - n /\ R \in Nat /\ n + (R - n) = R
  BY <1>1, <1>5, <1>7 DEF B, D
<1>10. ASSUME NEW i \in 1..R PROVE (B \o D)[i] = A[i]
  <2>1. i \in 1..(Len(B) + Len(D))
    BY <1>9
  <2>2. CASE i <= n
    <3>1. i \in 1..n
      BY <2>2
    <3> QED
      BY <1>7, <1>8, <1>9, <2>1, <2>2, <3>1 DEF B
  <2>3. CASE ~(i <= n)
    <3>1. i - n \in 1..(R - n) /\ n + (i - n) = i
      BY <1>9, <2>3
    <3> QED
      BY <1>6, <1>8, <1>9, <2>1, <2>3, <3>1 DEF D
  <2> QED
    BY <2>2, <2>3
<1>11. B \o D = A
  <2>1. Len(B \o D) = R /\ Len(A) = R
    BY <1>2, <1>8, <1>9
  <2> QED
    BY <1>2, <1>8, <1>10, <2>1, SeqEqual
<1> QED
  BY <1>4, <1>11 DEF B, D, A, R, s

\* A sequence in two parts.
LEMMA SplitSeq ==
    ASSUME NEW S, NEW s \in Seq(S), NEW n \in 0..Len(s)
    PROVE  /\ SubSeq(s, 1, n) \in Seq(S) /\ SubSeq(s, n + 1, Len(s)) \in Seq(S)
           /\ Len(SubSeq(s, 1, n)) = n /\ Len(SubSeq(s, n + 1, Len(s))) = Len(s) - n
           /\ SubSeq(s, 1, n) \o SubSeq(s, n + 1, Len(s)) = s
<1>1. Len(s) \in Nat /\ n \in Nat /\ n <= Len(s)
  BY LenProperties
<1>2. \A i \in 1..Len(s) : s[i] \in S
  BY ElementOfSeq
<1>3. SubSeq(s, 1, n) \in Seq(S) /\ Len(SubSeq(s, 1, n)) = n
  <2>1. 1 \in Int /\ n \in Int /\ \A i \in 1..n : s[i] \in S
    BY <1>1, <1>2
  <2>2. SubSeq(s, 1, n) \in Seq(S) /\ Len(SubSeq(s, 1, n)) = IF 1 <= n THEN n - 1 + 1 ELSE 0
    BY <2>1, SubSeqProperties
  <2> QED
    BY <1>1, <2>2
<1>4. /\ SubSeq(s, n + 1, Len(s)) \in Seq(S)
      /\ Len(SubSeq(s, n + 1, Len(s))) = Len(s) - n
  <2> DEFINE t == SubSeq(s, n + 1, Len(s))
  <2>1. n + 1 \in Int /\ Len(s) \in Int /\ \A i \in (n + 1)..Len(s) : s[i] \in S
    BY <1>1, <1>2
  <2>2. t \in Seq(S) /\ Len(t) = IF n + 1 <= Len(s) THEN Len(s) - (n + 1) + 1 ELSE 0
    BY <2>1, SubSeqProperties
  <2> HIDE DEF t
  <2>3. Len(t) = Len(s) - n
    BY <1>1, <2>2
  <2> QED
    BY <2>2, <2>3 DEF t
<1>5. SubSeq(s, 1, n) \o SubSeq(s, n + 1, Len(s)) = s
  <2>1. 1 \in 1..(Len(s) + 1) /\ n \in (1 - 1)..Len(s) /\ Len(s) \in n..Len(s)
    BY <1>1
  <2>2. SubSeq(s, 1, n) \o SubSeq(s, n + 1, Len(s)) = SubSeq(s, 1, Len(s))
    BY <2>1, ConcatAdjacentSubSeq
  <2> QED
    BY <2>2, SubSeqFull
<1> QED
  BY <1>3, <1>4, <1>5

\* readFd puts all it read behind the bytes to be read, also what came in its
\* second vector.
LEMMA ReadFdAppends ==
    ASSUME NEW S, Blank \in S, NEW b, BufferOver(S, b), NEW data \in Seq(S)
    PROVE  /\ BufferOver(S, ReadFd(b, data))
           /\ Readable(ReadFd(b, data)) = Readable(b) \o data
<1> DEFINE n == WritableBytes(b)
           x == SubSeq(data, 1, n)
           y == SubSeq(data, n + 1, Len(data))
<1>1. n \in Nat /\ Len(data) \in Nat /\ Readable(b) \in Seq(S)
  BY BufferFields, LenProperties
<1>2. CASE Len(data) <= n
  <2>1. ReadFd(b, data) = Store(b, data)
    BY <1>2 DEF ReadFd
  <2> QED
    BY <1>2, <2>1, StoreAppends
<1>3. CASE ~(Len(data) <= n)
  <2>1. ReadFd(b, data) = AppendData(Store(b, x), y)
    BY <1>3 DEF ReadFd
  <2>2. n \in 0..Len(data)
    BY <1>1, <1>3
  <2>3. x \in Seq(S) /\ y \in Seq(S) /\ Len(x) = n /\ x \o y = data
    BY <2>2, SplitSeq
  <2> HIDE DEF x, y
  <2>4. BufferOver(S, Store(b, x)) /\ Readable(Store(b, x)) = Readable(b) \o x
    <3>1. Len(x) <= WritableBytes(b)
      BY <1>1, <2>3
    <3> QED
      BY <2>3, <3>1, StoreAppends
  <2>5. /\ BufferOver(S, AppendData(Store(b, x), y))
        /\ Readable(AppendData(Store(b, x), y)) = (Readable(b) \o x) \o y
    BY <2>3, <2>4, AppendDataAppends
  <2>6. (Readable(b) \o x) \o y = Readable(b) \o data
    <3>1. Readable(b) \in Seq(S) /\ x \in Seq(S) /\ y \in Seq(S)
      BY <1>1, <2>3
    <3>2. (Readable(b) \o x) \o y = Readable(b) \o (x \o y)
      BY SMTT(30), <3>1, ConcatAssociative
    <3> QED
      BY <2>3, <3>2
  <2> QED
    BY <2>1, <2>5, <2>6
<1> QED
  BY <1>2, <1>3

\* What follows some bytes in a sequence of bytes is bytes.
LEMMA SuffixOver ==
    ASSUME NEW S, NEW T, S \subseteq T, NEW s \in Seq(S), NEW t \in Seq(T), s \o t \in Seq(S)
    PROVE  t \in Seq(S)
<1>1. s \in Seq(T)
  BY SeqMonotonic
<1>2. /\ Len(s \o t) = Len(s) + Len(t)
      /\ \A i \in 1..(Len(s) + Len(t)) : (s \o t)[i] = IF i <= Len(s) THEN s[i] ELSE t[i - Len(s)]
  BY <1>1, ConcatProperties
<1>3. Len(s) \in Nat /\ Len(t) \in Nat /\ t \in [1..Len(t) -> T]
  BY LenProperties
<1>4. ASSUME NEW i \in 1..Len(t) PROVE t[i] \in S
  <2>1. /\ Len(s) + i \in 1..(Len(s) + Len(t)) /\ ~(Len(s) + i <= Len(s))
        /\ (Len(s) + i) - Len(s) = i
    BY <1>3
  <2>2. (s \o t)[Len(s) + i] = t[i]
    BY <1>2, <2>1
  <2>3. (s \o t)[Len(s) + i] \in S
    BY <1>2, <2>1, ElementOfSeq
  <2> QED
    BY <2>2, <2>3
<1>5. t \in [1..Len(t) -> S]
  BY <1>3, <1>4
<1> QED
  BY <1>3, <1>5, SeqDef

-----------------------------------------------------------------------------
(* Connections.                                                            *)

\* The cells of a connection's buffers.
Cells == Bytes \cup {Blank}

\* Two states of a connection at the same stage.
SameStage(k, s) ==
    /\ Fresh(k) <=> Fresh(s)
    /\ Closed(k) <=> Closed(s)
    /\ Removed(k) <=> Removed(s)
    /\ s.ups = k.ups /\ s.downs = k.downs

\* What Sound says of the buffers and the histories.
LEMMA SoundParts ==
    ASSUME NEW k, Sound(k)
    PROVE  /\ k \in Connection /\ BufferOver(Cells, k.out) /\ BufferOver(Cells, k.in)
           /\ k.wire \in Seq(Bytes) /\ k.taken \in Seq(Bytes) /\ k.used \in Seq(Bytes)
           /\ k.wire \in Seq(Cells) /\ k.taken \in Seq(Cells) /\ k.used \in Seq(Cells)
           /\ k.wire \o Readable(k.out) = k.taken
           /\ Readable(k.out) \in Seq(Bytes) /\ ReadableBytes(k.out) \in Nat
           /\ Len(Readable(k.out)) = ReadableBytes(k.out)
           /\ Blank \in Cells /\ Bytes \subseteq Cells
<1>1. k \in Connection /\ IsBuffer(k.out) /\ IsBuffer(k.in)
      /\ k.wire \o Readable(k.out) = k.taken
  BY DEF Sound
<1>2. k.out \in Buffers /\ k.in \in Buffers
      /\ k.wire \in Seq(Bytes) /\ k.taken \in Seq(Bytes) /\ k.used \in Seq(Bytes)
  BY <1>1 DEF Connection
<1>3. BufferOver(Cells, k.out) /\ BufferOver(Cells, k.in)
  BY <1>1, <1>2 DEF BufferOver, Buffers, Cells
<1>4. Blank \in Cells /\ Bytes \subseteq Cells
  BY DEF Cells
<1>5. k.wire \in Seq(Cells) /\ k.taken \in Seq(Cells) /\ k.used \in Seq(Cells)
  BY <1>2, <1>4, SeqMonotonic
<1>6. /\ Readable(k.out) \in Seq(Cells) /\ ReadableBytes(k.out) \in Nat
      /\ Len(Readable(k.out)) = ReadableBytes(k.out)
  BY <1>3, BufferFields
<1>7. Readable(k.out) \in Seq(Bytes)
  <2>1. k.wire \o Readable(k.out) \in Seq(Bytes)
    BY <1>1, <1>2
  <2>2. k.wire \in Seq(Bytes) /\ Readable(k.out) \in Seq(Cells) /\ Bytes \subseteq Cells
    BY <1>2, <1>4, <1>6
  <2> QED
    BY <2>1, <2>2, SuffixOver
<1> QED
  BY <1>1, <1>2, <1>3, <1>4, <1>5, <1>6, <1>7

\* A connection is at one stage only, and an open one is live.
LEMMA OneStage ==
    ASSUME NEW k, Sound(k)
    PROVE  /\ Fresh(k) => k.ups = 0 /\ k.downs = 0 /\ ~Live(k) /\ ~Closed(k) /\ ~Removed(k)
           /\ Live(k) => k.ups = 1 /\ k.downs = 0 /\ ~Closed(k) /\ ~Removed(k) /\ ~Fresh(k)
           /\ Closed(k) => k.ups = 1 /\ k.downs = 1 /\ ~Removed(k) /\ ~Fresh(k) /\ ~Live(k)
           /\ Removed(k) => k.ups = 1 /\ ~Fresh(k) /\ ~Live(k) /\ ~Closed(k)
           /\ k.ups = 1 => ~Fresh(k)
           /\ k.state = "connected" => Live(k)
           /\ k.index = "added" => Live(k)
           /\ Fresh(k) \/ Live(k) \/ Closed(k) \/ Removed(k)
  BY DEF Sound, Fresh, Live, Closed, Removed

\* A connection as it is made.
LEMMA NewIsSound == Sound(NewConnection) /\ Fresh(NewConnection)
                    /\ Readable(NewBuffer) = <<>> /\ ReadableBytes(NewBuffer) = 0
<1> DEFINE n == CheapPrepend + InitSize
<1>1. CheapPrepend \in Nat /\ InitSize \in Nat /\ n \in Nat
  BY BufferAssumption
<1>2. Blanks(n) \in Seq(Cells) /\ Len(Blanks(n)) = n
  <2>1. Blanks(n) \in [1..n -> Cells]
    BY DEF Blanks, Cells
  <2>2. Blanks(n) \in Seq(Cells)
    BY <1>1, <2>1, SeqDef
  <2>3. /\ Len(Blanks(n)) \in Nat /\ DOMAIN Blanks(n) = 1..Len(Blanks(n))
        /\ DOMAIN Blanks(n) = 1..n
    BY <2>1, <2>2, LenProperties
  <2> QED
    BY <1>1, <2>2, <2>3
<1>3. NewBuffer = [cells |-> Blanks(n), read |-> CheapPrepend, write |-> CheapPrepend]
  BY DEF NewBuffer
<1>4. CheapPrepend <= Len(Blanks(n))
  BY <1>1, <1>2
<1> HIDE DEF n
<1>5. /\ NewBuffer \in [cells : Seq(Cells), read : Nat, write : Nat]
      /\ NewBuffer.cells = Blanks(n) /\ NewBuffer.read = CheapPrepend
      /\ NewBuffer.write = CheapPrepend /\ DOMAIN NewBuffer = {"cells", "read", "write"}
  BY <1>1, <1>2, <1>3
<1>6. NewBuffer \in Buffers
  BY <1>5 DEF Buffers, Cells
<1>7. IsBuffer(NewBuffer) /\ ReadableBytes(NewBuffer) = 0
  BY <1>1, <1>4, <1>5 DEF IsBuffer, ReadableBytes
<1>8. Readable(NewBuffer) = <<>>
  <2>1. CheapPrepend + 1 \in Int /\ CheapPrepend \in Int /\ CheapPrepend < CheapPrepend + 1
    BY <1>1
  <2> QED
    BY <1>5, <2>1, SubSeqEmpty DEF Readable
<1>9. <<>> \in Seq(Bytes)
  BY EmptySeq
<1>10. NewConnection \in Connection
  BY <1>6, <1>9 DEF NewConnection, Connection, Indices
<1>11. Fresh(NewConnection)
  BY DEF Fresh, NewConnection
<1>12. /\ NewConnection.out = NewBuffer /\ NewConnection.in = NewBuffer
       /\ NewConnection.wire = <<>> /\ NewConnection.taken = <<>>
       /\ NewConnection.writing = FALSE /\ NewConnection.shutWrite = FALSE
  BY DEF NewConnection
<1>13. <<>> \o <<>> = <<>>
  BY <1>9, ConcatEmptySeq
<1> QED
  BY <1>7, <1>8, <1>10, <1>11, <1>12, <1>13 DEF Sound

\* connectEstablished.
LEMMA EstablishedIsLive ==
    ASSUME NEW k, Sound(k), Fresh(k)
    PROVE  LET s == ConnectEstablished(k) IN
             Sound(s) /\ Live(s) /\ s.in = k.in /\ s.used = k.used
<1> DEFINE a == [k EXCEPT !.state = "connected"]
           e == [a EXCEPT !.reading = TRUE]
           u == [e EXCEPT !.index = "added"]
           s == [u EXCEPT !.ups = k.ups + 1]
<1>1. k \in Connection /\ k.ups = 0 /\ k.downs = 0 /\ k.index = "new"
      /\ k.shutWrite = FALSE /\ k.writing = FALSE
  BY DEF Sound, Fresh, Connection
<1>2. e.index = "new"
  BY <1>1 DEF Connection
<1>3. ConnectEstablished(k) = s
  BY <1>2 DEF ConnectEstablished, EnableReading, UpdateChannel
<1>4. u \in Connection
  BY <1>1 DEF Connection, Indices
<1>5. s \in Connection
  <2>1. k.ups + 1 \in 0..1
    BY <1>1
  <2> HIDE DEF u
  <2> QED
    BY <1>4, <2>1 DEF Connection
<1>6. /\ s.state = "connected" /\ s.index = "added" /\ s.reading = TRUE /\ s.ups = k.ups + 1
      /\ s.downs = k.downs /\ s.writing = k.writing /\ s.shutWrite = k.shutWrite
      /\ s.out = k.out /\ s.in = k.in /\ s.wire = k.wire /\ s.taken = k.taken
      /\ s.used = k.used
  BY <1>1 DEF Connection
<1> HIDE DEF s
<1>7. Live(s)
  BY <1>1, <1>6 DEF Live
<1>8. Sound(s)
  BY <1>1, <1>5, <1>6, <1>7 DEF Sound
<1> QED
  BY <1>3, <1>6, <1>7, <1>8

\* handleClose.
LEMMA CloseIsClosed ==
    ASSUME NEW k, Sound(k), Live(k)
    PROVE  LET s == HandleClose(k) IN
             /\ Sound(s) /\ Closed(s) /\ s.in = k.in /\ s.used = k.used
             /\ s.state = "disconnected"
<1> DEFINE a == [k EXCEPT !.state = "disconnected"]
           e == [a EXCEPT !.reading = FALSE, !.writing = FALSE]
           u == [e EXCEPT !.index = "deleted"]
           s == [u EXCEPT !.downs = k.downs + 1]
<1>1. k \in Connection /\ k.ups = 1 /\ k.downs = 0 /\ k.index = "added"
  BY DEF Sound, Live
<1>2. e.index = "added" /\ e.reading = FALSE /\ e.writing = FALSE
  BY <1>1 DEF Connection
<1>3. HandleClose(k) = s
  BY <1>2 DEF HandleClose, DisableAll, UpdateChannel
<1>4. u \in Connection
  BY ZenonT(30), <1>1 DEF Connection, Indices
<1>5. s \in Connection
  <2>1. k.downs + 1 \in 0..1
    BY <1>1
  <2> HIDE DEF u
  <2> QED
    BY <1>4, <2>1 DEF Connection
<1>6. /\ s.state = "disconnected" /\ s.index = "deleted" /\ s.reading = FALSE
      /\ s.writing = FALSE /\ s.ups = k.ups /\ s.downs = k.downs + 1
      /\ s.out = k.out /\ s.in = k.in /\ s.wire = k.wire /\ s.taken = k.taken
      /\ s.used = k.used
  BY <1>1 DEF Connection
<1> HIDE DEF s
<1>7. Closed(s)
  BY <1>1, <1>6 DEF Closed
<1>8. Sound(s)
  <2>1. s.downs # 0
    BY <1>1, <1>6
  <2>2. IsBuffer(s.out) /\ IsBuffer(s.in) /\ s.wire \o Readable(s.out) = s.taken
    BY <1>6 DEF Sound
  <2> QED
    BY <1>5, <1>7, <2>1, <2>2 DEF Sound
<1> QED
  BY <1>3, <1>6, <1>7, <1>8

\* connectDestroyed.
LEMMA DestroyedIsRemoved ==
    ASSUME NEW k, Sound(k), Live(k) \/ Closed(k)
    PROVE  LET s == ConnectDestroyed(k) IN
             /\ Sound(s) /\ Removed(s) /\ s.in = k.in /\ s.used = k.used
             /\ s.downs = 0 => k.downs = 0 /\ s.state = "disconnecting"
             /\ CanRemove(k)
<1>1. CanRemove(k)
  BY DEF CanRemove, Live, Closed
<1>2. ASSUME NEW q, Sound(q), Closed(q) \/ (Live(q) /\ q.state = "disconnecting")
      PROVE  LET s == RemoveChannel(q) IN
               /\ Sound(s) /\ Removed(s) /\ s.in = q.in /\ s.used = q.used
               /\ s.downs = q.downs /\ s.state = q.state
  <2> DEFINE s == [q EXCEPT !.index = "new"]
  <2>1. q \in Connection
    BY <1>2 DEF Sound
  <2>2. s \in Connection
    BY <2>1 DEF Connection, Indices
  <2>3. /\ s.state = q.state /\ s.index = "new" /\ s.reading = q.reading
        /\ s.writing = q.writing /\ s.shutWrite = q.shutWrite /\ s.ups = q.ups
        /\ s.downs = q.downs /\ s.out = q.out /\ s.in = q.in /\ s.wire = q.wire
        /\ s.taken = q.taken /\ s.used = q.used
    BY <2>1 DEF Connection
  <2> HIDE DEF s
  <2>4. Removed(s)
    BY <1>2, <2>3 DEF Removed, Closed, Live
  <2>5. Sound(s)
    BY <1>2, <2>2, <2>3, <2>4 DEF Sound
  <2> QED
    BY <2>3, <2>4, <2>5 DEF RemoveChannel, s
<1>3. CASE k.state = "connected"
  <2> DEFINE h == HandleClose(k)
  <2>1. Live(k)
    BY <1>3, OneStage
  <2>2. /\ Sound(h) /\ Closed(h) /\ h.in = k.in /\ h.used = k.used
        /\ h.state = "disconnected"
    BY <2>1, CloseIsClosed
  <2>3. ConnectDestroyed(k) = RemoveChannel(h) /\ h.downs # 0
    BY <1>3, <2>2 DEF ConnectDestroyed, Closed
  <2> HIDE DEF h
  <2> QED
    BY <1>1, <1>2, <2>2, <2>3
<1>4. CASE k.state # "connected"
  <2>1. ConnectDestroyed(k) = RemoveChannel(k)
    BY <1>4 DEF ConnectDestroyed
  <2>2. Closed(k) \/ (Live(k) /\ k.state = "disconnecting")
    BY <1>4 DEF Live
  <2>3. k.downs = 0 => k.state = "disconnecting"
    BY <2>2 DEF Closed
  <2> QED
    BY <1>1, <1>2, <2>1, <2>2, <2>3
<1> QED
  BY <1>3, <1>4

\* shutdownInLoop, at any stage past the first.
LEMMA ShutdownKeeps ==
    ASSUME NEW k, Sound(k), k.ups = 1
    PROVE  LET s == ShutdownInLoop(k) IN
             Sound(s) /\ SameStage(k, s) /\ s.in = k.in /\ s.used = k.used
<1> DEFINE x == k.shutWrite \/ ~k.writing
           s == [k EXCEPT !.state = "disconnecting", !.shutWrite = x]
<1>1. k \in Connection /\ ~Fresh(k)
  BY DEF Sound, Fresh
<1>2. s \in Connection
  BY <1>1 DEF Connection
<1>3. /\ s.state = "disconnecting" /\ s.index = k.index /\ s.reading = k.reading
      /\ s.writing = k.writing /\ s.shutWrite = x /\ s.ups = k.ups
      /\ s.downs = k.downs /\ s.out = k.out /\ s.in = k.in /\ s.wire = k.wire
      /\ s.taken = k.taken /\ s.used = k.used
  BY <1>1 DEF Connection
<1> HIDE DEF s
<1>4. Live(k) \/ Closed(k) \/ Removed(k)
  BY <1>1 DEF Sound
<1>5. /\ ~Fresh(s)
      /\ Live(k) => Live(s) /\ ~Closed(s) /\ ~Removed(s)
      /\ Closed(k) => Closed(s) /\ ~Removed(s)
      /\ Removed(k) => Removed(s) /\ ~Closed(s)
  BY <1>3 DEF Fresh, Live, Closed, Removed
<1>6. SameStage(k, s)
  <2>1. /\ Live(k) => ~Closed(k) /\ ~Removed(k)
        /\ Closed(k) => ~Removed(k)
    BY OneStage
  <2> QED
    BY <1>1, <1>3, <1>4, <1>5, <2>1 DEF SameStage
<1>7. Sound(s)
  BY <1>2, <1>3, <1>4, <1>5 DEF Sound
<1> QED
  BY <1>3, <1>6, <1>7 DEF ShutdownInLoop, s

\* A function on 1..n is a sequence of length n.
LEMMA FunctionIsSeq ==
    ASSUME NEW S, NEW n \in Nat, NEW f \in [1..n -> S]
    PROVE  f \in Seq(S) /\ Len(f) = n
<1>1. f \in Seq(S)
  BY SeqDef
<1>2. Len(f) \in Nat /\ DOMAIN f = 1..Len(f) /\ DOMAIN f = 1..n
  BY <1>1, LenProperties
<1> QED
  BY <1>1, <1>2

\* The bytes of a message.
LEMMA MessageBytes ==
    ASSUME NEW m \in Messages
    PROVE  BytesOf(m) \in Seq(Bytes) /\ Len(BytesOf(m)) = MsgLen /\ MsgLen \in Nat
           /\ MsgLen > 0
<1>1. MsgLen \in Nat /\ MsgLen > 0
  BY MsgLenAssumption
<1>2. BytesOf(m) \in [1..MsgLen -> Bytes]
  BY DEF BytesOf, Bytes
<1> QED
  BY <1>1, <1>2, FunctionIsSeq

\* The empty sequence, and an empty end.
LEMMA NothingReadable ==
    ASSUME NEW S, NEW s \in Seq(S), Len(s) = 0
    PROVE  s = <<>>
  BY EmptySeq

\* Four sequences put together, the second or the third of them empty.
LEMMA ConcatFour2 ==
    ASSUME NEW S, NEW w \in Seq(S), NEW v \in Seq(S), NEW r \in Seq(S), NEW z \in Seq(S),
           Len(v) = 0
    PROVE  (w \o v) \o (r \o z) = (w \o r) \o (v \o z)
<1>1. (w \o r) \o z = w \o (r \o z)
  BY SMTT(30), ConcatAssociative
<1>2. w \o <<>> = w /\ <<>> \o z = z
  BY ConcatEmptySeq
<1>3. v = <<>>
  BY NothingReadable
<1> QED
  BY <1>1, <1>2, <1>3, Zenon

LEMMA ConcatFour3 ==
    ASSUME NEW S, NEW w \in Seq(S), NEW v \in Seq(S), NEW r \in Seq(S), NEW z \in Seq(S),
           Len(r) = 0
    PROVE  (w \o v) \o (r \o z) = (w \o r) \o (v \o z)
<1>1. (w \o v) \o z = w \o (v \o z)
  BY ConcatAssociative
<1>2. w \o <<>> = w /\ <<>> \o z = z
  BY ConcatEmptySeq
<1>3. r = <<>>
  BY NothingReadable
<1> QED
  BY <1>1, <1>2, <1>3, Zenon

\* Output handed to the socket, behind what it has, and the rest into the
\* buffer, behind what that has: the stream goes on as it should if nothing was
\* there to be overtaken, or nothing was handed over.
LEMMA StreamGrows ==
    ASSUME NEW k, Sound(k), NEW v \in Seq(Bytes), NEW z \in Seq(Bytes)
    PROVE  /\ BufferOver(Cells, AppendData(k.out, z))
           /\ ReadableBytes(AppendData(k.out, z)) = ReadableBytes(k.out) + Len(z)
           /\ k.wire \o v \in Seq(Bytes) /\ k.taken \o (v \o z) \in Seq(Bytes)
           /\ Len(v) = 0 \/ Len(Readable(k.out)) = 0 =>
                (k.wire \o v) \o Readable(AppendData(k.out, z)) = k.taken \o (v \o z)
<1> DEFINE w == k.wire
           r == Readable(k.out)
<1>1. /\ BufferOver(Cells, k.out) /\ Blank \in Cells /\ Bytes \subseteq Cells
      /\ w \in Seq(Bytes) /\ r \in Seq(Bytes) /\ k.taken \in Seq(Bytes)
      /\ w \o r = k.taken /\ Len(r) = ReadableBytes(k.out)
  BY SoundParts
<1>2. z \in Seq(Cells)
  BY <1>1, SeqMonotonic
<1>3. /\ BufferOver(Cells, AppendData(k.out, z))
      /\ Readable(AppendData(k.out, z)) = r \o z
  BY <1>1, <1>2, AppendDataAppends
<1>4. ReadableBytes(AppendData(k.out, z)) = ReadableBytes(k.out) + Len(z)
  <2>1. ReadableBytes(AppendData(k.out, z)) = Len(r \o z)
    BY <1>3, BufferFields
  <2>2. Len(r \o z) = Len(r) + Len(z)
    BY <1>1, ConcatProperties
  <2> QED
    BY <1>1, <2>1, <2>2
<1> HIDE DEF w, r
<1>5. w \o v \in Seq(Bytes) /\ v \o z \in Seq(Bytes)
  BY <1>1, ConcatProperties
<1>6. k.taken \o (v \o z) \in Seq(Bytes)
  BY <1>1, <1>5, ConcatProperties
<1>7. v \in Seq(Bytes) /\ z \in Seq(Bytes) /\ w \in Seq(Bytes) /\ r \in Seq(Bytes)
  BY <1>1
<1>8. ASSUME Len(v) = 0 PROVE (w \o v) \o (r \o z) = (w \o r) \o (v \o z)
  BY <1>7, <1>8, ConcatFour2
<1>9. ASSUME Len(r) = 0 PROVE (w \o v) \o (r \o z) = (w \o r) \o (v \o z)
  BY SMTT(60), <1>7, <1>9, ConcatFour3
<1> QED
  BY <1>1, <1>3, <1>4, <1>5, <1>6, <1>8, <1>9 DEF w, r

\* sendInLoop, n being what a direct write returns.
LEMMA SendKeeps ==
    ASSUME NEW k, Sound(k), NEW m \in Messages, NEW n \in 0..WriteError
    PROVE  LET s == SendInLoop(k, m, n) IN
             Sound(s) /\ SameStage(k, s) /\ s.in = k.in /\ s.used = k.used
<1>1. CASE k.state # "connected" \/ (WritesDirectly(k) /\ n = WriteError)
  <2>1. SendInLoop(k, m, n) = k
    BY <1>1 DEF SendInLoop
  <2> QED
    BY <2>1 DEF SameStage
<1>2. CASE k.state = "connected" /\ ~(WritesDirectly(k) /\ n = WriteError)
  <2> DEFINE c == IF WritesDirectly(k) THEN n ELSE 0
             x == SubSeq(BytesOf(m), 1, c)
             rest == SubSeq(BytesOf(m), c + 1, MsgLen)
             o == AppendData(k.out, rest)
             a == [k EXCEPT !.wire = k.wire \o x, !.out = o, !.taken = k.taken \o BytesOf(m)]
             q == [a EXCEPT !.writing = TRUE]
             s == IF rest # <<>> /\ ~k.writing THEN q ELSE a
  <2>1. Live(k) /\ k \in Connection /\ k.index = "added" /\ k.reading /\ k.downs = 0
        /\ k.ups = 1 /\ ~k.shutWrite /\ (k.writing <=> ReadableBytes(k.out) > 0)
    <3>1. Live(k)
      BY <1>2, OneStage
    <3> QED
      BY <1>2, <3>1 DEF Live, Sound
  <2>2. /\ BytesOf(m) \in Seq(Bytes) /\ Len(BytesOf(m)) = MsgLen /\ MsgLen \in Nat
        /\ MsgLen > 0
    BY MessageBytes
  <2>3. c \in 0..MsgLen
    <3>1. CASE WritesDirectly(k)
      BY <1>2, <2>2, <3>1 DEF WriteError
    <3>2. CASE ~WritesDirectly(k)
      BY <2>2, <3>2
    <3> QED
      BY <3>1, <3>2
  <2>4. ~WritesDirectly(k) => c = 0
    OBVIOUS
  <2>5. SendInLoop(k, m, n) = IF rest # <<>> /\ ~k.writing THEN EnableWriting(a) ELSE a
    BY <1>2 DEF SendInLoop
  <2> HIDE DEF c
  <2>6. /\ x \in Seq(Bytes) /\ rest \in Seq(Bytes) /\ Len(x) = c /\ Len(rest) = MsgLen - c
        /\ x \o rest = BytesOf(m)
    BY <2>2, <2>3, SplitSeq
  <2>7. Len(x) = 0 \/ Len(Readable(k.out)) = 0
    <3>1. CASE WritesDirectly(k)
      BY <3>1, SoundParts DEF WritesDirectly
    <3>2. CASE ~WritesDirectly(k)
      BY <2>4, <2>6, <3>2
    <3> QED
      BY <3>1, <3>2
  <2> HIDE DEF x, rest
  <2>8. /\ BufferOver(Cells, o) /\ ReadableBytes(o) = ReadableBytes(k.out) + Len(rest)
        /\ k.wire \o x \in Seq(Bytes) /\ k.taken \o BytesOf(m) \in Seq(Bytes)
        /\ (k.wire \o x) \o Readable(o) = k.taken \o BytesOf(m)
    <3>1. /\ BufferOver(Cells, o) /\ ReadableBytes(o) = ReadableBytes(k.out) + Len(rest)
          /\ k.wire \o x \in Seq(Bytes) /\ k.taken \o (x \o rest) \in Seq(Bytes)
          /\ (k.wire \o x) \o Readable(o) = k.taken \o (x \o rest)
      <4>1. x \in Seq(Bytes) /\ rest \in Seq(Bytes)
        BY <2>6
      <4> QED
        BY <2>7, <4>1, StreamGrows
    <3> QED
      BY <2>6, <3>1
  <2>9. o \in Buffers /\ IsBuffer(o)
    BY <2>8 DEF BufferOver, Buffers, Cells
  <2> HIDE DEF o
  <2>10. a \in Connection
    BY <2>1, <2>8, <2>9 DEF Connection
  <2>11. /\ a.state = k.state /\ a.index = k.index /\ a.reading = k.reading
         /\ a.writing = k.writing /\ a.shutWrite = k.shutWrite /\ a.ups = k.ups
         /\ a.downs = k.downs /\ a.out = o /\ a.in = k.in /\ a.wire = k.wire \o x
         /\ a.taken = k.taken \o BytesOf(m) /\ a.used = k.used
    BY <2>1 DEF Connection
  <2> HIDE DEF a
  <2>12. EnableWriting(a) = q
    <3>1. q.index = "added" /\ q.writing = TRUE
      BY <2>1, <2>10, <2>11 DEF Connection
    <3> QED
      BY <3>1 DEF EnableWriting, UpdateChannel
  <2>13. q \in Connection
    BY <2>10 DEF Connection
  <2>14. /\ q.state = k.state /\ q.index = k.index /\ q.reading = k.reading
         /\ q.writing = TRUE /\ q.shutWrite = k.shutWrite /\ q.ups = k.ups
         /\ q.downs = k.downs /\ q.out = o /\ q.in = k.in /\ q.wire = k.wire \o x
         /\ q.taken = k.taken \o BytesOf(m) /\ q.used = k.used
    BY <2>10, <2>11 DEF Connection
  <2> HIDE DEF q
  <2>15. SendInLoop(k, m, n) = s
    BY <2>5, <2>12
  <2>16. /\ s \in Connection /\ s.state = k.state /\ s.index = k.index /\ s.reading = k.reading
         /\ s.shutWrite = k.shutWrite /\ s.ups = k.ups
         /\ s.downs = k.downs /\ s.out = o /\ s.in = k.in /\ s.wire = k.wire \o x
         /\ s.taken = k.taken \o BytesOf(m) /\ s.used = k.used
    BY <2>10, <2>11, <2>13, <2>14
  <2>17. s.writing <=> (k.writing \/ rest # <<>>)
    BY <2>11, <2>14
  <2>18. s.writing <=> ReadableBytes(o) > 0
    <3>1. ReadableBytes(k.out) \in Nat /\ Len(rest) \in Nat
      BY <2>6, SoundParts, LenProperties
    <3>2. rest # <<>> <=> Len(rest) > 0
      BY <2>6, <3>1, EmptySeq
    <3>3. ReadableBytes(o) > 0 <=> ReadableBytes(k.out) > 0 \/ Len(rest) > 0
      BY <2>8, <3>1
    <3> QED
      BY <2>1, <2>17, <3>2, <3>3
  <2> HIDE DEF s
  <2>19. Live(s)
    BY <2>1, <2>16 DEF Live
  <2>20. Sound(s)
    <3>1. IsBuffer(s.in)
      BY <2>16 DEF Sound
    <3> QED
      BY <2>1, <2>8, <2>9, <2>16, <2>18, <2>19, <3>1 DEF Sound
  <2>21. SameStage(k, s)
    BY <2>1, <2>16, <2>19, <2>20, OneStage DEF SameStage
  <2> QED
    BY <2>15, <2>16, <2>20, <2>21
<1> QED
  BY <1>1, <1>2

\* What precedes other bytes in a sequence of bytes is bytes.
LEMMA PrefixOver ==
    ASSUME NEW S, NEW T, S \subseteq T, NEW s \in Seq(T), NEW t \in Seq(T), s \o t \in Seq(S)
    PROVE  s \in Seq(S)
<1>1. /\ Len(s \o t) = Len(s) + Len(t)
      /\ \A i \in 1..(Len(s) + Len(t)) : (s \o t)[i] = IF i <= Len(s) THEN s[i] ELSE t[i - Len(s)]
  BY ConcatProperties
<1>2. Len(s) \in Nat /\ Len(t) \in Nat /\ s \in [1..Len(s) -> T]
  BY LenProperties
<1>3. ASSUME NEW i \in 1..Len(s) PROVE s[i] \in S
  <2>1. i \in 1..(Len(s) + Len(t)) /\ i <= Len(s)
    BY <1>2
  <2>2. (s \o t)[i] = s[i]
    BY <1>1, <2>1
  <2>3. (s \o t)[i] \in S
    BY <1>1, <2>1, ElementOfSeq
  <2> QED
    BY <2>2, <2>3
<1>4. s \in [1..Len(s) -> S]
  BY <1>2, <1>3
<1> QED
  BY <1>2, <1>4, SeqDef

\* The first n bytes to be read, taken out of a buffer of bytes.
LEMMA TakeFirst ==
    ASSUME NEW b, BufferOver(Cells, b), Readable(b) \in Seq(Bytes),
           NEW n \in 0..ReadableBytes(b)
    PROVE  LET v == SubSeq(Readable(b), 1, n)
               o == Reset(b, n)
           IN  /\ BufferOver(Cells, o) /\ v \in Seq(Bytes) /\ Readable(o) \in Seq(Bytes)
               /\ ReadableBytes(o) = ReadableBytes(b) - n
               /\ v \o Readable(o) = Readable(b)
<1> DEFINE v == SubSeq(Readable(b), 1, n)
           o == Reset(b, n)
<1>1. ReadableBytes(b) \in Nat /\ Len(Readable(b)) = ReadableBytes(b)
  BY BufferFields
<1>2. n \in Nat /\ n <= ReadableBytes(b) /\ n \in 0..Len(Readable(b))
  BY <1>1
<1>3. /\ BufferOver(Cells, o) /\ ReadableBytes(o) = ReadableBytes(b) - n
      /\ v \o Readable(o) = Readable(b)
  BY <1>2, ResetDrops
<1>4. v \in Seq(Bytes)
  BY <1>2, SplitSeq
<1>5. Readable(o) \in Seq(Cells) /\ Bytes \subseteq Cells
  BY <1>3, BufferFields DEF Cells
<1> HIDE DEF v, o
<1>6. Readable(o) \in Seq(Bytes)
  <2>1. v \o Readable(o) \in Seq(Bytes)
    BY <1>3
  <2> QED
    BY <1>4, <1>5, <2>1, SuffixOver
<1> QED
  BY <1>3, <1>4, <1>6 DEF v, o

\* handleWrite, the socket taking n bytes.
LEMMA WriteKeeps ==
    ASSUME NEW k, Sound(k), Live(k), k.writing, NEW n \in 1..ReadableBytes(k.out)
    PROVE  LET s == HandleWrite(k, n) IN
             Sound(s) /\ SameStage(k, s) /\ s.in = k.in /\ s.used = k.used
<1> DEFINE v == SubSeq(Readable(k.out), 1, n)
           o == Reset(k.out, n)
           a == [k EXCEPT !.wire = k.wire \o v, !.out = o]
           q == [a EXCEPT !.writing = FALSE]
<1>1. /\ k \in Connection /\ k.index = "added" /\ k.reading /\ k.downs = 0 /\ k.ups = 1
      /\ ~k.shutWrite
  BY DEF Sound, Live
<1>2. /\ BufferOver(Cells, k.out) /\ k.wire \in Seq(Bytes) /\ k.taken \in Seq(Bytes)
      /\ k.wire \o Readable(k.out) = k.taken /\ Readable(k.out) \in Seq(Bytes)
      /\ ReadableBytes(k.out) \in Nat
  BY SoundParts
<1>3. /\ BufferOver(Cells, o) /\ v \in Seq(Bytes) /\ Readable(o) \in Seq(Bytes)
      /\ ReadableBytes(o) = ReadableBytes(k.out) - n
      /\ v \o Readable(o) = Readable(k.out)
  <2>1. n \in 0..ReadableBytes(k.out)
    BY <1>2
  <2> QED
    BY <1>2, <2>1, TakeFirst
<1>4. HandleWrite(k, n) = IF ReadableBytes(a.out) > 0 THEN a
                          ELSE IF k.state = "disconnecting" THEN ShutdownInLoop(DisableWriting(a))
                          ELSE DisableWriting(a)
  BY DEF HandleWrite
<1>5. o \in Buffers /\ IsBuffer(o)
  BY <1>3 DEF BufferOver, Buffers, Cells
<1> HIDE DEF v, o
<1>6. k.wire \o v \in Seq(Bytes) /\ (k.wire \o v) \o Readable(o) = k.taken
  <2> DEFINE w == k.wire
             R == Readable(o)
  <2>1. w \in Seq(Bytes) /\ v \in Seq(Bytes) /\ R \in Seq(Bytes)
    BY <1>2, <1>3
  <2>2. w \o (v \o R) = k.taken
    BY <1>2, <1>3
  <2> HIDE DEF w, R
  <2>3. (w \o v) \o R = w \o (v \o R)
    BY SMTT(30), <2>1, ConcatAssociative
  <2>4. w \o v \in Seq(Bytes)
    BY <2>1, ConcatProperties
  <2> QED
    BY <2>2, <2>3, <2>4 DEF w, R
<1>7. a \in Connection
  BY <1>1, <1>5, <1>6 DEF Connection
<1>8. /\ a.state = k.state /\ a.index = k.index /\ a.reading = k.reading
      /\ a.writing = k.writing /\ a.shutWrite = k.shutWrite /\ a.ups = k.ups
      /\ a.downs = k.downs /\ a.out = o /\ a.in = k.in /\ a.wire = k.wire \o v
      /\ a.taken = k.taken /\ a.used = k.used
  BY <1>1 DEF Connection
<1> HIDE DEF a
<1>9. q \in Connection
  BY <1>7 DEF Connection
<1>10. /\ q.state = k.state /\ q.index = k.index /\ q.reading = k.reading
       /\ q.writing = FALSE /\ q.shutWrite = k.shutWrite /\ q.ups = k.ups
       /\ q.downs = k.downs /\ q.out = o /\ q.in = k.in /\ q.wire = k.wire \o v
       /\ q.taken = k.taken /\ q.used = k.used
  BY <1>7, <1>8 DEF Connection
<1>11. DisableWriting(a) = q
  BY <1>1, <1>10 DEF DisableWriting, UpdateChannel
<1> HIDE DEF q
<1>12. IsBuffer(k.in)
  BY DEF Sound
<1>13. CASE ReadableBytes(o) > 0
  <2>1. HandleWrite(k, n) = a
    BY <1>4, <1>8, <1>13
  <2>2. Live(a)
    BY <1>8 DEF Live
  <2>3. Sound(a)
    BY <1>1, <1>5, <1>6, <1>7, <1>8, <1>12, <1>13, <2>2 DEF Sound
  <2> QED
    BY <1>8, <2>1, <2>2, <2>3, OneStage DEF SameStage
<1>14. CASE ~(ReadableBytes(o) > 0)
  <2>1. Live(q)
    BY <1>10 DEF Live
  <2>2. Sound(q)
    BY <1>1, <1>5, <1>6, <1>9, <1>10, <1>12, <1>14, <2>1 DEF Sound
  <2>3. SameStage(k, q)
    BY <1>10, <2>1, <2>2, OneStage DEF SameStage
  <2>4. CASE k.state = "disconnecting"
    <3> DEFINE s == ShutdownInLoop(q)
    <3>1. HandleWrite(k, n) = s
      BY <1>4, <1>8, <1>11, <1>14, <2>4
    <3>2. Sound(s) /\ SameStage(q, s) /\ s.in = q.in /\ s.used = q.used
      BY <1>1, <1>10, <2>2, ShutdownKeeps
    <3> HIDE DEF s
    <3> QED
      BY <1>10, <2>3, <3>1, <3>2 DEF SameStage
  <2>5. CASE k.state # "disconnecting"
    <3>1. HandleWrite(k, n) = q
      BY <1>4, <1>8, <1>11, <1>14, <2>5
    <3> QED
      BY <1>10, <2>2, <2>3, <3>1
  <2> QED
    BY <2>4, <2>5
<1> QED
  BY <1>13, <1>14

\* Concatenation of bytes is associative.
LEMMA BytesAssociate ==
    ASSUME NEW a \in Seq(Bytes), NEW b \in Seq(Bytes), NEW c \in Seq(Bytes)
    PROVE  (a \o b) \o c = a \o (b \o c)
  BY ConcatAssociative

\* handleRead with data, of which the user takes the first n bytes there are.
LEMMA ReadKeeps ==
    ASSUME NEW k, Sound(k), Readable(k.in) \in Seq(Bytes), NEW data \in Seq(Bytes),
           NEW n \in 0..(ReadableBytes(k.in) + Len(data))
    PROVE  LET s == HandleRead(k, data, n) IN
             /\ Sound(s) /\ SameStage(k, s)
             /\ s.used \o Readable(s.in) = (k.used \o Readable(k.in)) \o data
<1> DEFINE b == ReadFd(k.in, data)
           v == SubSeq(Readable(b), 1, n)
           o == Reset(b, n)
           u == k.used
           R == Readable(k.in)
           s == [k EXCEPT !.in = o, !.used = u \o v]
<1>1. /\ k \in Connection /\ BufferOver(Cells, k.in) /\ u \in Seq(Bytes)
      /\ Blank \in Cells /\ Bytes \subseteq Cells
  BY SoundParts
<1>2. data \in Seq(Cells)
  BY <1>1, SeqMonotonic
<1>3. BufferOver(Cells, b) /\ Readable(b) = R \o data
  BY <1>1, <1>2, ReadFdAppends
<1>4. /\ ReadableBytes(k.in) = Len(R) /\ ReadableBytes(b) = Len(Readable(b))
  BY <1>1, <1>3, BufferFields
<1>5. HandleRead(k, data, n) = s
  BY DEF HandleRead
<1> HIDE DEF b, R
<1>6. R \in Seq(Bytes)
  BY DEF R
<1>7. R \o data \in Seq(Bytes) /\ Len(R \o data) = Len(R) + Len(data)
  BY <1>6, ConcatProperties
<1>8. n \in 0..ReadableBytes(b) /\ Readable(b) \in Seq(Bytes)
  BY <1>3, <1>4, <1>7
<1>9. /\ BufferOver(Cells, o) /\ v \in Seq(Bytes) /\ Readable(o) \in Seq(Bytes)
      /\ v \o Readable(o) = Readable(b)
  BY <1>3, <1>8, TakeFirst
<1>10. o \in Buffers /\ IsBuffer(o)
  BY <1>9 DEF BufferOver, Buffers, Cells
<1> HIDE DEF v, o, u
<1>11. (u \o v) \o Readable(o) = (u \o R) \o data /\ u \o v \in Seq(Bytes)
  <2> DEFINE Q == Readable(o)
  <2>1. u \in Seq(Bytes) /\ v \in Seq(Bytes) /\ R \in Seq(Bytes) /\ Q \in Seq(Bytes)
    BY <1>1, <1>6, <1>9
  <2>2. v \o Q = R \o data
    BY <1>3, <1>9
  <2> HIDE DEF Q, s
  <2>3. (u \o v) \o Q = u \o (v \o Q)
    <3>1. u \in Seq(Bytes) /\ v \in Seq(Bytes) /\ Q \in Seq(Bytes)
      BY <2>1
    <3> QED
      BY ONLY ZenonT(60), <3>1, BytesAssociate
  <2>4. (u \o R) \o data = u \o (R \o data)
    <3>1. u \in Seq(Bytes) /\ R \in Seq(Bytes) /\ data \in Seq(Bytes)
      BY <2>1
    <3> QED
      BY ONLY ZenonT(60), <3>1, BytesAssociate
  <2>5. u \o v \in Seq(Bytes)
    BY <2>1, ConcatProperties
  <2> QED
    BY <2>2, <2>3, <2>4, <2>5 DEF Q
<1>12. s \in Connection
  BY <1>1, <1>10, <1>11 DEF Connection
<1>13. /\ s.state = k.state /\ s.index = k.index /\ s.reading = k.reading
       /\ s.writing = k.writing /\ s.shutWrite = k.shutWrite /\ s.ups = k.ups
       /\ s.downs = k.downs /\ s.out = k.out /\ s.in = o /\ s.wire = k.wire
       /\ s.taken = k.taken /\ s.used = u \o v
  BY <1>1 DEF Connection
<1> HIDE DEF s
<1>14. /\ Fresh(k) <=> Fresh(s)
       /\ Live(k) <=> Live(s)
       /\ Closed(k) <=> Closed(s)
       /\ Removed(k) <=> Removed(s)
  BY <1>13 DEF Fresh, Live, Closed, Removed
<1>15. Sound(s)
  BY <1>10, <1>12, <1>13, <1>14 DEF Sound
<1>16. SameStage(k, s)
  BY <1>13, <1>14 DEF SameStage
<1> QED
  BY <1>5, <1>11, <1>13, <1>15, <1>16 DEF u, R

-----------------------------------------------------------------------------
(* The queues of the loops.                                                *)

\* A functor at the end of a queue is one more of its functors.
LEMMA EnqueuedElements ==
    ASSUME NEW S, NEW s \in Seq(S), NEW e \in S
    PROVE  /\ Append(s, e) \in Seq(S) /\ ToSet(Append(s, e)) = ToSet(s) \cup {e}
           /\ Len(s) \in Nat /\ Len(Append(s, e)) = Len(s) + 1
           /\ \A i \in 1..Len(s) : Append(s, e)[i] = s[i] /\ s[i] \in ToSet(s)
           /\ Append(s, e)[Len(s) + 1] = e
<1>1. /\ Append(s, e) \in Seq(S) /\ DOMAIN s = 1..Len(s) /\ Len(s) \in Nat
      /\ Len(Append(s, e)) = Len(s) + 1 /\ DOMAIN Append(s, e) = 1..(Len(s) + 1)
      /\ \A i \in 1..Len(s) : Append(s, e)[i] = s[i]
      /\ Append(s, e)[Len(s) + 1] = e
  BY LenProperties, AppendProperties
<1>2. /\ \A i \in 1..(Len(s) + 1) : i \in 1..Len(s) \/ i = Len(s) + 1
      /\ Len(s) + 1 \in 1..(Len(s) + 1) /\ 1..Len(s) \subseteq 1..(Len(s) + 1)
  BY <1>1
<1>3. ToSet(Append(s, e)) = ToSet(s) \cup {e}
  BY <1>1, <1>2, Zenon DEF ToSet
<1>4. \A i \in 1..Len(s) : s[i] \in ToSet(s)
  BY <1>1, Zenon DEF ToSet
<1> QED
  BY <1>1, <1>3, <1>4

\* A queue is its head and what comes after it.
LEMMA HeadAndTail ==
    ASSUME NEW S, NEW s \in Seq(S), s # <<>>
    PROVE  /\ Tail(s) \in Seq(S) /\ Head(s) \in S /\ Head(s) = s[1]
           /\ Len(s) \in Nat /\ Len(s) > 0 /\ Len(Tail(s)) = Len(s) - 1
           /\ \A i \in 1..(Len(s) - 1) : Tail(s)[i] = s[i + 1]
           /\ ToSet(s) = ToSet(Tail(s)) \cup {Head(s)}
           /\ \A x \in ToSet(Tail(s)) : \E i \in 2..Len(s) : x = s[i]
<1>1. /\ Tail(s) \in Seq(S) /\ Head(s) \in S /\ Head(s) = s[1]
      /\ Len(s) \in Nat /\ Len(s) > 0 /\ Len(Tail(s)) = Len(s) - 1
      /\ \A i \in 1..(Len(s) - 1) : Tail(s)[i] = s[i + 1]
      /\ DOMAIN s = 1..Len(s) /\ DOMAIN Tail(s) = 1..(Len(s) - 1)
  BY HeadTailProperties, LenProperties, EmptySeq
<1>2. \A x \in ToSet(Tail(s)) : \E i \in 2..Len(s) : x = s[i]
  <2>1. SUFFICES ASSUME NEW i \in 1..(Len(s) - 1)
                 PROVE  i + 1 \in 2..Len(s) /\ Tail(s)[i] = s[i + 1]
    BY <1>1 DEF ToSet
  <2> QED
    BY <1>1
<1>3. \A i \in 1..Len(s) : s[i] = Head(s) \/ s[i] \in ToSet(Tail(s))
  <2>1. SUFFICES ASSUME NEW i \in 1..Len(s), i # 1
                 PROVE  s[i] \in ToSet(Tail(s))
    BY <1>1
  <2>2. i - 1 \in 1..(Len(s) - 1) /\ Tail(s)[i - 1] = s[i]
    BY <1>1, <2>1
  <2> QED
    BY <1>1, <2>2, Zenon DEF ToSet
<1>4. 1 \in 1..Len(s) /\ 2..Len(s) \subseteq 1..Len(s)
  BY <1>1
<1>5. ToSet(s) = ToSet(Tail(s)) \cup {Head(s)}
  <2>1. ASSUME NEW x \in ToSet(s) PROVE x \in ToSet(Tail(s)) \cup {Head(s)}
    BY <1>1, <1>3, <2>1, Zenon DEF ToSet
  <2>2. ASSUME NEW x \in ToSet(Tail(s)) PROVE x \in ToSet(s)
    BY <1>1, <1>2, <1>4, Zenon DEF ToSet
  <2>3. Head(s) \in ToSet(s)
    BY <1>1, <1>4, Zenon DEF ToSet
  <2> QED
    BY <2>1, <2>2, <2>3
<1> QED
  BY <1>1, <1>2, <1>5

\* The functors of a connection's set-up and tear-down.
SetUp == {"established", "destroyed", "remove"}

\* A queue stays ordered when a functor is put at its end that is not of the
\* set-up or tear-down, or not there yet and at its place.
LEMMA EnqueueOrdered ==
    ASSUME NEW s \in Seq(Functors), Ordered(s), NEW f \in Functors,
           f[1] \in SetUp => f \notin ToSet(s),
           \A x \in ToSet(s) : x[1] = "destroyed" => f # Do("established", x[2])
    PROVE  Ordered(Append(s, f))
<1> DEFINE t == Append(s, f)
<1>1. /\ Len(s) \in Nat /\ Len(t) = Len(s) + 1 /\ t[Len(s) + 1] = f
      /\ \A i \in 1..Len(s) : t[i] = s[i] /\ s[i] \in ToSet(s)
  BY EnqueuedElements
<1> HIDE DEF t
<1>2. SUFFICES ASSUME NEW i \in 1..Len(t), NEW j \in 1..Len(t), i < j
               PROVE  /\ t[i][1] \in SetUp => t[j] # t[i]
                      /\ t[i][1] = "destroyed" => t[j] # Do("established", t[i][2])
  BY DEF Ordered, SetUp, t
<1>3. i \in 1..Len(s) /\ (j \in 1..Len(s) \/ j = Len(s) + 1)
  BY <1>1, <1>2
<1>4. CASE j \in 1..Len(s)
  BY <1>1, <1>2, <1>3, <1>4 DEF Ordered, SetUp
<1>5. CASE j = Len(s) + 1
  <2>1. t[j] = f /\ t[i] = s[i] /\ s[i] \in ToSet(s)
    BY <1>1, <1>3, <1>5
  <2> QED
    BY <2>1
<1> QED
  BY <1>3, <1>4, <1>5

\* So does a queue whose head is taken off, and that one of set-up or tear-down
\* is not there again.
LEMMA DequeueOrdered ==
    ASSUME NEW s \in Seq(Functors), Ordered(s), s # <<>>
    PROVE  /\ Ordered(Tail(s))
           /\ Head(s)[1] \in SetUp => Head(s) \notin ToSet(Tail(s))
           /\ Head(s)[1] = "destroyed" => Do("established", Head(s)[2]) \notin ToSet(Tail(s))
<1>1. /\ Len(s) \in Nat /\ Len(s) > 0 /\ Len(Tail(s)) = Len(s) - 1 /\ Head(s) = s[1]
      /\ \A i \in 1..(Len(s) - 1) : Tail(s)[i] = s[i + 1]
      /\ \A x \in ToSet(Tail(s)) : \E i \in 2..Len(s) : x = s[i]
  BY HeadAndTail
<1>2. ASSUME NEW i \in 1..Len(Tail(s)), NEW j \in 1..Len(Tail(s)), i < j
      PROVE  /\ Tail(s)[i][1] \in SetUp => Tail(s)[j] # Tail(s)[i]
             /\ Tail(s)[i][1] = "destroyed" => Tail(s)[j] # Do("established", Tail(s)[i][2])
  <2>1. /\ i + 1 \in 1..Len(s) /\ j + 1 \in 1..Len(s) /\ i + 1 < j + 1
        /\ Tail(s)[i] = s[i + 1] /\ Tail(s)[j] = s[j + 1]
    BY <1>1, <1>2
  <2> QED
    BY <2>1 DEF Ordered, SetUp
<1>3. ASSUME NEW i \in 2..Len(s)
      PROVE  /\ s[1][1] \in SetUp => s[i] # s[1]
             /\ s[1][1] = "destroyed" => s[i] # Do("established", s[1][2])
  <2>1. i \in 1..Len(s) /\ 1 \in 1..Len(s) /\ 1 < i
    BY <1>1
  <2> QED
    BY <2>1 DEF Ordered, SetUp
<1> QED
  BY <1>1, <1>2, <1>3 DEF Ordered, SetUp

\* A finite set in a row: every element once.
LEMMA SetInARow ==
    ASSUME NEW S, IsFiniteSet(S)
    PROVE  LET t == SetToSeq(S) IN
             /\ t \in Seq(S) /\ ToSet(t) = S
             /\ \A i, j \in 1..Len(t) : i < j => t[i] # t[j]
<1> DEFINE n == Cardinality(S)
           t == SetToSeq(S)
<1>1. n \in Nat /\ ExistsBijection(1..n, S)
  BY FS_CardinalityType
<1>2. \E f \in [1..n -> S] : IsInjective(f)
  BY <1>1 DEF ExistsBijection, Bijection, Injection
<1>3. t \in [1..n -> S] /\ IsInjective(t)
  BY <1>2 DEF SetToSeq
<1> HIDE DEF t
<1>4. t \in Seq(S) /\ Len(t) = n /\ DOMAIN t = 1..n
  BY <1>1, <1>3, FunctionIsSeq
<1>5. Cardinality(1..n) = n
  BY <1>1, FS_Interval
<1>6. t \in Injection(1..n, S)
  BY <1>3 DEF Injection
<1>7. t \in Surjection(1..n, S)
  BY <1>5, <1>6, FS_Injection
<1>8. ToSet(t) = S
  <2>1. \A x \in S : \E i \in 1..n : t[i] = x
    BY <1>7 DEF Surjection
  <2>2. \A i \in 1..n : t[i] \in S
    BY <1>3
  <2> QED
    BY <1>4, <2>1, <2>2, Zenon DEF ToSet
<1>9. \A i, j \in 1..Len(t) : i < j => t[i] # t[j]
  BY <1>1, <1>3, <1>4 DEF IsInjective
<1> QED
  BY <1>4, <1>8, <1>9 DEF t

\* The connectDestroyed of ~TcpServer behind a queue that has none of them.
LEMMA DestroyedBehind ==
    ASSUME NEW s \in Seq(Functors), Ordered(s), NEW A \in SUBSET Conns, IsFiniteSet(A),
           \A c \in A : Do("destroyed", c) \notin ToSet(s)
    PROVE  LET D == {Do("destroyed", c) : c \in A}
               t == s \o SetToSeq(D)
           IN  t \in Seq(Functors) /\ Ordered(t) /\ ToSet(t) = ToSet(s) \cup D
<1> DEFINE D == {Do("destroyed", c) : c \in A}
           d == SetToSeq(D)
           t == s \o d
           f == [x \in D |-> x[2]]
<1>1. IsFiniteSet(D)
  <2>1. f \in [D -> A]
    BY DEF Do
  <2>2. IsInjective(f)
    BY DEF Do, IsInjective
  <2>3. f \in Injection(D, A)
    BY <2>1, <2>2 DEF Injection
  <2> HIDE DEF f, D
  <2> QED
    BY <2>3, FS_Injection
<1>2. D \subseteq Functors
  BY DEF Do, Functors
<1>3. \A x \in D : x[1] = "destroyed" /\ x \notin ToSet(s)
  BY DEF Do
<1> HIDE DEF f, D
<1>4. d \in Seq(D) /\ ToSet(d) = D /\ \A i, j \in 1..Len(d) : i < j => d[i] # d[j]
  BY <1>1, SetInARow
<1> HIDE DEF d
<1>5. d \in Seq(Functors)
  BY <1>2, <1>4, SeqMonotonic
<1>6. /\ t \in Seq(Functors) /\ Len(t) = Len(s) + Len(d)
      /\ \A i \in 1..(Len(s) + Len(d)) : t[i] = IF i <= Len(s) THEN s[i] ELSE d[i - Len(s)]
  BY <1>5, ConcatProperties
<1>7. /\ Len(s) \in Nat /\ Len(d) \in Nat /\ DOMAIN s = 1..Len(s) /\ DOMAIN d = 1..Len(d)
      /\ DOMAIN t = 1..Len(t)
  BY <1>5, <1>6, LenProperties
<1> HIDE DEF t
<1>8. /\ \A i \in 1..Len(s) : i \in 1..Len(t) /\ t[i] = s[i]
      /\ \A i \in 1..Len(d) : Len(s) + i \in 1..Len(t) /\ t[Len(s) + i] = d[i]
      /\ \A i \in 1..Len(t) : i \in 1..Len(s) \/ (i - Len(s) \in 1..Len(d) /\ t[i] = d[i - Len(s)])
  <2>1. ASSUME NEW i \in 1..Len(d)
        PROVE  Len(s) + i \in 1..Len(t) /\ t[Len(s) + i] = d[i]
    <3>1. /\ Len(s) + i \in 1..(Len(s) + Len(d)) /\ ~(Len(s) + i <= Len(s))
          /\ (Len(s) + i) - Len(s) = i
      BY <1>7
    <3> QED
      BY <1>6, <3>1
  <2>2. ASSUME NEW i \in 1..Len(s) PROVE i \in 1..Len(t) /\ t[i] = s[i]
    BY <1>6, <1>7
  <2>3. ASSUME NEW i \in 1..Len(t), i \notin 1..Len(s)
        PROVE  i - Len(s) \in 1..Len(d) /\ t[i] = d[i - Len(s)]
    BY <1>6, <1>7, <2>3
  <2> QED
    BY <2>1, <2>2, <2>3
<1>9. ToSet(t) = ToSet(s) \cup D
  <2>1. ASSUME NEW x \in ToSet(s) PROVE x \in ToSet(t)
    <3>1. PICK i \in 1..Len(s) : x = s[i]
      BY <1>7, Zenon DEF ToSet
    <3>2. i \in 1..Len(t) /\ x = t[i]
      BY <1>8, <3>1, Zenon
    <3> QED
      BY <1>7, <3>2, Zenon DEF ToSet
  <2>2. ASSUME NEW x \in D PROVE x \in ToSet(t)
    <3>1. PICK i \in 1..Len(d) : x = d[i]
      BY <1>4, <1>7, Zenon DEF ToSet
    <3>2. Len(s) + i \in 1..Len(t) /\ x = t[Len(s) + i]
      BY <1>8, <3>1, Zenon
    <3> QED
      BY <1>7, <3>2, Zenon DEF ToSet
  <2>3. ASSUME NEW x \in ToSet(t) PROVE x \in ToSet(s) \cup D
    <3>1. PICK i \in 1..Len(t) : x = t[i]
      BY <1>7, Zenon DEF ToSet
    <3>2. CASE i \in 1..Len(s)
      <4>1. x = s[i]
        BY <1>8, <3>1, <3>2
      <4> QED
        BY <1>7, <3>2, <4>1, Zenon DEF ToSet
    <3>3. CASE i \notin 1..Len(s)
      <4>1. i - Len(s) \in 1..Len(d) /\ x = d[i - Len(s)]
        BY <1>8, <3>1, <3>3
      <4>2. x \in ToSet(d)
        BY <1>7, <4>1, Zenon DEF ToSet
      <4> QED
        BY <1>4, <4>2
    <3> QED
      BY <3>2, <3>3
  <2> QED
    BY <2>1, <2>2, <2>3
<1>10. /\ \A i \in 1..Len(s) : s[i] \in ToSet(s)
       /\ \A i \in 1..Len(d) : d[i] \in D
  BY <1>4, <1>7, Zenon DEF ToSet
<1>11. ASSUME NEW i \in 1..Len(t), NEW j \in 1..Len(t), i < j
       PROVE  /\ t[i][1] \in SetUp => t[j] # t[i]
              /\ t[i][1] = "destroyed" => t[j] # Do("established", t[i][2])
  <2>1. CASE j \in 1..Len(s)
    <3>1. i \in 1..Len(s)
      BY <1>7, <1>11, <2>1
    <3> QED
      BY <1>8, <1>11, <2>1, <3>1 DEF Ordered, SetUp
  <2>2. CASE j \notin 1..Len(s)
    <3>1. t[j] = d[j - Len(s)] /\ t[j] \in D /\ j - Len(s) \in 1..Len(d)
      BY <1>8, <1>10, <2>2
    <3>2. t[j] # Do("established", t[i][2])
      BY <1>3, <3>1 DEF Do
    <3>3. t[j] # t[i]
      <4>1. CASE i \in 1..Len(s)
        BY <1>3, <1>8, <1>10, <3>1, <4>1
      <4>2. CASE i \notin 1..Len(s)
        <5>1. t[i] = d[i - Len(s)] /\ i - Len(s) \in 1..Len(d)
          BY <1>8, <4>2
        <5>2. i - Len(s) < j - Len(s)
          BY <1>7, <1>11
        <5> QED
          BY <1>4, <3>1, <5>1, <5>2
      <4> QED
        BY <4>1, <4>2
    <3> QED
      BY <3>2, <3>3
  <2> QED
    BY <2>1, <2>2
<1>12. Ordered(t)
  BY <1>11 DEF Ordered, SetUp
<1> QED
  BY <1>6, <1>9, <1>12 DEF t, d, D

\* Functor f can go to the end of the queue of l and the queues stay ordered.
CanEnqueue(q, l, f) ==
    /\ q \in [Loops -> Seq(Functors)] /\ l \in Loops /\ f \in Functors
    /\ \A k \in Loops : Ordered(q[k])
    /\ f[1] \in SetUp => f \notin ToSet(q[l])
    /\ \A x \in ToSet(q[l]) : x[1] = "destroyed" => f # Do("established", x[2])

\* The queues after Enqueue.
LEMMA EnqueueSets ==
    ASSUME NEW q, NEW l, NEW f, CanEnqueue(q, l, f)
    PROVE  LET p == Enqueue(q, l, f) IN
             /\ p \in [Loops -> Seq(Functors)]
             /\ \A k \in Loops : Ordered(p[k])
             /\ \A k \in Loops : k # l => p[k] = q[k]
             /\ \A x : x \in ToSet(p[l]) <=> x \in ToSet(q[l]) \/ x = f
<1> USE DEF CanEnqueue
<1> DEFINE p == Enqueue(q, l, f)
<1>1. q[l] \in Seq(Functors) /\ Ordered(q[l])
  OBVIOUS
<1>2. Append(q[l], f) \in Seq(Functors) /\ ToSet(Append(q[l], f)) = ToSet(q[l]) \cup {f}
  BY <1>1, EnqueuedElements
<1>3. Ordered(Append(q[l], f))
  BY <1>1, EnqueueOrdered
<1>4. /\ p \in [Loops -> Seq(Functors)] /\ p[l] = Append(q[l], f)
      /\ \A k \in Loops : k # l => p[k] = q[k]
  BY <1>2 DEF Enqueue
<1> QED
  BY <1>2, <1>3, <1>4

\* The queues after the loop took the head of its own.
LEMMA DequeueSets ==
    ASSUME NEW q \in [Loops -> Seq(Functors)], NEW l \in Loops, q[l] # <<>>,
           \A k \in Loops : Ordered(q[k])
    PROVE  LET p == [q EXCEPT ![l] = Tail(@)]
               h == Head(q[l])
           IN  /\ p \in [Loops -> Seq(Functors)] /\ h \in Functors
               /\ \A k \in Loops : Ordered(p[k])
               /\ \A k \in Loops : k # l => p[k] = q[k]
               /\ \A x : x \in ToSet(q[l]) <=> x \in ToSet(p[l]) \/ x = h
               /\ h[1] \in SetUp => h \notin ToSet(p[l])
               /\ h[1] = "destroyed" => Do("established", h[2]) \notin ToSet(p[l])
<1> DEFINE p == [q EXCEPT ![l] = Tail(@)]
           h == Head(q[l])
<1>1. q[l] \in Seq(Functors) /\ Ordered(q[l])
  OBVIOUS
<1>2. Tail(q[l]) \in Seq(Functors) /\ h \in Functors /\ ToSet(q[l]) = ToSet(Tail(q[l])) \cup {h}
  BY <1>1, HeadAndTail
<1>3. /\ Ordered(Tail(q[l]))
      /\ h[1] \in SetUp => h \notin ToSet(Tail(q[l]))
      /\ h[1] = "destroyed" => Do("established", h[2]) \notin ToSet(Tail(q[l]))
  BY <1>1, DequeueOrdered
<1>4. /\ p \in [Loops -> Seq(Functors)] /\ p[l] = Tail(q[l])
      /\ \A k \in Loops : k # l => p[k] = q[k]
  BY <1>2
<1> QED
  BY <1>2, <1>3, <1>4

-----------------------------------------------------------------------------
(* The actions.                                                            *)

\* What TcpInv says of the queues, of the calls in progress and of the wires.
QueuesOK == \A l \in Loops : Ordered(queue[l]) /\ \A f \in ToSet(queue[l]) : FunctorOK(l, f)
CallOK(f) ==
    /\ f[2] <= accepted /\ conn[f[2]].ups = 1
    /\ f[1] = "shutdown" \/ (f[1] = "send" /\ f[3] \in Messages)
WiresOK ==
    /\ peer \in [Conns -> {"open", "closed"}]
    /\ incoming \in [Conns -> Seq(Bytes)] /\ arrived \in [Conns -> Seq(Bytes)]
    /\ sent \subseteq Messages
    /\ InputIntegrity

\* Connections at the stages where they are, and queues with the functors of
\* set-up and tear-down they have.
QuietConns(k) ==
    /\ k \in [Conns -> Connection]
    /\ \A c \in Conns : Sound(k[c]) /\ SameStage(conn[c], k[c])
QuietQueues(q) ==
    /\ q \in [Loops -> Seq(Functors)]
    /\ \A l \in Loops : Ordered(q[l])
    /\ \A l \in Loops : \A f \in ToSet(q[l]) :
         f \in ToSet(queue[l]) \/ (f[1] \notin SetUp /\ FunctorOK(l, f))
    /\ \A l \in Loops : \A f \in ToSet(queue[l]) : f[1] \in SetUp => f \in ToSet(q[l])

\* A step that leaves the stages of all connections alone: it may change the
\* rest of a connection, and put in or take out functors that are not of set-up
\* and tear-down.
LEMMA QuietStep ==
    ASSUME TcpInv,
           UNCHANGED <<numSubs, accepted, next, loopOf, connections, served, badRemove>>,
           up' \subseteq up,
           QuietConns(conn'), QuietQueues(queue'),
           calls' \subseteq Functors, \A f \in calls' : CallOK(f),
           WiresOK'
    PROVE  TcpInv'
<1> USE DEF QuietConns, QuietQueues
<1>1. \A c \in Conns : IsBuffer(conn'[c].out) /\ IsBuffer(conn'[c].in)
  BY DEF Sound
<1>2. TcpTypeOK'
  BY <1>1 DEF TcpInv, TcpTypeOK, WiresOK
<1>3. /\ accepted \in 0..MaxConns /\ MaxConns \in Nat /\ \A c \in 1..accepted : c \in Conns
      /\ \A c \in 1..accepted : loopOf[c] \in Loops
      /\ Base \in Loops
      /\ \A l \in Loops : \A f \in ToSet(queue[l]) : FunctorOK(l, f)
  <2>1. accepted \in 0..MaxConns /\ MaxConns \in Nat /\ loopOf \in [Conns -> Loops]
    BY ServerAssumption DEF TcpInv, TcpTypeOK
  <2>2. \A c \in 1..accepted : c \in Conns
    BY <2>1 DEF Conns
  <2> QED
    BY <2>1, <2>2 DEF TcpInv, Loops
<1>4. \A l \in Loops : \A f \in ToSet(queue'[l]) : f \in Functors /\ f[2] \in Conns
  <2>1. SUFFICES ASSUME NEW l \in Loops PROVE \A f \in ToSet(queue'[l]) : f \in Functors
    BY DEF Functors
  <2>2. queue'[l] \in Seq(Functors)
    OBVIOUS
  <2>3. DOMAIN queue'[l] = 1..Len(queue'[l]) /\ \A i \in 1..Len(queue'[l]) : queue'[l][i] \in Functors
    BY <2>2, LenProperties, ElementOfSeq
  <2> QED
    BY <2>3, Zenon DEF ToSet
<1>5. \A l \in Loops : \A f \in ToSet(queue'[l]) : FunctorOK(l, f)'
  <2>1. SUFFICES ASSUME NEW l \in Loops, NEW f \in ToSet(queue'[l])
                 PROVE  FunctorOK(l, f)'
    OBVIOUS
  <2>2. FunctorOK(l, f)
    BY <1>3, <2>1
  <2>3. conn'[f[2]].ups = conn[f[2]].ups
    BY <1>4, <2>1 DEF SameStage
  <2> QED
    BY <2>2, <2>3 DEF FunctorOK
<1>6. \A f \in calls' : CallOK(f)'
  <2>1. SUFFICES ASSUME NEW f \in calls' PROVE CallOK(f)'
    OBVIOUS
  <2>2. f[2] \in Conns
    BY DEF Functors
  <2>3. conn'[f[2]].ups = conn[f[2]].ups
    BY <2>2 DEF SameStage
  <2> QED
    BY <2>3 DEF CallOK
<1>7. \A c \in Conns : c > accepted' => Fresh(conn'[c])
  BY DEF TcpInv, SameStage
<1>8. \A l \in Loops, op \in SetUp, c \in Conns : Queued(l, Do(op, c))' <=> Queued(l, Do(op, c))
  BY DEF Queued, Do
<1>9. \A c \in 1..accepted : Stages(c)'
  <2>1. SUFFICES ASSUME NEW c \in 1..accepted PROVE Stages(c)'
    OBVIOUS
  <2>2. /\ \A l \in Loops : /\ Queued(l, Do("established", c))' <=> Queued(l, Do("established", c))
                            /\ Queued(l, Do("destroyed", c))' <=> Queued(l, Do("destroyed", c))
                            /\ Queued(l, Do("remove", c))' <=> Queued(l, Do("remove", c))
    BY <1>3, <1>8 DEF SetUp
  <2>3. /\ Queued(loopOf[c], Do("established", c))' <=> Queued(loopOf[c], Do("established", c))
        /\ Queued(loopOf[c], Do("destroyed", c))' <=> Queued(loopOf[c], Do("destroyed", c))
        /\ Queued(Base, Do("remove", c))' <=> Queued(Base, Do("remove", c))
    <3>1. loopOf[c] \in Loops /\ loopOf' = loopOf
      BY <1>3
    <3> QED
      BY <1>3, <2>2, <3>1 DEF Queued
  <2>4. Stages(c)
    BY DEF TcpInv
  <2>5. /\ Fresh(conn[c]) <=> Fresh(conn'[c])
        /\ Closed(conn[c]) <=> Closed(conn'[c])
        /\ Removed(conn[c]) <=> Removed(conn'[c])
        /\ conn'[c].downs = conn[c].downs
    BY <1>3 DEF SameStage
  <2> QED
    BY <2>3, <2>4, <2>5 DEF Stages
<1> QED
  BY <1>2, <1>5, <1>6, <1>7, <1>9 DEF TcpInv, WiresOK, CallOK

\* What TcpInv says of the constants and the types.
LEMMA Basics ==
    ASSUME TcpInv
    PROVE  /\ accepted \in Nat /\ accepted <= MaxConns /\ MaxConns \in Nat
           /\ 1..accepted \subseteq Conns /\ Base \in Loops
           /\ conn \in [Conns -> Connection] /\ loopOf \in [Conns -> Loops]
           /\ queue \in [Loops -> Seq(Functors)]
           /\ calls \subseteq Functors /\ up \subseteq Loops
           /\ \A l \in Loops : Ordered(queue[l])
           /\ \A l \in Loops : \A f \in ToSet(queue[l]) : FunctorOK(l, f)
           /\ \A c \in Conns : Sound(conn[c])
           /\ \A f \in calls : CallOK(f)
           /\ WiresOK
<1>1. accepted \in 0..MaxConns /\ MaxConns \in Nat
  BY ServerAssumption DEF TcpInv, TcpTypeOK
<1>2. 1..accepted \subseteq Conns
  BY <1>1 DEF Conns
<1>3. Base \in Loops
  BY DEF Loops
<1> QED
  BY <1>1, <1>2, <1>3 DEF TcpInv, TcpTypeOK, CallOK, WiresOK

\* Nothing done to the queues.
LEMMA SameQueues == ASSUME TcpInv PROVE QuietQueues(queue)
  BY Basics DEF QuietQueues

\* Nothing done to the connections.
LEMMA SameConns == ASSUME TcpInv PROVE QuietConns(conn)
  BY Basics DEF QuietConns, SameStage

\* One connection changed, at the same stage.
LEMMA OneConn ==
    ASSUME TcpInv, NEW c \in Conns, NEW k, Sound(k), SameStage(conn[c], k)
    PROVE  QuietConns([conn EXCEPT ![c] = k])
<1>1. k \in Connection
  BY DEF Sound
<1> QED
  BY <1>1, SameConns DEF QuietConns

\* A functor of another kind queued.
LEMMA EnqueueQuiet ==
    ASSUME NEW q, QuietQueues(q), NEW l \in Loops, NEW f \in Functors,
           f[1] \notin SetUp, FunctorOK(l, f)
    PROVE  QuietQueues(Enqueue(q, l, f))
<1> DEFINE p == Enqueue(q, l, f)
<1>1. \A c : f # Do("established", c)
  BY DEF SetUp, Do
<1>2. /\ p \in [Loops -> Seq(Functors)]
      /\ \A k \in Loops : Ordered(p[k])
      /\ \A k \in Loops : k # l => p[k] = q[k]
      /\ \A x : x \in ToSet(p[l]) <=> x \in ToSet(q[l]) \/ x = f
  <2>1. CanEnqueue(q, l, f)
    BY <1>1 DEF QuietQueues, CanEnqueue
  <2> QED
    BY <2>1, EnqueueSets
<1> HIDE DEF p
<1> QED
  BY <1>2 DEF QuietQueues, p

\* A functor of another kind taken off.
LEMMA DequeueQuiet ==
    ASSUME TcpInv, NEW l \in Loops, queue[l] # <<>>, Head(queue[l])[1] \notin SetUp
    PROVE  QuietQueues([queue EXCEPT ![l] = Tail(@)])
<1> DEFINE p == [queue EXCEPT ![l] = Tail(@)]
           h == Head(queue[l])
<1>1. /\ p \in [Loops -> Seq(Functors)] /\ h \in Functors
      /\ \A k \in Loops : Ordered(p[k])
      /\ \A k \in Loops : k # l => p[k] = queue[k]
      /\ \A x : x \in ToSet(queue[l]) <=> x \in ToSet(p[l]) \/ x = h
  BY Basics, DequeueSets
<1>2. h[1] \notin SetUp
  OBVIOUS
<1> HIDE DEF p, h
<1> QED
  BY <1>1, <1>2 DEF QuietQueues, p

\* _writeCompleteCallback queued, or not.
LEMMA CompleteQuiet ==
    ASSUME TcpInv, NEW q, QuietQueues(q), NEW c \in 1..accepted, NEW b
    PROVE  QuietQueues(IF b THEN Enqueue(q, loopOf[c], Do("complete", c)) ELSE q)
<1>1. c \in Conns /\ loopOf[c] \in Loops /\ accepted \in Nat
  BY Basics
<1>2. Do("complete", c) \in Functors /\ Do("complete", c)[1] \notin SetUp
  BY <1>1 DEF Do, Functors, SetUp
<1>3. FunctorOK(loopOf[c], Do("complete", c))
  BY <1>1 DEF Do, FunctorOK
<1> QED
  BY <1>1, <1>2, <1>3, EnqueueQuiet

\* The wires and the input of the connections, when those are left alone.
LEMMA SameWires ==
    ASSUME TcpInv, UNCHANGED wireVars, sent' \subseteq Messages,
           \A c \in Conns : conn'[c].in = conn[c].in /\ conn'[c].used = conn[c].used
    PROVE  WiresOK'
  BY Basics DEF WiresOK, wireVars, InputIntegrity

\* The bytes in the input buffer came from the peer.
LEMMA InputOver ==
    ASSUME TcpInv, NEW c \in Conns
    PROVE  LET u == conn[c].used
               r == Readable(conn[c].in)
           IN  /\ u \in Seq(Bytes) /\ r \in Seq(Bytes) /\ incoming[c] \in Seq(Bytes)
               /\ (u \o r) \o incoming[c] = arrived[c]
<1> DEFINE u == conn[c].used
           r == Readable(conn[c].in)
           v == incoming[c]
<1>1. Sound(conn[c]) /\ v \in Seq(Bytes) /\ arrived[c] \in Seq(Bytes) /\ (u \o r) \o v = arrived[c]
  BY Basics DEF WiresOK, InputIntegrity
<1>2. /\ u \in Seq(Bytes) /\ u \in Seq(Cells) /\ Bytes \subseteq Cells
      /\ BufferOver(Cells, conn[c].in)
  BY <1>1, SoundParts
<1>3. r \in Seq(Cells) /\ v \in Seq(Cells)
  BY <1>1, <1>2, BufferFields, SeqMonotonic
<1> HIDE DEF u, r, v
<1>4. u \o r \in Seq(Cells)
  BY <1>2, <1>3, ConcatProperties
<1>5. u \o r \in Seq(Bytes)
  BY <1>1, <1>2, <1>3, <1>4, PrefixOver
<1>6. r \in Seq(Bytes)
  BY <1>2, <1>3, <1>5, SuffixOver
<1> QED
  BY <1>1, <1>2, <1>6 DEF u, r, v

\* A connection with users' calls or events was accepted.
LEMMA NotFreshIsAccepted ==
    ASSUME TcpInv, NEW c \in Conns, ~Fresh(conn[c])
    PROVE  c \in 1..accepted
<1>1. accepted \in Nat /\ c \in Nat /\ c >= 1
  BY Basics DEF Conns
<1>2. ~(c > accepted)
  BY DEF TcpInv
<1> QED
  BY <1>1, <1>2

\* What a loop does for send, whether at once or out of its queue.
LEMMA SendStep ==
    ASSUME TcpInv, NEW c \in 1..accepted, NEW m \in Messages, NEW n \in 0..WriteError,
           NEW q, QuietQueues(q),
           conn' = [conn EXCEPT ![c] = SendInLoop(@, m, n)],
           queue' = IF SendCompletes(conn[c], n)
                    THEN Enqueue(q, loopOf[c], Do("complete", c)) ELSE q,
           sent' \subseteq Messages,
           UNCHANGED <<numSubs, accepted, next, loopOf, connections, wireVars, calls, up, served,
                       badRemove>>
    PROVE  TcpInv'
<1> DEFINE k == SendInLoop(conn[c], m, n)
<1>1. c \in Conns /\ Sound(conn[c]) /\ conn \in [Conns -> Connection]
  BY Basics
<1>2. Sound(k) /\ SameStage(conn[c], k) /\ k.in = conn[c].in /\ k.used = conn[c].used
  BY <1>1, SendKeeps
<1>3. conn' = [conn EXCEPT ![c] = k]
  OBVIOUS
<1> HIDE DEF k
<1>4. QuietConns(conn')
  <2>1. QuietConns([conn EXCEPT ![c] = k])
    BY <1>1, <1>2, OneConn
  <2> QED
    BY <1>3, <2>1
<1>5. QuietQueues(queue')
  BY CompleteQuiet
<1>6. WiresOK'
  <2>1. \A b \in Conns : conn'[b].in = conn[b].in /\ conn'[b].used = conn[b].used
    BY <1>1, <1>2, <1>3
  <2> QED
    BY <2>1, SameWires
<1>7. calls' \subseteq Functors /\ \A f \in calls' : CallOK(f)
  BY Basics
<1> QED
  BY <1>4, <1>5, <1>6, <1>7, QuietStep

\* And for shutdown.
LEMMA ShutdownStep ==
    ASSUME TcpInv, NEW c \in 1..accepted, conn[c].ups = 1,
           conn' = [conn EXCEPT ![c] = ShutdownInLoop(@)],
           QuietQueues(queue'),
           UNCHANGED <<numSubs, accepted, next, loopOf, connections, wireVars, calls, up, served,
                       sent, badRemove>>
    PROVE  TcpInv'
<1> DEFINE k == ShutdownInLoop(conn[c])
<1>1. c \in Conns /\ Sound(conn[c]) /\ conn \in [Conns -> Connection]
  BY Basics
<1>2. Sound(k) /\ SameStage(conn[c], k) /\ k.in = conn[c].in /\ k.used = conn[c].used
  BY <1>1, ShutdownKeeps
<1>3. conn' = [conn EXCEPT ![c] = k]
  OBVIOUS
<1> HIDE DEF k
<1>4. QuietConns(conn')
  <2>1. QuietConns([conn EXCEPT ![c] = k])
    BY <1>1, <1>2, OneConn
  <2> QED
    BY <1>3, <2>1
<1>5. WiresOK'
  <2>1. \A b \in Conns : conn'[b].in = conn[b].in /\ conn'[b].used = conn[b].used
    BY <1>1, <1>2, <1>3
  <2>2. sent' \subseteq Messages
    BY Basics DEF WiresOK
  <2> QED
    BY <2>1, <2>2, SameWires
<1>6. calls' \subseteq Functors /\ \A f \in calls' : CallOK(f)
  BY Basics
<1> QED
  BY <1>4, <1>5, <1>6, QuietStep

\* A registered connection is live, and was accepted.
LEMMA RegisteredIsLive ==
    ASSUME TcpInv, NEW c \in Conns, Registered(c) \/ IsOpen(c)
    PROVE  c \in 1..accepted /\ Live(conn[c]) /\ conn[c].ups = 1
<1>1. Sound(conn[c])
  BY Basics
<1>2. Live(conn[c]) /\ ~Fresh(conn[c]) /\ conn[c].ups = 1
  BY <1>1, OneStage DEF Registered, IsOpen
<1> QED
  BY <1>2, NotFreshIsAccepted

LEMMA ReadEventKeeps ==
    ASSUME TcpInv, NEW c \in Conns, ReadEvent(c)
    PROVE  TcpInv'
<1>1. PICK n \in 1..Len(incoming[c]) :
        /\ \E k \in 0..(ReadableBytes(conn[c].in) + n) :
              conn' = [conn EXCEPT ![c] = HandleRead(@, SubSeq(incoming[c], 1, n), k)]
        /\ incoming' = [incoming EXCEPT ![c] = SubSeq(@, n + 1, Len(@))]
  BY DEF ReadEvent
<1>2. PICK k \in 0..(ReadableBytes(conn[c].in) + n) :
        conn' = [conn EXCEPT ![c] = HandleRead(@, SubSeq(incoming[c], 1, n), k)]
  BY <1>1
<1> DEFINE v == incoming[c]
           x == SubSeq(v, 1, n)
           y == SubSeq(v, n + 1, Len(v))
           s == HandleRead(conn[c], x, k)
           u == conn[c].used
           r == Readable(conn[c].in)
<1>3. conn' = [conn EXCEPT ![c] = s] /\ incoming' = [incoming EXCEPT ![c] = y]
  BY <1>1, <1>2
<1>4. /\ u \in Seq(Bytes) /\ r \in Seq(Bytes) /\ v \in Seq(Bytes)
      /\ (u \o r) \o v = arrived[c]
  BY InputOver
<1>5. Sound(conn[c]) /\ conn \in [Conns -> Connection] /\ WiresOK
  BY Basics
<1>6. n \in 0..Len(v) /\ k \in 0..(ReadableBytes(conn[c].in) + n)
  BY <1>4, LenProperties
<1> HIDE DEF v, u, r
<1>7. x \in Seq(Bytes) /\ y \in Seq(Bytes) /\ Len(x) = n /\ x \o y = v
  BY <1>4, <1>6, SplitSeq
<1> HIDE DEF x, y
<1>8. Sound(s) /\ SameStage(conn[c], s) /\ s.used \o Readable(s.in) = (u \o r) \o x
  BY <1>4, <1>5, <1>6, <1>7, ReadKeeps DEF u, r
<1> HIDE DEF s
<1>9. (s.used \o Readable(s.in)) \o y = arrived[c]
  <2>1. u \o r \in Seq(Bytes)
    BY <1>4, ConcatProperties
  <2>2. ((u \o r) \o x) \o y = (u \o r) \o (x \o y)
    <3> DEFINE w == u \o r
    <3>1. w \in Seq(Bytes) /\ x \in Seq(Bytes) /\ y \in Seq(Bytes)
      BY <1>7, <2>1
    <3> HIDE DEF w
    <3>2. (w \o x) \o y = w \o (x \o y)
      BY SMTT(30), <3>1, ConcatAssociative
    <3> QED
      BY <3>2 DEF w
  <2> QED
    BY <1>4, <1>7, <1>8, <2>2
<1>10. QuietConns(conn')
  <2>1. QuietConns([conn EXCEPT ![c] = s])
    BY <1>8, OneConn
  <2> QED
    BY <1>3, <2>1
<1>11. QuietQueues(queue') /\ calls' \subseteq Functors /\ \A f \in calls' : CallOK(f)
  BY SameQueues, Basics DEF ReadEvent
<1>12. WiresOK'
  <2>1. /\ incoming' \in [Conns -> Seq(Bytes)] /\ arrived' = arrived /\ peer' = peer
        /\ sent' = sent /\ WiresOK
    BY <1>3, <1>5, <1>7 DEF ReadEvent, WiresOK
  <2>2. ASSUME NEW b \in Conns
        PROVE  (conn'[b].used \o Readable(conn'[b].in)) \o incoming'[b] = arrived[b]
    <3>1. CASE b = c
      <4>1. conn'[b] = s /\ incoming'[b] = y
        BY <1>3, <1>5, <3>1 DEF WiresOK
      <4> QED
        BY <1>9, <3>1, <4>1
    <3>2. CASE b # c
      <4>1. conn'[b] = conn[b] /\ incoming'[b] = incoming[b]
        BY <1>3, <1>5, <3>2 DEF WiresOK
      <4> QED
        BY <1>5, <4>1 DEF WiresOK, InputIntegrity
    <3> QED
      BY <3>1, <3>2
  <2> QED
    BY <2>1, <2>2 DEF WiresOK, InputIntegrity
<1> QED
  BY <1>10, <1>11, <1>12, QuietStep DEF ReadEvent

LEMMA WriteEventKeeps ==
    ASSUME TcpInv, NEW c \in Conns, WriteEvent(c)
    PROVE  TcpInv'
<1>1. PICK n \in 1..ReadableBytes(conn[c].out) :
        /\ conn' = [conn EXCEPT ![c] = HandleWrite(@, n)]
        /\ queue' = IF WriteCompletes(conn[c], n)
                    THEN Enqueue(queue, loopOf[c], Do("complete", c)) ELSE queue
  BY DEF WriteEvent
<1> DEFINE k == HandleWrite(conn[c], n)
<1>2. c \in 1..accepted /\ Live(conn[c]) /\ conn[c].writing
  BY RegisteredIsLive DEF WriteEvent
<1>3. Sound(conn[c]) /\ conn \in [Conns -> Connection]
  BY Basics
<1>4. Sound(k) /\ SameStage(conn[c], k) /\ k.in = conn[c].in /\ k.used = conn[c].used
  BY <1>2, <1>3, WriteKeeps
<1>5. conn' = [conn EXCEPT ![c] = k]
  BY <1>1
<1> HIDE DEF k
<1>6. QuietConns(conn')
  <2>1. QuietConns([conn EXCEPT ![c] = k])
    BY <1>4, OneConn
  <2> QED
    BY <1>5, <2>1
<1>7. QuietQueues(queue')
  BY <1>1, <1>2, SameQueues, CompleteQuiet
<1>8. WiresOK'
  <2>1. \A b \in Conns : conn'[b].in = conn[b].in /\ conn'[b].used = conn[b].used
    BY <1>3, <1>4, <1>5
  <2>2. sent' \subseteq Messages
    BY Basics DEF WiresOK, WriteEvent
  <2> QED
    BY <2>1, <2>2, SameWires DEF WriteEvent
<1>9. calls' \subseteq Functors /\ \A f \in calls' : CallOK(f)
  BY Basics DEF WriteEvent
<1> QED
  BY <1>6, <1>7, <1>8, <1>9, QuietStep DEF WriteEvent

LEMMA PeerSendKeeps ==
    ASSUME TcpInv, NEW c \in Conns, NEW m \in Messages, PeerSend(c, m)
    PROVE  TcpInv'
<1> DEFINE u == conn[c].used
           r == Readable(conn[c].in)
           v == incoming[c]
           x == BytesOf(m)
<1>1. /\ incoming' = [incoming EXCEPT ![c] = v \o x]
      /\ arrived' = [arrived EXCEPT ![c] = arrived[c] \o x]
      /\ sent' = sent \cup {m} /\ conn' = conn /\ peer' = peer
  BY DEF PeerSend
<1>2. /\ u \in Seq(Bytes) /\ r \in Seq(Bytes) /\ v \in Seq(Bytes)
      /\ (u \o r) \o v = arrived[c]
  BY InputOver
<1>3. x \in Seq(Bytes)
  BY MessageBytes
<1>4. WiresOK
  BY Basics
<1>5. /\ (u \o r) \o (v \o x) = arrived[c] \o x
      /\ v \o x \in Seq(Bytes) /\ arrived[c] \o x \in Seq(Bytes)
  <2> HIDE DEF u, r, v, x
  <2>1. u \o r \in Seq(Bytes) /\ v \o x \in Seq(Bytes) /\ arrived[c] \in Seq(Bytes)
    BY <1>2, <1>3, <1>4, ConcatProperties DEF WiresOK
  <2>2. ((u \o r) \o v) \o x = (u \o r) \o (v \o x)
    <3> DEFINE w == u \o r
    <3>1. w \in Seq(Bytes) /\ v \in Seq(Bytes) /\ x \in Seq(Bytes)
      BY <1>2, <1>3, <2>1
    <3> HIDE DEF w
    <3>2. (w \o v) \o x = w \o (v \o x)
      BY SMTT(30), <3>1, ConcatAssociative
    <3> QED
      BY <3>2 DEF w
  <2>3. arrived[c] \o x \in Seq(Bytes)
    BY <1>3, <2>1, ConcatProperties
  <2> QED
    BY <1>2, <2>1, <2>2, <2>3
<1>6. WiresOK'
  <2>1. /\ incoming' \in [Conns -> Seq(Bytes)] /\ arrived' \in [Conns -> Seq(Bytes)]
        /\ peer' = peer /\ sent' \subseteq Messages
    BY <1>1, <1>4, <1>5 DEF WiresOK
  <2>2. ASSUME NEW b \in Conns
        PROVE  (conn'[b].used \o Readable(conn'[b].in)) \o incoming'[b] = arrived'[b]
    <3>1. CASE b = c
      <4>1. incoming'[b] = v \o x /\ arrived'[b] = arrived[c] \o x
        BY <1>1, <1>4, <3>1 DEF WiresOK
      <4> QED
        BY <1>1, <1>5, <3>1, <4>1
    <3>2. CASE b # c
      <4>1. incoming'[b] = incoming[b] /\ arrived'[b] = arrived[b]
        BY <1>1, <1>4, <3>2 DEF WiresOK
      <4> QED
        BY <1>1, <1>4, <4>1 DEF WiresOK, InputIntegrity
    <3> QED
      BY <3>1, <3>2
  <2> QED
    BY <1>4, <2>1, <2>2 DEF WiresOK, InputIntegrity
<1>7. /\ QuietConns(conn') /\ QuietQueues(queue')
      /\ calls' \subseteq Functors /\ \A f \in calls' : CallOK(f)
  BY SameConns, SameQueues, Basics DEF PeerSend
<1> QED
  BY <1>6, <1>7, QuietStep DEF PeerSend

LEMMA PeerCloseKeeps ==
    ASSUME TcpInv, NEW c \in Conns, PeerClose(c)
    PROVE  TcpInv'
<1>1. WiresOK'
  BY Basics DEF PeerClose, WiresOK, InputIntegrity
<1>2. /\ QuietConns(conn') /\ QuietQueues(queue')
      /\ calls' \subseteq Functors /\ \A f \in calls' : CallOK(f)
  BY SameConns, SameQueues, Basics DEF PeerClose
<1> QED
  BY <1>1, <1>2, QuietStep DEF PeerClose

LEMMA SendHereKeeps ==
    ASSUME TcpInv, NEW c \in Conns, NEW m \in Messages, SendHere(c, m)
    PROVE  TcpInv'
<1>1. PICK n \in 0..WriteError :
        /\ conn' = [conn EXCEPT ![c] = SendInLoop(@, m, n)]
        /\ queue' = IF SendCompletes(conn[c], n)
                    THEN Enqueue(queue, loopOf[c], Do("complete", c)) ELSE queue
  BY DEF SendHere
<1>2. c \in 1..accepted
  BY RegisteredIsLive DEF SendHere
<1>3. sent' \subseteq Messages
  BY Basics DEF WiresOK, SendHere
<1>4. QuietQueues(queue)
  BY SameQueues
<1> QED
  BY <1>1, <1>2, <1>3, <1>4, SendStep DEF SendHere

LEMMA ShutdownHereKeeps ==
    ASSUME TcpInv, NEW c \in Conns, ShutdownHere(c)
    PROVE  TcpInv'
<1>1. c \in 1..accepted /\ conn[c].ups = 1
  BY RegisteredIsLive DEF ShutdownHere
<1>2. QuietQueues(queue')
  BY SameQueues DEF ShutdownHere
<1> QED
  BY <1>1, <1>2, ShutdownStep DEF ShutdownHere

\* The steps that change neither connections nor wires.
LEMMA OtherStep ==
    ASSUME TcpInv, QuietQueues(queue'), calls' \subseteq Functors, \A f \in calls' : CallOK(f),
           sent' \subseteq Messages, up' \subseteq up,
           UNCHANGED <<numSubs, accepted, next, conn, loopOf, connections, wireVars, served,
                       badRemove>>
    PROVE  TcpInv'
<1>1. QuietConns(conn')
  BY SameConns
<1>2. WiresOK'
  BY SameWires
<1> QED
  BY <1>1, <1>2, QuietStep

LEMMA CallSendKeeps ==
    ASSUME TcpInv, NEW c \in Conns, NEW m \in Messages, CallSend(c, m)
    PROVE  TcpInv'
<1> DEFINE f == <<"send", c, m>>
<1>1. c \in 1..accepted /\ conn[c].ups = 1 /\ accepted \in Nat
  BY RegisteredIsLive, Basics DEF CallSend
<1>2. f \in Functors /\ CallOK(f)
  BY <1>1 DEF Functors, CallOK
<1> HIDE DEF f
<1>3. /\ calls' = calls \cup {f} /\ calls \subseteq Functors /\ \A g \in calls : CallOK(g)
      /\ sent' \subseteq Messages
  BY Basics DEF CallSend, WiresOK, f
<1>4. calls' \subseteq Functors /\ \A g \in calls' : CallOK(g)
  BY <1>2, <1>3
<1>5. QuietQueues(queue')
  BY SameQueues DEF CallSend
<1> QED
  BY <1>3, <1>4, <1>5, OtherStep DEF CallSend

LEMMA CallShutdownKeeps ==
    ASSUME TcpInv, NEW c \in Conns, CallShutdown(c)
    PROVE  TcpInv'
<1> DEFINE f == Do("shutdown", c)
<1>1. c \in 1..accepted /\ conn[c].ups = 1 /\ accepted \in Nat
  BY RegisteredIsLive, Basics DEF CallShutdown
<1>2. f \in Functors /\ CallOK(f)
  BY <1>1 DEF Functors, CallOK, Do
<1> HIDE DEF f
<1>3. /\ calls' = calls \cup {f} /\ calls \subseteq Functors /\ \A g \in calls : CallOK(g)
      /\ sent' \subseteq Messages
  BY Basics DEF CallShutdown, WiresOK, f
<1>4. calls' \subseteq Functors /\ \A g \in calls' : CallOK(g)
  BY <1>2, <1>3
<1>5. QuietQueues(queue')
  BY SameQueues DEF CallShutdown
<1> QED
  BY <1>3, <1>4, <1>5, OtherStep DEF CallShutdown

LEMMA QueueCallKeeps ==
    ASSUME TcpInv, NEW f \in calls, QueueCall(f)
    PROVE  TcpInv'
<1>1. /\ f \in Functors /\ f[2] \in Conns /\ CallOK(f) /\ loopOf[f[2]] \in Loops
  BY Basics DEF Functors
<1>2. f[1] \notin SetUp /\ FunctorOK(loopOf[f[2]], f)
  BY <1>1 DEF CallOK, FunctorOK, SetUp
<1>3. QuietQueues(Enqueue(queue, loopOf[f[2]], f))
  BY <1>1, <1>2, SameQueues, EnqueueQuiet
<1>4. /\ calls' \subseteq Functors /\ \A g \in calls' : CallOK(g)
      /\ sent' \subseteq Messages
  BY Basics DEF QueueCall, WiresOK
<1> QED
  BY <1>3, <1>4, OtherStep DEF QueueCall

LEMMA LoopExitKeeps ==
    ASSUME TcpInv, NEW l \in Loops, LoopExit(l)
    PROVE  TcpInv'
<1>1. /\ calls' \subseteq Functors /\ \A g \in calls' : CallOK(g)
      /\ sent' \subseteq Messages /\ QuietQueues(queue')
  BY Basics, SameQueues DEF LoopExit, WiresOK
<1>2. up' \subseteq up
  BY DEF LoopExit
<1> QED
  BY <1>1, <1>2, OtherStep DEF LoopExit

LEMMA StutterKeeps ==
    ASSUME TcpInv, UNCHANGED vars
    PROVE  TcpInv'
<1>1. /\ calls' \subseteq Functors /\ \A g \in calls' : CallOK(g)
      /\ sent' \subseteq Messages /\ QuietQueues(queue')
  BY Basics, SameQueues DEF vars, WiresOK
<1> QED
  BY <1>1, OtherStep DEF vars

\* Queues of which only the functors of set-up and tear-down of c may differ.
OneQueues(q, c) ==
    /\ q \in [Loops -> Seq(Functors)]
    /\ \A l \in Loops : Ordered(q[l])
    /\ \A l \in Loops : \A f \in ToSet(q[l]) :
         f \in ToSet(queue[l]) \/ (f[1] \in SetUp /\ f[2] = c /\ FunctorOK(l, f))
    /\ \A l \in Loops : \A f \in ToSet(queue[l]) :
         f[1] \in SetUp /\ f[2] # c => f \in ToSet(q[l])

\* A step of set-up or tear-down of one connection: the invariant is kept when
\* that connection keeps Stages.
LEMMA StageStep ==
    ASSUME TcpInv, NEW c \in 1..accepted,
           NEW k, Sound(k), k.in = conn[c].in, k.used = conn[c].used,
           conn[c].ups = 1 => k.ups = 1,
           conn' = [conn EXCEPT ![c] = k],
           connections' \subseteq connections, connections \ {c} \subseteq connections',
           OneQueues(queue', c),
           UNCHANGED <<numSubs, accepted, next, loopOf, wireVars, calls, up, served, sent>>,
           ~badRemove', badRemove' \in BOOLEAN,
           Stages(c)'
    PROVE  TcpInv'
<1>1. /\ accepted \in Nat /\ 1..accepted \subseteq Conns /\ c \in Conns /\ Base \in Loops
      /\ conn \in [Conns -> Connection] /\ loopOf \in [Conns -> Loops]
      /\ \A b \in Conns : Sound(conn[b])
      /\ WiresOK /\ \A l \in Loops : \A f \in ToSet(queue[l]) : FunctorOK(l, f)
      /\ calls \subseteq Functors
  BY Basics
<1>2. /\ conn'[c] = k /\ \A b \in Conns : b # c => conn'[b] = conn[b]
      /\ conn' \in [Conns -> Connection]
  BY <1>1 DEF Sound
<1>3. \A b \in Conns : Sound(conn'[b])
  BY <1>1, <1>2
<1>4. WiresOK'
  <2>1. \A b \in Conns : conn'[b].in = conn[b].in /\ conn'[b].used = conn[b].used
    BY <1>2
  <2>2. sent' \subseteq Messages
    BY <1>1 DEF WiresOK
  <2> QED
    BY <2>1, <2>2, SameWires
<1>5. TcpTypeOK'
  <2>1. \A b \in Conns : IsBuffer(conn'[b].out) /\ IsBuffer(conn'[b].in)
    BY <1>3 DEF Sound
  <2> QED
    BY <1>2, <1>4, <2>1 DEF TcpInv, TcpTypeOK, WiresOK, OneQueues
<1>6. \A b \in Conns : conn[b].ups = 1 => conn'[b].ups = 1
  BY <1>2
<1>7. \A l \in Loops : \A f \in ToSet(queue'[l]) : FunctorOK(l, f)'
  <2>1. SUFFICES ASSUME NEW l \in Loops, NEW f \in ToSet(queue'[l])
                 PROVE  FunctorOK(l, f)'
    OBVIOUS
  <2>2. FunctorOK(l, f)
    BY <1>1 DEF OneQueues
  <2>3. f \in Functors
    <3>1. queue'[l] \in Seq(Functors)
      BY DEF OneQueues
    <3>2. /\ DOMAIN queue'[l] = 1..Len(queue'[l])
          /\ \A i \in 1..Len(queue'[l]) : queue'[l][i] \in Functors
      BY <3>1, LenProperties, ElementOfSeq
    <3> QED
      BY <3>2, Zenon DEF ToSet
  <2>4. f[2] \in Conns
    BY <2>3 DEF Functors
  <2> QED
    BY <1>6, <2>2, <2>4 DEF FunctorOK
<1>8. \A f \in calls' : CallOK(f)'
  <2>1. \A f \in calls : CallOK(f) /\ f[2] \in Conns
    BY <1>1, Basics DEF Functors
  <2> QED
    BY <1>6, <2>1 DEF CallOK
<1>9. \A b \in Conns : b > accepted' => Fresh(conn'[b])
  <2>1. SUFFICES ASSUME NEW b \in Conns, b > accepted PROVE Fresh(conn'[b])
    OBVIOUS
  <2>2. b # c
    BY <1>1, <2>1
  <2> QED
    BY <1>2, <2>1, <2>2 DEF TcpInv
<1>10. ASSUME NEW b \in 1..accepted PROVE Stages(b)'
  <2>1. CASE b = c
    BY <2>1
  <2>2. CASE b # c
    <3>1. b \in Conns /\ conn'[b] = conn[b] /\ loopOf[b] \in Loops
      BY <1>1, <1>2, <2>2
    <3>2. \A l \in Loops, op \in SetUp : Queued(l, Do(op, b))' <=> Queued(l, Do(op, b))
      BY <2>2 DEF OneQueues, Queued, Do
    <3>3. /\ Queued(loopOf[b], Do("established", b))' <=> Queued(loopOf[b], Do("established", b))
          /\ Queued(loopOf[b], Do("destroyed", b))' <=> Queued(loopOf[b], Do("destroyed", b))
          /\ Queued(Base, Do("remove", b))' <=> Queued(Base, Do("remove", b))
      BY <1>1, <3>1, <3>2 DEF SetUp, Queued
    <3>4. b \in connections' <=> b \in connections
      BY <2>2
    <3>5. Stages(b)
      BY DEF TcpInv
    <3> QED
      BY <3>1, <3>3, <3>4, <3>5 DEF Stages
  <2> QED
    BY <2>1, <2>2
<1>11. \A l \in Loops : Ordered(queue'[l])
  BY DEF OneQueues
<1>12. ~served' => connections' = {} /\ Base \notin up'
  BY DEF TcpInv
<1>13. numSubs' = 0 => \A b \in 1..accepted' : loopOf'[b] = Base
  BY DEF TcpInv
<1> QED
  BY <1>3, <1>4, <1>5, <1>7, <1>8, <1>9, <1>10, <1>11, <1>12, <1>13 DEF TcpInv, WiresOK, CallOK

\* A functor of set-up or tear-down taken off a queue.
LEMMA DequeueOne ==
    ASSUME TcpInv, NEW l \in Loops, queue[l] # <<>>,
           NEW op \in SetUp, NEW c, Head(queue[l]) = Do(op, c)
    PROVE  LET h == Do(op, c)
               p == [queue EXCEPT ![l] = Tail(@)]
           IN  /\ OneQueues(p, c) /\ c \in 1..accepted
               /\ Queued(l, h) /\ FunctorOK(l, h)
               /\ \A j \in Loops : \A x : x \in ToSet(p[j]) <=> x \in ToSet(queue[j]) /\ (j # l \/ x # h)
               /\ op = "destroyed" => Do("established", c) \notin ToSet(p[l])
<1> DEFINE p == [queue EXCEPT ![l] = Tail(@)]
           h == Do(op, c)
<1>1. /\ queue \in [Loops -> Seq(Functors)] /\ \A k \in Loops : Ordered(queue[k])
      /\ \A k \in Loops : \A f \in ToSet(queue[k]) : FunctorOK(k, f)
      /\ accepted \in Nat
  BY Basics
<1>2. h[1] \in SetUp /\ h[1] = op /\ h[2] = c /\ h = Head(queue[l])
  BY DEF Do
<1> HIDE DEF h
<1>3. /\ p \in [Loops -> Seq(Functors)] /\ h \in Functors
      /\ \A k \in Loops : Ordered(p[k])
      /\ \A k \in Loops : k # l => p[k] = queue[k]
      /\ \A x : x \in ToSet(queue[l]) <=> x \in ToSet(p[l]) \/ x = h
      /\ h[1] \in SetUp => h \notin ToSet(p[l])
      /\ h[1] = "destroyed" => Do("established", h[2]) \notin ToSet(p[l])
  BY <1>1, <1>2, DequeueSets
<1> HIDE DEF p
<1>4. FunctorOK(l, h) /\ Queued(l, h)
  BY <1>1, <1>3 DEF Queued
<1>5. c \in 1..accepted
  BY <1>1, <1>2, <1>3, <1>4 DEF Functors, FunctorOK, Conns
<1>6. \A j \in Loops : \A x : x \in ToSet(p[j]) <=> x \in ToSet(queue[j]) /\ (j # l \/ x # h)
  BY <1>2, <1>3
<1>7. OneQueues(p, c)
  BY <1>2, <1>3, <1>6 DEF OneQueues
<1> QED
  BY <1>2, <1>3, <1>4, <1>5, <1>6, <1>7 DEF p, h

\* connectDestroyed or remove of c queued, that was not.
LEMMA EnqueueOne ==
    ASSUME NEW q, NEW c \in Conns, OneQueues(q, c), NEW l \in Loops,
           NEW op \in {"destroyed", "remove"}, FunctorOK(l, Do(op, c)),
           Do(op, c) \notin ToSet(q[l])
    PROVE  LET p == Enqueue(q, l, Do(op, c)) IN
             /\ OneQueues(p, c)
             /\ \A j \in Loops : \A x :
                  x \in ToSet(p[j]) <=> x \in ToSet(q[j]) \/ (j = l /\ x = Do(op, c))
<1> DEFINE f == Do(op, c)
           p == Enqueue(q, l, f)
<1>1. f \in Functors /\ f[1] \in SetUp /\ f[2] = c /\ \A b : f # Do("established", b)
  BY DEF Functors, Do, SetUp
<1>2. FunctorOK(l, f) /\ f \notin ToSet(q[l])
  OBVIOUS
<1> HIDE DEF f
<1>3. CanEnqueue(q, l, f)
  BY <1>1, <1>2 DEF OneQueues, CanEnqueue
<1>4. /\ p \in [Loops -> Seq(Functors)]
      /\ \A k \in Loops : Ordered(p[k])
      /\ \A k \in Loops : k # l => p[k] = q[k]
      /\ \A x : x \in ToSet(p[l]) <=> x \in ToSet(q[l]) \/ x = f
  BY <1>3, EnqueueSets
<1> HIDE DEF p
<1>5. \A j \in Loops : \A x : x \in ToSet(p[j]) <=> x \in ToSet(q[j]) \/ (j = l /\ x = f)
  BY <1>4
<1>6. OneQueues(p, c)
  BY <1>1, <1>2, <1>4, <1>5 DEF OneQueues
<1> QED
  BY <1>5, <1>6 DEF p, f

\* Functors of different kinds differ.
LEMMA KindsDiffer ==
    \A c : /\ Do("established", c) # Do("destroyed", c)
           /\ Do("established", c) # Do("remove", c)
           /\ Do("destroyed", c) # Do("remove", c)
  BY DEF Do

\* connectEstablished, as the head of the loop's queue.
LEMMA RunEstablishedKeeps ==
    ASSUME TcpInv, NEW l \in Loops, queue[l] # <<>>, NEW c, Head(queue[l]) = Do("established", c),
           conn' = [conn EXCEPT ![c] = ConnectEstablished(@)],
           queue' = [queue EXCEPT ![l] = Tail(@)],
           UNCHANGED <<numSubs, accepted, next, loopOf, connections, wireVars, calls, up, served,
                       sent, badRemove>>
    PROVE  TcpInv'
<1> DEFINE h == Do("established", c)
           p == [queue EXCEPT ![l] = Tail(@)]
           k == ConnectEstablished(conn[c])
<1>1. /\ OneQueues(p, c) /\ c \in 1..accepted /\ Queued(l, h) /\ FunctorOK(l, h)
      /\ \A j \in Loops : \A x : x \in ToSet(p[j]) <=> x \in ToSet(queue[j]) /\ (j # l \/ x # h)
  BY DequeueOne DEF SetUp
<1>2. conn' = [conn EXCEPT ![c] = k] /\ queue' = p
  OBVIOUS
<1> HIDE DEF p
<1>3. l = loopOf[c]
  BY <1>1 DEF FunctorOK, Do
<1>4. /\ Stages(c) /\ c \in Conns /\ Sound(conn[c]) /\ loopOf[c] \in Loops /\ Base \in Loops
      /\ conn \in [Conns -> Connection]
  BY <1>1, Basics DEF TcpInv
<1>5. Fresh(conn[c])
  BY <1>1, <1>3, <1>4 DEF Stages
<1>6. /\ ~Removed(conn[c]) /\ ~Closed(conn[c]) /\ conn[c].downs = 0 /\ conn[c].ups = 0
  BY <1>4, <1>5, OneStage
<1>7. Sound(k) /\ Live(k) /\ k.in = conn[c].in /\ k.used = conn[c].used
  BY <1>4, <1>5, EstablishedIsLive
<1>8. ~Fresh(k) /\ ~Removed(k) /\ ~Closed(k) /\ k.downs = 0 /\ k.ups = 1
  BY <1>7, OneStage
<1> HIDE DEF k
<1>9. conn'[c] = k /\ loopOf' = loopOf
  BY <1>2, <1>4
<1>10. /\ ~Queued(loopOf[c], Do("established", c))'
       /\ Queued(loopOf[c], Do("destroyed", c))' <=> Queued(loopOf[c], Do("destroyed", c))
       /\ Queued(Base, Do("remove", c))' <=> Queued(Base, Do("remove", c))
  <2>1. h # Do("destroyed", c) /\ h # Do("remove", c)
    BY <1>3, KindsDiffer
  <2> QED
    BY <1>1, <1>2, <1>3, <1>4, <1>9, <2>1 DEF Queued
<1>11. Stages(c)'
  BY <1>4, <1>5, <1>6, <1>8, <1>9, <1>10 DEF Stages
<1>12. ~badRemove' /\ badRemove' \in BOOLEAN
  BY DEF TcpInv, TcpTypeOK
<1>13. connections' \subseteq connections /\ connections \ {c} \subseteq connections'
  OBVIOUS
<1> QED
  BY <1>1, <1>2, <1>6, <1>7, <1>8, <1>11, <1>12, <1>13, StageStep

\* removeConnectionInLoop, as the head of the base loop's queue.
LEMMA RunRemoveKeeps ==
    ASSUME TcpInv, NEW l \in up, queue[l] # <<>>, NEW c, Head(queue[l]) = Do("remove", c),
           RemoveConnectionInLoop(c, [queue EXCEPT ![l] = Tail(@)]),
           UNCHANGED <<numSubs, accepted, next, conn, loopOf, wireVars, calls, up, served, sent,
                       badRemove>>
    PROVE  TcpInv'
<1> DEFINE h == Do("remove", c)
           p == [queue EXCEPT ![l] = Tail(@)]
           k == conn[c]
           f == Do("destroyed", c)
<1>1. /\ OneQueues(p, c) /\ c \in 1..accepted /\ Queued(l, h) /\ FunctorOK(l, h) /\ l \in Loops
      /\ \A j \in Loops : \A x : x \in ToSet(p[j]) <=> x \in ToSet(queue[j]) /\ (j # l \/ x # h)
  <2>1. l \in Loops
    BY Basics
  <2> QED
    BY <2>1, DequeueOne DEF SetUp
<1>2. /\ queue' = Enqueue(p, loopOf[c], f)
      /\ connections' = connections \ {c} /\ conn' = conn
  BY DEF RemoveConnectionInLoop
<1> HIDE DEF p
<1>3. l = Base
  BY <1>1 DEF FunctorOK, Do
<1>4. /\ Stages(c) /\ c \in Conns /\ Sound(k) /\ loopOf[c] \in Loops /\ Base \in Loops
      /\ conn \in [Conns -> Connection] /\ accepted \in Nat
  BY <1>1, Basics DEF TcpInv
<1>5. served
  BY <1>3 DEF TcpInv
<1>6. Queued(Base, Do("remove", c))
  BY <1>1, <1>3
<1>7. /\ c \in connections /\ Closed(k) /\ k.downs = 1 /\ loopOf[c] # Base
      /\ ~Queued(loopOf[c], f)
  BY <1>4, <1>5, <1>6 DEF Stages
<1>8. ~Fresh(k) /\ ~Removed(k)
  BY <1>4, <1>7, OneStage
<1>9. ~Queued(loopOf[c], Do("established", c))
  BY <1>4, <1>8 DEF Stages
<1>10. FunctorOK(loopOf[c], f) /\ f \notin ToSet(p[loopOf[c]])
  <2>1. FunctorOK(loopOf[c], f)
    BY <1>1, <1>4 DEF FunctorOK, Do
  <2>2. f \notin ToSet(p[loopOf[c]])
    BY <1>1, <1>4, <1>7 DEF Queued
  <2> QED
    BY <2>1, <2>2
<1>11. /\ OneQueues(queue', c)
       /\ \A j \in Loops : \A x :
            x \in ToSet(queue'[j]) <=> x \in ToSet(p[j]) \/ (j = loopOf[c] /\ x = f)
  BY <1>1, <1>2, <1>4, <1>10, EnqueueOne
<1>12. /\ ~Queued(loopOf[c], Do("established", c))'
       /\ Queued(loopOf[c], Do("destroyed", c))'
       /\ ~Queued(Base, Do("remove", c))'
  <2>1. f # Do("established", c) /\ f # Do("remove", c) /\ loopOf' = loopOf
    BY KindsDiffer
  <2>2. ~Queued(loopOf[c], Do("established", c))'
    BY <1>1, <1>4, <1>9, <1>11, <2>1 DEF Queued
  <2>3. Queued(loopOf[c], Do("destroyed", c))'
    BY <1>4, <1>11, <2>1 DEF Queued
  <2>4. ~Queued(Base, Do("remove", c))'
    BY <1>1, <1>3, <1>4, <1>11, <2>1 DEF Queued
  <2> QED
    BY <2>2, <2>3, <2>4
<1> HIDE DEF k, f
<1>13. conn'[c] = k /\ loopOf' = loopOf /\ c \notin connections'
  BY <1>2 DEF k
<1>14. Stages(c)'
  BY <1>7, <1>8, <1>12, <1>13 DEF Stages
<1>15. conn' = [conn EXCEPT ![c] = k]
  BY <1>2, <1>4 DEF k
<1>16. ~badRemove' /\ badRemove' \in BOOLEAN
  BY DEF TcpInv, TcpTypeOK
<1>17. connections' \subseteq connections /\ connections \ {c} \subseteq connections'
  BY <1>2
<1>18. Sound(k) /\ k.in = conn[c].in /\ k.used = conn[c].used /\ (conn[c].ups = 1 => k.ups = 1)
  BY <1>4 DEF k
<1> QED
  BY <1>1, <1>11, <1>14, <1>15, <1>16, <1>17, <1>18, StageStep

\* connectDestroyed, as the head of the loop's queue.
LEMMA RunDestroyedKeeps ==
    ASSUME TcpInv, NEW l \in Loops, queue[l] # <<>>, NEW c, Head(queue[l]) = Do("destroyed", c),
           badRemove' = (badRemove \/ ~CanRemove(conn[c])),
           conn' = [conn EXCEPT ![c] = ConnectDestroyed(@)],
           queue' = [queue EXCEPT ![l] = Tail(@)],
           UNCHANGED <<numSubs, accepted, next, loopOf, connections, wireVars, calls, up, served,
                       sent>>
    PROVE  TcpInv'
<1> DEFINE h == Do("destroyed", c)
           p == [queue EXCEPT ![l] = Tail(@)]
           k == ConnectDestroyed(conn[c])
<1>1. /\ OneQueues(p, c) /\ c \in 1..accepted /\ Queued(l, h) /\ FunctorOK(l, h)
      /\ \A j \in Loops : \A x : x \in ToSet(p[j]) <=> x \in ToSet(queue[j]) /\ (j # l \/ x # h)
      /\ Do("established", c) \notin ToSet(p[l])
  BY DequeueOne DEF SetUp
<1>2. /\ conn' = [conn EXCEPT ![c] = k] /\ queue' = p
      /\ badRemove' = (badRemove \/ ~CanRemove(conn[c]))
  OBVIOUS
<1> HIDE DEF p
<1>3. l = loopOf[c]
  BY <1>1 DEF FunctorOK, Do
<1>4. /\ Stages(c) /\ c \in Conns /\ Sound(conn[c]) /\ loopOf[c] \in Loops /\ Base \in Loops
      /\ conn \in [Conns -> Connection]
  BY <1>1, Basics DEF TcpInv
<1>5. h # Do("established", c) /\ h # Do("remove", c)
  BY <1>3, KindsDiffer
<1>6. ~Queued(loopOf[c], Do("established", c))
  BY <1>1, <1>2, <1>3, <1>4, <1>5 DEF Queued
<1>7. Queued(loopOf[c], Do("destroyed", c))
  BY <1>1, <1>3
<1>8. c \notin connections /\ ~Removed(conn[c]) /\ ~Fresh(conn[c])
  BY <1>4, <1>6, <1>7 DEF Stages
<1>9. Live(conn[c]) \/ Closed(conn[c])
  BY <1>4, <1>8, OneStage
<1>10. /\ Sound(k) /\ Removed(k) /\ k.in = conn[c].in /\ k.used = conn[c].used
       /\ k.downs = 0 => conn[c].downs = 0
       /\ CanRemove(conn[c])
  BY <1>4, <1>9, DestroyedIsRemoved
<1>11. k.ups = 1 /\ ~Fresh(k) /\ ~Closed(k) /\ k.downs \in 0..1
  <2>1. k \in Connection
    BY <1>10 DEF Sound
  <2> QED
    BY <1>10, <2>1, OneStage DEF Connection
<1> HIDE DEF k
<1>12. conn'[c] = k /\ loopOf' = loopOf
  BY <1>2, <1>4
<1>13. /\ ~Queued(loopOf[c], Do("established", c))'
       /\ ~Queued(loopOf[c], Do("destroyed", c))'
       /\ Queued(Base, Do("remove", c))' <=> Queued(Base, Do("remove", c))
  BY <1>1, <1>2, <1>3, <1>4, <1>5, <1>6, <1>12 DEF Queued
<1>14. Stages(c)'
  <2>1. k.downs = 0 \/ k.downs = 1
    BY <1>11
  <2> QED
    BY <1>4, <1>8, <1>10, <1>11, <1>12, <1>13, <2>1 DEF Stages
<1>15. ~badRemove' /\ badRemove' \in BOOLEAN
  BY <1>2, <1>10 DEF TcpInv, TcpTypeOK
<1>16. connections' \subseteq connections /\ connections \ {c} \subseteq connections'
  OBVIOUS
<1> QED
  BY <1>1, <1>2, <1>10, <1>11, <1>14, <1>15, <1>16, StageStep

LEMMA RunQueueKeeps ==
    ASSUME TcpInv, NEW l \in Loops, RunQueue(l)
    PROVE  TcpInv'
<1>1. PICK h : h = Head(queue[l])
  OBVIOUS
<1>2. PICK c : c = h[2]
  OBVIOUS
<1> DEFINE p == [queue EXCEPT ![l] = Tail(@)]
<1>3. /\ l \in up /\ queue[l] # <<>> /\ RunFunctor(h, p)
      /\ UNCHANGED <<numSubs, accepted, next, loopOf, wireVars, calls, up, served, sent>>
  BY <1>1 DEF RunQueue
<1>4. h \in Functors /\ h \in ToSet(queue[l]) /\ FunctorOK(l, h)
  <2>1. queue[l] \in Seq(Functors) /\ \A f \in ToSet(queue[l]) : FunctorOK(l, f)
    BY Basics
  <2>2. h \in Functors /\ h \in ToSet(queue[l])
    BY <1>1, <1>3, <2>1, HeadAndTail
  <2> QED
    BY <2>1, <2>2
<1>5. c \in 1..accepted
  <2>1. accepted \in Nat
    BY Basics
  <2> QED
    BY <1>2, <1>4, <2>1 DEF Functors, FunctorOK, Conns
<1>6. CASE h[1] = "established"
  <2>1. h = Do("established", c)
    BY <1>2, <1>4, <1>6 DEF FunctorOK
  <2>2. /\ conn' = [conn EXCEPT ![c] = ConnectEstablished(@)]
        /\ queue' = p /\ UNCHANGED <<connections, badRemove>>
    BY <1>2, <1>3, <1>6 DEF RunFunctor
  <2> QED
    BY <1>1, <1>3, <2>1, <2>2, RunEstablishedKeeps
<1>7. CASE h[1] = "remove"
  <2>1. h = Do("remove", c)
    BY <1>2, <1>4, <1>7 DEF FunctorOK
  <2>2. RemoveConnectionInLoop(c, p) /\ UNCHANGED <<conn, badRemove>>
    BY <1>2, <1>3, <1>7 DEF RunFunctor
  <2> QED
    BY <1>1, <1>3, <2>1, <2>2, RunRemoveKeeps
<1>8. CASE h[1] = "destroyed"
  <2>1. h = Do("destroyed", c)
    BY <1>2, <1>4, <1>8 DEF FunctorOK
  <2>2. /\ badRemove' = (badRemove \/ ~CanRemove(conn[c]))
        /\ conn' = [conn EXCEPT ![c] = ConnectDestroyed(@)]
        /\ queue' = p /\ UNCHANGED connections
    BY <1>2, <1>3, <1>8 DEF RunFunctor
  <2> QED
    BY <1>1, <1>3, <2>1, <2>2, RunDestroyedKeeps
<1>9. ASSUME h[1] \notin SetUp PROVE QuietQueues(p)
  BY <1>1, <1>3, <1>9, DequeueQuiet
<1>10. CASE h[1] = "shutdown"
  <2>1. conn[c].ups = 1
    BY <1>2, <1>4, <1>10 DEF FunctorOK
  <2>2. /\ conn' = [conn EXCEPT ![c] = ShutdownInLoop(@)]
        /\ queue' = p /\ UNCHANGED <<connections, badRemove>>
    BY <1>2, <1>3, <1>10 DEF RunFunctor
  <2>3. QuietQueues(queue')
    BY <1>9, <1>10, <2>2 DEF SetUp
  <2> QED
    BY <1>3, <1>5, <2>1, <2>2, <2>3, ShutdownStep
<1>11. CASE h[1] = "send"
  <2>1. PICK m : m = h[3]
    OBVIOUS
  <2>2. m \in Messages
    BY <1>4, <1>11, <2>1 DEF FunctorOK
  <2>3. UNCHANGED <<connections, badRemove>>
    BY <1>3, <1>11 DEF RunFunctor
  <2>4. PICK n \in 0..WriteError :
          /\ conn' = [conn EXCEPT ![c] = SendInLoop(@, m, n)]
          /\ queue' = IF SendCompletes(conn[c], n)
                      THEN Enqueue(p, loopOf[c], Do("complete", c)) ELSE p
    BY <1>2, <1>3, <1>11, <2>1 DEF RunFunctor
  <2>5. QuietQueues(p)
    BY <1>9, <1>11 DEF SetUp
  <2>6. sent' \subseteq Messages
    BY <1>3, Basics DEF WiresOK
  <2> HIDE DEF p
  <2> QED
    BY <1>3, <1>5, <2>2, <2>3, <2>4, <2>5, <2>6, SendStep
<1>12. CASE h[1] = "complete"
  <2>1. queue' = p /\ UNCHANGED <<conn, connections, badRemove>>
    BY <1>3, <1>12 DEF RunFunctor
  <2>2. QuietQueues(queue')
    BY <1>9, <1>12, <2>1 DEF SetUp
  <2>3. /\ calls' \subseteq Functors /\ \A g \in calls' : CallOK(g)
        /\ sent' \subseteq Messages
    BY <1>3, Basics DEF WiresOK
  <2>4. up' \subseteq up
    BY <1>3
  <2> QED
    BY <1>3, <2>1, <2>2, <2>3, <2>4, OtherStep
<1> QED
  BY <1>4, <1>6, <1>7, <1>8, <1>10, <1>11, <1>12 DEF Functors

LEMMA CloseEventKeeps ==
    ASSUME TcpInv, NEW c \in Conns, CloseEvent(c)
    PROVE  TcpInv'
<1> DEFINE k == HandleClose(conn[c])
           f == Do("destroyed", c)
           g == Do("remove", c)
<1>1. /\ c \in 1..accepted /\ Live(conn[c]) /\ loopOf[c] \in up
  BY RegisteredIsLive DEF CloseEvent, Registered
<1>2. /\ Stages(c) /\ Sound(conn[c]) /\ loopOf[c] \in Loops /\ Base \in Loops
      /\ conn \in [Conns -> Connection] /\ accepted \in Nat
  BY <1>1, Basics DEF TcpInv
<1>3. ~Fresh(conn[c]) /\ ~Removed(conn[c]) /\ conn[c].downs = 0
  BY <1>1, <1>2, OneStage
<1>4. /\ Sound(k) /\ Closed(k) /\ k.in = conn[c].in /\ k.used = conn[c].used
  BY <1>1, <1>2, CloseIsClosed
<1>5. ~Fresh(k) /\ ~Removed(k) /\ k.downs = 1 /\ k.ups = 1
  BY <1>4, OneStage
<1>6. conn' = [conn EXCEPT ![c] = k]
  BY DEF CloseEvent
<1> HIDE DEF k
<1>7. conn'[c] = k /\ loopOf' = loopOf /\ served' = served
  BY <1>2, <1>6 DEF CloseEvent
<1>8. ~Queued(loopOf[c], Do("established", c)) /\ ~Queued(Base, g)
  BY <1>2, <1>3 DEF Stages
<1>9. ~badRemove' /\ badRemove' \in BOOLEAN
  BY DEF TcpInv, TcpTypeOK, CloseEvent
<1>10. f # Do("established", c) /\ g # Do("established", c) /\ f # g
  BY KindsDiffer
<1>11. OneQueues(queue, c)
  BY Basics DEF OneQueues
<1>12. CASE loopOf[c] = Base
  <2>1. connections' = connections \ {c} /\ queue' = Enqueue(queue, Base, f)
    BY <1>12 DEF CloseEvent, RemoveConnectionInLoop
  <2>2. served
    BY <1>1, <1>12 DEF TcpInv
  <2>3. c \in connections /\ ~Queued(Base, f)
    BY <1>2, <1>3, <1>12, <2>2 DEF Stages
  <2>4. FunctorOK(Base, f) /\ f \notin ToSet(queue[Base])
    <3>1. FunctorOK(Base, f)
      BY <1>1, <1>2, <1>12 DEF FunctorOK, Do
    <3> QED
      BY <2>3, <3>1 DEF Queued
  <2>5. /\ OneQueues(queue', c)
        /\ \A j \in Loops : \A x : x \in ToSet(queue'[j]) <=> x \in ToSet(queue[j]) \/ (j = Base /\ x = f)
    BY <1>2, <1>11, <2>1, <2>4, EnqueueOne
  <2>6. /\ ~Queued(loopOf[c], Do("established", c))'
        /\ Queued(loopOf[c], Do("destroyed", c))'
        /\ ~Queued(Base, Do("remove", c))'
    BY <1>2, <1>7, <1>8, <1>10, <1>12, <2>5 DEF Queued
  <2>7. Stages(c)'
    <3>1. c \notin connections'
      BY <2>1
    <3> QED
      BY <1>5, <1>7, <2>6, <3>1 DEF Stages
  <2>8. connections' \subseteq connections /\ connections \ {c} \subseteq connections'
    BY <2>1
  <2> QED
    BY <1>1, <1>4, <1>5, <1>6, <1>9, <2>5, <2>7, <2>8, StageStep DEF CloseEvent
<1>13. CASE loopOf[c] # Base
  <2>1. connections' = connections /\ queue' = Enqueue(queue, Base, g)
    BY <1>13 DEF CloseEvent
  <2>2. FunctorOK(Base, g) /\ g \notin ToSet(queue[Base])
    <3>1. FunctorOK(Base, g)
      BY <1>1, <1>2 DEF FunctorOK, Do
    <3> QED
      BY <1>8, <3>1 DEF Queued
  <2>3. /\ OneQueues(queue', c)
        /\ \A j \in Loops : \A x : x \in ToSet(queue'[j]) <=> x \in ToSet(queue[j]) \/ (j = Base /\ x = g)
    BY <1>2, <1>11, <2>1, <2>2, EnqueueOne
  <2>4. /\ ~Queued(loopOf[c], Do("established", c))'
        /\ Queued(loopOf[c], Do("destroyed", c))' <=> Queued(loopOf[c], Do("destroyed", c))
        /\ Queued(Base, Do("remove", c))'
    BY <1>2, <1>7, <1>8, <1>10, <1>13, <2>3 DEF Queued
  <2>5. Stages(c)'
    BY <1>2, <1>3, <1>4, <1>5, <1>7, <1>13, <2>1, <2>4 DEF Stages
  <2>6. connections' \subseteq connections /\ connections \ {c} \subseteq connections'
    BY <2>1
  <2> QED
    BY <1>1, <1>4, <1>5, <1>6, <1>9, <2>3, <2>5, <2>6, StageStep DEF CloseEvent
<1> QED
  BY <1>12, <1>13

\* The loop of the next connection is the base loop when there is no other, and
\* one of the others else.
LEMMA NextLoop ==
    ASSUME TcpInv
    PROVE  LET l == IF numSubs = 0 THEN Base ELSE GetNextLoop IN
             /\ l \in Loops /\ GetNextLoop \in -1..MaxSubs
             /\ numSubs = 0 <=> l = Base
<1>1. numSubs \in Nat /\ numSubs <= MaxSubs /\ next \in Int /\ MaxSubs \in Nat /\ Base \notin 0..MaxSubs
  BY ServerAssumption DEF TcpInv, TcpTypeOK
<1>2. CASE numSubs = 0
  BY <1>1, <1>2 DEF GetNextLoop, Loops
<1>3. CASE numSubs # 0
  <2>1. (next + 1) % numSubs \in 0..(numSubs - 1)
    BY <1>1, <1>3
  <2>2. GetNextLoop = (next + 1) % numSubs
    BY <1>3 DEF GetNextLoop
  <2>3. GetNextLoop \in 0..(MaxSubs - 1)
    BY <1>1, <2>1, <2>2
  <2>4. GetNextLoop \in Loops /\ GetNextLoop \in 0..MaxSubs /\ GetNextLoop \in -1..MaxSubs
    BY <1>1, <2>3 DEF Loops, Subs
  <2> QED
    BY <1>1, <1>3, <2>4
<1> QED
  BY <1>2, <1>3

LEMMA AcceptKeeps ==
    ASSUME TcpInv, Accept
    PROVE  TcpInv'
<1>1. PICK c : c = accepted + 1
  OBVIOUS
<1>2. PICK l : l = IF numSubs = 0 THEN Base ELSE GetNextLoop
  OBVIOUS
<1> DEFINE e == Do("established", c)
           k == ConnectEstablished(conn[c])
<1>3. /\ accepted \in Nat /\ 1..accepted \subseteq Conns /\ Base \in Loops
      /\ conn \in [Conns -> Connection] /\ loopOf \in [Conns -> Loops]
      /\ queue \in [Loops -> Seq(Functors)]
      /\ \A j \in Loops : Ordered(queue[j])
      /\ \A j \in Loops : \A f \in ToSet(queue[j]) : FunctorOK(j, f)
      /\ \A b \in Conns : Sound(conn[b])
      /\ \A f \in calls : CallOK(f)
      /\ WiresOK
  BY Basics
<1>4. /\ c \in Conns /\ c \notin 1..accepted /\ accepted' = c /\ c > accepted
      /\ \A b \in 1..accepted' : b \in 1..accepted \/ b = c
      /\ \A b \in 1..accepted : b \in 1..accepted' /\ b # c /\ b \in Conns
  <2>1. accepted < MaxConns /\ MaxConns \in Nat /\ accepted' = c
    BY <1>1, Basics DEF Accept
  <2>2. c \in 1..MaxConns /\ c \notin 1..accepted /\ c > accepted
    BY <1>1, <1>3, <2>1
  <2>3. \A b \in 1..c : b \in 1..accepted \/ b = c
    BY <1>1, <1>3
  <2>4. \A b \in 1..accepted : b \in 1..c /\ b # c
    BY <1>1, <1>3
  <2> QED
    BY <1>3, <2>1, <2>2, <2>3, <2>4 DEF Conns
<1>5. l \in Loops /\ next' \in -1..MaxSubs /\ (numSubs = 0 <=> l = Base)
  BY <1>2, NextLoop DEF Accept
<1>6. /\ loopOf' = [loopOf EXCEPT ![c] = l] /\ connections' = connections \cup {c}
      /\ l = Base => conn' = [conn EXCEPT ![c] = k] /\ queue' = queue
      /\ l # Base => queue' = Enqueue(queue, l, e) /\ conn' = conn
      /\ served /\ Base \in up
      /\ UNCHANGED <<numSubs, wireVars, calls, up, served, sent, badRemove>>
  BY <1>1, <1>2 DEF Accept
<1>7. Fresh(conn[c])
  BY <1>4 DEF TcpInv
<1>8. \A j \in Loops : \A f \in ToSet(queue[j]) : f[2] <= accepted /\ f[2] \in 1..accepted
  <2>1. SUFFICES ASSUME NEW j \in Loops, NEW f \in ToSet(queue[j])
                 PROVE  f[2] <= accepted /\ f[2] \in 1..accepted
    OBVIOUS
  <2>2. f[2] <= accepted
    BY <1>3 DEF FunctorOK
  <2>3. f \in Functors
    <3>1. queue[j] \in Seq(Functors)
      BY <1>3
    <3>2. DOMAIN queue[j] = 1..Len(queue[j]) /\ \A i \in 1..Len(queue[j]) : queue[j][i] \in Functors
      BY <3>1, LenProperties, ElementOfSeq
    <3> QED
      BY <3>2, Zenon DEF ToSet
  <2>4. f[2] \in Nat /\ f[2] >= 1
    BY <2>3 DEF Functors, Conns
  <2> QED
    BY <1>3, <2>2, <2>4
<1>9. \A j \in Loops : \A op : Do(op, c) \notin ToSet(queue[j])
  BY <1>4, <1>8 DEF Do
<1>10. /\ Sound(k) /\ Live(k) /\ k.in = conn[c].in /\ k.used = conn[c].used
  BY <1>3, <1>4, <1>7, EstablishedIsLive
<1>11. /\ ~Fresh(k) /\ ~Removed(k) /\ ~Closed(k) /\ k.downs = 0
       /\ ~Removed(conn[c]) /\ ~Closed(conn[c]) /\ conn[c].downs = 0
  BY <1>3, <1>4, <1>7, <1>10, OneStage
<1> HIDE DEF k
<1>12. /\ conn' \in [Conns -> Connection]
       /\ \A b \in Conns : Sound(conn'[b]) /\ (b # c => conn'[b] = conn[b])
       /\ conn'[c].in = conn[c].in /\ conn'[c].used = conn[c].used
       /\ Fresh(conn'[c]) <=> l # Base
       /\ ~Removed(conn'[c]) /\ ~Closed(conn'[c]) /\ conn'[c].downs = 0
  <2>1. CASE l = Base
    <3>1. k \in Connection
      BY <1>10 DEF Sound
    <3> QED
      BY <1>3, <1>4, <1>6, <1>10, <1>11, <2>1, <3>1
  <2>2. CASE l # Base
    BY <1>3, <1>4, <1>6, <1>7, <1>11, <2>2
  <2> QED
    BY <2>1, <2>2
<1>13. /\ queue' \in [Loops -> Seq(Functors)]
       /\ \A j \in Loops : Ordered(queue'[j])
       /\ \A j \in Loops : \A x : x \in ToSet(queue'[j]) <=>
            x \in ToSet(queue[j]) \/ (l # Base /\ j = l /\ x = e)
  <2>1. CASE l = Base
    BY <1>3, <1>6, <2>1
  <2>2. CASE l # Base
    <3>1. CanEnqueue(queue, l, e)
      <4>1. e \in Functors /\ e[2] = c
        BY <1>4 DEF Do, Functors
      <4>2. e \notin ToSet(queue[l])
        BY <1>5, <1>9
      <4>3. \A x \in ToSet(queue[l]) : e # Do("established", x[2])
        <5>1. \A x \in ToSet(queue[l]) : x[2] # c
          BY <1>4, <1>5, <1>8
        <5> QED
          BY <5>1 DEF Do
      <4> QED
        BY <1>3, <1>5, <4>1, <4>2, <4>3 DEF CanEnqueue
    <3>2. queue' = Enqueue(queue, l, e)
      BY <1>6, <2>2
    <3> HIDE DEF e
    <3>3. /\ queue' \in [Loops -> Seq(Functors)]
          /\ \A j \in Loops : Ordered(queue'[j])
          /\ \A j \in Loops : j # l => queue'[j] = queue[j]
          /\ \A x : x \in ToSet(queue'[l]) <=> x \in ToSet(queue[l]) \/ x = e
      BY ZenonT(30), <3>1, <3>2, EnqueueSets
    <3> QED
      BY <2>2, <3>3
  <2> QED
    BY <2>1, <2>2
<1>14. loopOf' \in [Conns -> Loops] /\ loopOf'[c] = l /\ \A b \in Conns : b # c => loopOf'[b] = loopOf[b]
  BY <1>3, <1>4, <1>5, <1>6
<1>15. WiresOK'
  <2>1. \A b \in Conns : conn'[b].in = conn[b].in /\ conn'[b].used = conn[b].used
    BY <1>12
  <2>2. sent' \subseteq Messages
    BY <1>3, <1>6 DEF WiresOK
  <2> QED
    BY <1>6, <2>1, <2>2, SameWires
<1>16. TcpTypeOK'
  <2>1. \A b \in Conns : IsBuffer(conn'[b].out) /\ IsBuffer(conn'[b].in)
    BY <1>12 DEF Sound
  <2>2. connections' \subseteq 1..accepted'
    <3>1. connections \subseteq 1..accepted
      BY DEF TcpInv, TcpTypeOK
    <3>2. c \in 1..accepted'
      BY <1>1, <1>3, <1>4
    <3> QED
      BY <1>4, <1>6, <3>1, <3>2
  <2>3. accepted' \in 0..MaxConns
    BY <1>4 DEF Conns
  <2> QED
    BY <1>5, <1>6, <1>12, <1>13, <1>14, <1>15, <2>1, <2>2, <2>3 DEF TcpInv, TcpTypeOK, WiresOK
<1>17. \A j \in Loops : \A f \in ToSet(queue'[j]) : FunctorOK(j, f)'
  <2>1. SUFFICES ASSUME NEW j \in Loops, NEW f \in ToSet(queue'[j])
                 PROVE  FunctorOK(j, f)'
    OBVIOUS
  <2>2. CASE f \in ToSet(queue[j])
    <3>1. FunctorOK(j, f) /\ f[2] \in 1..accepted
      BY <1>3, <1>8, <2>2
    <3>2. f[2] # c /\ f[2] \in Conns
      BY <1>4, <3>1
    <3>3. f[2] <= accepted'
      BY <1>3, <1>4, <3>1
    <3>4. conn'[f[2]] = conn[f[2]] /\ loopOf'[f[2]] = loopOf[f[2]]
      BY <1>12, <1>14, <3>2
    <3> QED
      BY <3>1, <3>3, <3>4 DEF FunctorOK
  <2>3. CASE f = e /\ j = l
    <3>1. f[1] = "established" /\ f[2] = c /\ f = Do(f[1], f[2])
      BY <2>3 DEF Do
    <3>2. f[2] <= accepted'
      BY <1>1, <1>3, <1>4, <3>1
    <3> QED
      BY <1>14, <2>3, <3>1, <3>2 DEF FunctorOK
  <2> QED
    BY <1>13, <2>2, <2>3
<1>18. \A f \in calls' : CallOK(f)'
  <2>1. SUFFICES ASSUME NEW f \in calls PROVE CallOK(f)'
    BY <1>6
  <2>2. CallOK(f) /\ f[2] \in Conns
    BY <1>3, Basics DEF Functors
  <2>3. f[2] <= accepted /\ f[2] # c
    BY <1>1, <1>3, <2>2 DEF CallOK, Conns
  <2>4. f[2] <= accepted'
    BY <1>1, <1>3, <1>4, <2>2, <2>3 DEF Conns
  <2> QED
    BY <1>12, <2>2, <2>3, <2>4 DEF CallOK
<1>19. \A b \in Conns : b > accepted' => Fresh(conn'[b])
  <2>1. SUFFICES ASSUME NEW b \in Conns, b > c PROVE Fresh(conn'[b])
    BY <1>4
  <2>2. b # c /\ b > accepted
    BY <1>1, <1>3, <2>1 DEF Conns
  <2> QED
    BY <1>12, <2>2 DEF TcpInv
<1>20. \A b \in 1..accepted : Stages(b)'
  <2>1. SUFFICES ASSUME NEW b \in 1..accepted PROVE Stages(b)'
    OBVIOUS
  <2>2. b # c /\ b \in Conns /\ conn'[b] = conn[b] /\ loopOf'[b] = loopOf[b] /\ loopOf[b] \in Loops
    BY <1>3, <1>4, <1>12, <1>14
  <2>3. \A op : Do(op, b) # e
    BY <2>2 DEF Do
  <2>4. /\ Queued(loopOf[b], Do("established", b))' <=> Queued(loopOf[b], Do("established", b))
        /\ Queued(loopOf[b], Do("destroyed", b))' <=> Queued(loopOf[b], Do("destroyed", b))
        /\ Queued(Base, Do("remove", b))' <=> Queued(Base, Do("remove", b))
    BY <1>3, <1>13, <2>2, <2>3 DEF Queued
  <2>5. b \in connections' <=> b \in connections
    BY <1>6, <2>2
  <2>6. Stages(b)
    BY DEF TcpInv
  <2> QED
    BY <1>6, <2>2, <2>4, <2>5, <2>6 DEF Stages
<1>21. Stages(c)'
  <2>1. e # Do("destroyed", c) /\ e # Do("remove", c)
    BY KindsDiffer
  <2>2. /\ Queued(loopOf[c], Do("established", c))' <=> l # Base
        /\ ~Queued(loopOf[c], Do("destroyed", c))'
        /\ ~Queued(Base, Do("remove", c))'
    BY <1>3, <1>5, <1>9, <1>13, <1>14, <2>1 DEF Queued
  <2>3. c \in connections'
    BY <1>6
  <2> QED
    BY <1>12, <1>14, <2>2, <2>3 DEF Stages
<1>22. numSubs' = 0 => \A b \in 1..accepted' : loopOf'[b] = Base
  BY <1>4, <1>5, <1>6, <1>14 DEF TcpInv
<1>23. ~badRemove' /\ served'
  BY <1>6 DEF TcpInv
<1>24. \A b \in 1..accepted' : Stages(b)'
  BY <1>4, <1>20, <1>21
<1> QED
  BY <1>12, <1>13, <1>15, <1>16, <1>17, <1>18, <1>19, <1>22, <1>23, <1>24
     DEF TcpInv, WiresOK, CallOK

\* ~TcpServer where all connections live on the base loop: those in the map are
\* live, so that connectDestroyed, called at once, may take each out of its
\* poller.
LEMMA DestroyAtOnce ==
    ASSUME TcpInv, served, numSubs = 0, DestroyServer
    PROVE  /\ ~badRemove' /\ badRemove' \in BOOLEAN
           /\ conn' \in [Conns -> Connection]
           /\ \A c \in Conns : /\ Sound(conn'[c]) /\ (conn[c].ups = 1 => conn'[c].ups = 1)
                               /\ conn'[c].in = conn[c].in /\ conn'[c].used = conn[c].used
           /\ \A c \in Conns : c \notin connections => conn'[c] = conn[c]
           /\ \A c \in connections : /\ Removed(conn'[c]) /\ ~Fresh(conn'[c]) /\ ~Fresh(conn[c])
                                     /\ ~Queued(Base, Do("remove", c))
<1>1. /\ conn' = [c \in Conns |-> IF c \in connections THEN ConnectDestroyed(conn[c]) ELSE conn[c]]
      /\ badRemove' = (badRemove \/ \E c \in connections : ~CanRemove(conn[c]))
  BY DEF DestroyServer
<1>2. /\ connections \subseteq 1..accepted /\ 1..accepted \subseteq Conns
      /\ conn \in [Conns -> Connection] /\ \A c \in Conns : Sound(conn[c])
      /\ ~badRemove /\ badRemove \in BOOLEAN
  BY Basics DEF TcpInv, TcpTypeOK
<1>3. ASSUME NEW c \in connections
      PROVE  /\ Live(conn[c]) /\ ~Fresh(conn[c]) /\ ~Queued(Base, Do("remove", c))
  <2>1. loopOf[c] = Base /\ Stages(c) /\ Sound(conn[c])
    BY <1>2 DEF TcpInv
  <2>2. ~Fresh(conn[c]) /\ ~Removed(conn[c]) /\ ~Closed(conn[c]) /\ ~Queued(Base, Do("remove", c))
    BY <2>1 DEF Stages
  <2> QED
    BY <2>1, <2>2, OneStage
<1>4. ASSUME NEW c \in connections
      PROVE  /\ conn'[c] = ConnectDestroyed(conn[c])
             /\ Sound(conn'[c]) /\ Removed(conn'[c]) /\ ~Fresh(conn'[c]) /\ conn'[c].ups = 1
             /\ conn'[c].in = conn[c].in /\ conn'[c].used = conn[c].used
             /\ CanRemove(conn[c])
  <2>1. conn'[c] = ConnectDestroyed(conn[c]) /\ Sound(conn[c]) /\ Live(conn[c])
    BY <1>1, <1>2, <1>3
  <2>2. /\ Sound(conn'[c]) /\ Removed(conn'[c])
        /\ conn'[c].in = conn[c].in /\ conn'[c].used = conn[c].used
        /\ CanRemove(conn[c])
    BY <2>1, DestroyedIsRemoved
  <2>3. ~Fresh(conn'[c]) /\ conn'[c].ups = 1
    BY <2>2, OneStage
  <2> QED
    BY <2>1, <2>2, <2>3
<1>5. \A c \in Conns : c \notin connections => conn'[c] = conn[c]
  BY <1>1
<1>6. \A c \in Conns : Sound(conn'[c])
  BY <1>2, <1>4, <1>5
<1>7. conn' \in [Conns -> Connection]
  <2>1. \A c \in Conns : conn'[c] \in Connection
    BY <1>6 DEF Sound
  <2>2. conn' = [c \in Conns |-> conn'[c]]
    BY <1>1
  <2> QED
    BY <2>1, <2>2
<1>8. ~badRemove' /\ badRemove' \in BOOLEAN
  BY <1>1, <1>2, <1>4
<1> QED
  BY <1>3, <1>4, <1>5, <1>6, <1>7, <1>8

\* ~TcpServer where connections live on other loops: connectDestroyed is queued
\* for those in the map, behind what their loops have.
LEMMA DestroyLater ==
    ASSUME TcpInv, served, numSubs # 0, DestroyServer
    PROVE  /\ conn' = conn /\ badRemove' = badRemove
           /\ queue' \in [Loops -> Seq(Functors)]
           /\ \A l \in Loops : Ordered(queue'[l])
           /\ \A l \in Loops : \A x : x \in ToSet(queue'[l]) <=>
                \/ x \in ToSet(queue[l])
                \/ \E c \in connections : loopOf[c] = l /\ x = Do("destroyed", c)
<1> DEFINE A(l) == {b \in connections : loopOf[b] = l}
           D(l) == {Do("destroyed", c) : c \in A(l)}
<1>1. /\ conn' = conn /\ badRemove' = badRemove
      /\ queue' = [l \in Loops |-> queue[l] \o SetToSeq(D(l))]
  BY DEF DestroyServer
<1>2. /\ connections \subseteq 1..accepted /\ 1..accepted \subseteq Conns /\ MaxConns \in Nat
      /\ queue \in [Loops -> Seq(Functors)] /\ \A l \in Loops : Ordered(queue[l])
  BY Basics DEF TcpInv, TcpTypeOK
<1>3. ASSUME NEW l \in Loops
      PROVE  LET t == queue[l] \o SetToSeq(D(l)) IN
               t \in Seq(Functors) /\ Ordered(t) /\ ToSet(t) = ToSet(queue[l]) \cup D(l)
  <2>1. A(l) \in SUBSET Conns
    BY <1>2
  <2>2. IsFiniteSet(Conns)
    BY <1>2, FS_Interval DEF Conns
  <2>3. IsFiniteSet(A(l))
    BY <2>1, <2>2, FS_Subset
  <2>4. \A c \in A(l) : Do("destroyed", c) \notin ToSet(queue[l])
    <3>1. SUFFICES ASSUME NEW c \in A(l) PROVE ~Queued(l, Do("destroyed", c))
      BY DEF Queued
    <3>2. Stages(c) /\ c \in connections /\ loopOf[c] = l
      BY <1>2 DEF TcpInv
    <3> QED
      BY <3>2 DEF Stages
  <2>5. queue[l] \in Seq(Functors) /\ Ordered(queue[l])
    BY <1>2
  <2> HIDE DEF A
  <2> QED
    BY <2>1, <2>3, <2>4, <2>5, DestroyedBehind
<1>4. \A l \in Loops : queue'[l] = queue[l] \o SetToSeq(D(l))
  BY <1>1
<1>5. queue' \in [Loops -> Seq(Functors)]
  <2> HIDE DEF D
  <2> QED
    BY <1>1, <1>3
<1>6. \A l \in Loops : Ordered(queue'[l])
  BY <1>3, <1>4
<1>7. ASSUME NEW l \in Loops, NEW x
      PROVE  x \in ToSet(queue'[l]) <=>
               \/ x \in ToSet(queue[l])
               \/ \E c \in connections : loopOf[c] = l /\ x = Do("destroyed", c)
  <2>1. x \in ToSet(queue'[l]) <=> x \in ToSet(queue[l]) \/ x \in D(l)
    <3> HIDE DEF D
    <3>1. ToSet(queue'[l]) = ToSet(queue[l]) \cup D(l)
      BY <1>3, <1>4
    <3> QED
      BY <3>1
  <2>2. x \in D(l) <=> \E c \in connections : loopOf[c] = l /\ x = Do("destroyed", c)
    OBVIOUS
  <2> HIDE DEF D
  <2> QED
    BY <2>1, <2>2
<1> QED
  BY <1>1, <1>5, <1>6, <1>7

LEMMA DestroyServerKeeps ==
    ASSUME TcpInv, DestroyServer
    PROVE  TcpInv'
<1>1. /\ served /\ served' = FALSE /\ up' = up \ {Base} /\ connections' = {}
      /\ UNCHANGED <<numSubs, accepted, next, loopOf, wireVars, calls, sent>>
  BY DEF DestroyServer
<1>2. /\ accepted \in Nat /\ 1..accepted \subseteq Conns /\ Base \in Loops
      /\ conn \in [Conns -> Connection] /\ loopOf \in [Conns -> Loops]
      /\ queue \in [Loops -> Seq(Functors)]
      /\ \A l \in Loops : Ordered(queue[l])
      /\ \A l \in Loops : \A f \in ToSet(queue[l]) : FunctorOK(l, f)
      /\ \A c \in Conns : Sound(conn[c])
      /\ \A f \in calls : CallOK(f)
      /\ calls \subseteq Functors
      /\ WiresOK /\ connections \subseteq 1..accepted /\ badRemove \in BOOLEAN /\ ~badRemove
  BY Basics DEF TcpInv, TcpTypeOK
<1>3. /\ conn' \in [Conns -> Connection]
      /\ \A c \in Conns : /\ Sound(conn'[c]) /\ (conn[c].ups = 1 => conn'[c].ups = 1)
                          /\ conn'[c].in = conn[c].in /\ conn'[c].used = conn[c].used
      /\ \A c \in Conns : c \notin connections => conn'[c] = conn[c]
      /\ ~badRemove' /\ badRemove' \in BOOLEAN
  <2>1. CASE numSubs = 0
    BY <1>1, <2>1, DestroyAtOnce
  <2>2. CASE numSubs # 0
    <3>1. conn' = conn /\ badRemove' = badRemove
      BY <1>1, <2>2, DestroyLater
    <3> QED
      BY <1>2, <3>1
  <2> QED
    BY <2>1, <2>2
<1>4. /\ queue' \in [Loops -> Seq(Functors)]
      /\ \A l \in Loops : Ordered(queue'[l])
      /\ \A l \in Loops : \A x \in ToSet(queue[l]) : x \in ToSet(queue'[l])
      /\ \A l \in Loops : \A x \in ToSet(queue'[l]) :
           \/ x \in ToSet(queue[l])
           \/ numSubs # 0 /\ \E c \in connections : loopOf[c] = l /\ x = Do("destroyed", c)
      /\ numSubs # 0 => \A c \in connections : Do("destroyed", c) \in ToSet(queue'[loopOf[c]])
  <2>1. CASE numSubs = 0
    <3>1. queue' = queue
      BY <2>1 DEF DestroyServer
    <3> QED
      BY <1>2, <2>1, <3>1
  <2>2. CASE numSubs # 0
    <3>1. /\ queue' \in [Loops -> Seq(Functors)]
          /\ \A l \in Loops : Ordered(queue'[l])
          /\ \A l \in Loops : \A x : x \in ToSet(queue'[l]) <=>
               \/ x \in ToSet(queue[l])
               \/ \E c \in connections : loopOf[c] = l /\ x = Do("destroyed", c)
      BY <1>1, <2>2, DestroyLater
    <3>2. \A c \in connections : loopOf[c] \in Loops
      BY <1>2
    <3> QED
      BY <2>2, <3>1, <3>2
  <2> QED
    BY <2>1, <2>2
<1>5. WiresOK'
  <2>1. sent' \subseteq Messages
    BY <1>1, <1>2 DEF WiresOK
  <2> QED
    BY <1>1, <1>3, <2>1, SameWires
<1>6. TcpTypeOK'
  <2>1. \A c \in Conns : IsBuffer(conn'[c].out) /\ IsBuffer(conn'[c].in)
    BY <1>3 DEF Sound
  <2> QED
    BY <1>1, <1>3, <1>4, <1>5, <2>1 DEF TcpInv, TcpTypeOK, WiresOK
<1>7. \A l \in Loops : \A f \in ToSet(queue'[l]) : FunctorOK(l, f)'
  <2>1. SUFFICES ASSUME NEW l \in Loops, NEW f \in ToSet(queue'[l])
                 PROVE  FunctorOK(l, f)'
    OBVIOUS
  <2>2. CASE f \in ToSet(queue[l])
    <3>1. FunctorOK(l, f)
      BY <1>2, <2>2
    <3>2. f \in Functors
      <4>1. queue[l] \in Seq(Functors)
        BY <1>2
      <4>2. /\ DOMAIN queue[l] = 1..Len(queue[l])
            /\ \A i \in 1..Len(queue[l]) : queue[l][i] \in Functors
        BY <4>1, LenProperties, ElementOfSeq
      <4> QED
        BY <2>2, <4>2, Zenon DEF ToSet
    <3>3. f[2] \in Conns
      BY <3>2 DEF Functors
    <3> QED
      BY <1>1, <1>3, <3>1, <3>3 DEF FunctorOK
  <2>3. CASE \E c \in connections : loopOf[c] = l /\ f = Do("destroyed", c)
    <3>1. PICK c \in connections : loopOf[c] = l /\ f = Do("destroyed", c)
      BY <2>3
    <3>2. f[1] = "destroyed" /\ f[2] = c /\ f = Do(f[1], f[2])
      BY <3>1 DEF Do
    <3>3. c <= accepted
      BY <1>2
    <3> QED
      BY <1>1, <3>1, <3>2, <3>3 DEF FunctorOK
  <2> QED
    BY <1>4, <2>2, <2>3
<1>8. \A f \in calls' : CallOK(f)'
  <2>1. \A f \in calls : CallOK(f) /\ f[2] \in Conns
    BY <1>2 DEF Functors
  <2> QED
    BY <1>1, <1>3, <2>1 DEF CallOK
<1>9. \A c \in Conns : c > accepted' => Fresh(conn'[c])
  <2>1. SUFFICES ASSUME NEW c \in Conns, c > accepted PROVE Fresh(conn'[c])
    BY <1>1
  <2>2. c \notin 1..accepted
    BY <1>2, <2>1 DEF Conns
  <2>3. c \notin connections
    BY <1>2, <2>2
  <2> QED
    BY <1>3, <2>1, <2>3 DEF TcpInv
<1>10. ASSUME NEW c \in 1..accepted PROVE Stages(c)'
  <2>1. c \in Conns /\ Stages(c) /\ loopOf[c] \in Loops /\ Sound(conn[c]) /\ loopOf' = loopOf
    BY <1>1, <1>2 DEF TcpInv
  <2>2. /\ Queued(loopOf[c], Do("established", c))' <=> Queued(loopOf[c], Do("established", c))
        /\ Queued(Base, Do("remove", c))' <=> Queued(Base, Do("remove", c))
    <3>1. \A b : Do("established", c) # Do("destroyed", b) /\ Do("remove", c) # Do("destroyed", b)
      BY DEF Do
    <3> QED
      BY <1>2, <1>4, <2>1, <3>1 DEF Queued
  <2>3. CASE c \notin connections
    <3>1. Queued(loopOf[c], Do("destroyed", c))' <=> Queued(loopOf[c], Do("destroyed", c))
      <4>1. \A b \in connections : Do("destroyed", c) # Do("destroyed", b)
        BY <2>3 DEF Do
      <4> QED
        BY <1>4, <2>1, <4>1 DEF Queued
    <3>2. conn'[c] = conn[c]
      BY <1>3, <2>1, <2>3
    <3> QED
      BY <1>1, <2>1, <2>2, <2>3, <3>1, <3>2 DEF Stages
  <2>4. CASE c \in connections /\ numSubs = 0
    <3>1. /\ Removed(conn'[c]) /\ ~Fresh(conn'[c]) /\ ~Fresh(conn[c])
          /\ ~Queued(Base, Do("remove", c))
      BY <1>1, <2>4, DestroyAtOnce
    <3>2. ~Queued(loopOf[c], Do("destroyed", c))'
      BY <1>4, <2>1, <2>4 DEF Stages, Queued
    <3> QED
      BY <1>1, <2>1, <2>2, <3>1, <3>2 DEF Stages
  <2>5. CASE c \in connections /\ numSubs # 0
    <3>1. conn' = conn
      BY <1>1, <2>5, DestroyLater
    <3>2. Queued(loopOf[c], Do("destroyed", c))'
      BY <1>4, <2>1, <2>5 DEF Queued
    <3> QED
      BY <1>1, <2>1, <2>2, <2>5, <3>1, <3>2 DEF Stages
  <2> QED
    BY <2>3, <2>4, <2>5
<1>11. numSubs' = 0 => \A c \in 1..accepted' : loopOf'[c] = Base
  BY <1>1 DEF TcpInv
<1>12. Base \notin up'
  BY <1>1
<1> QED
  BY <1>1, <1>3, <1>4, <1>5, <1>6, <1>7, <1>8, <1>9, <1>10, <1>11, <1>12
     DEF TcpInv, WiresOK, CallOK

LEMMA InitTcpInv == ASSUME Init PROVE TcpInv
<1>1. MaxConns \in Nat /\ MaxSubs \in Nat /\ Base \notin 0..MaxSubs
  BY ServerAssumption
<1>2. /\ Sound(NewConnection) /\ Fresh(NewConnection) /\ NewConnection.used = <<>>
      /\ Readable(NewConnection.in) = <<>> /\ NewConnection \in Connection
      /\ IsBuffer(NewConnection.in) /\ IsBuffer(NewConnection.out)
  BY NewIsSound DEF Sound, NewConnection
<1>3. <<>> \in Seq(Bytes) /\ <<>> \in Seq(Functors)
  OBVIOUS
<1>4. conn \in [Conns -> Connection] /\ \A c \in Conns : conn[c] = NewConnection
  BY <1>2 DEF Init
<1>5. Base \in Loops /\ up \subseteq Loops
  <2>1. numSubs # 0 => 0..(numSubs - 1) \subseteq 0..(MaxSubs - 1)
    BY <1>1 DEF Init
  <2> QED
    BY <1>1, <2>1 DEF Init, ConnLoops, Loops, Subs
<1>6. 1..accepted = {} /\ accepted \in 0..MaxConns /\ next \in -1..MaxSubs
  BY <1>1 DEF Init
<1>7. queue \in [Loops -> Seq(Functors)] /\ \A l \in Loops : queue[l] = <<>>
  BY <1>3 DEF Init
<1>8. TcpTypeOK
  BY <1>2, <1>3, <1>4, <1>5, <1>6, <1>7 DEF Init, TcpTypeOK
<1>9. InputIntegrity
  <2>1. <<>> \o <<>> \o <<>> = <<>>
    OBVIOUS
  <2>2. SUFFICES ASSUME NEW c \in Conns
                 PROVE  conn[c].used \o Readable(conn[c].in) \o incoming[c] = arrived[c]
    BY DEF InputIntegrity
  <2>3. incoming[c] = <<>> /\ arrived[c] = <<>>
    BY DEF Init
  <2> QED
    BY <1>2, <1>4, <2>1, <2>3
<1>10. \A l \in Loops : Ordered(queue[l]) /\ ToSet(queue[l]) = {}
  <2>1. Len(<<>>) = 0 /\ DOMAIN <<>> = {} /\ 1..0 = {}
    OBVIOUS
  <2> QED
    BY <1>7, <2>1 DEF Ordered, ToSet
<1>11. /\ served /\ connections = {} /\ calls = {} /\ ~badRemove
  BY DEF Init
<1> QED
  BY <1>2, <1>4, <1>6, <1>8, <1>9, <1>10, <1>11 DEF TcpInv

-----------------------------------------------------------------------------
(* The theorems.                                                           *)

\* Every reachable state has the invariant: the server takes connections up and
\* down across two loops in the stages Stages names, whatever the loops, the
\* users' threads and the peers do in between.
THEOREM TcpInvariant == Spec => []TcpInv
<1>1. Init => TcpInv
  BY InitTcpInv
<1>2. TcpInv /\ [Next]_vars => TcpInv'
  <2> SUFFICES ASSUME TcpInv, [Next]_vars PROVE TcpInv'
    OBVIOUS
  <2>1. CASE Accept
    BY <2>1, AcceptKeeps
  <2>2. CASE DestroyServer
    BY <2>2, DestroyServerKeeps
  <2>3. CASE \E l \in Loops : LoopNext(l)
    BY <2>3, RunQueueKeeps, LoopExitKeeps DEF LoopNext
  <2>4. ASSUME NEW c \in Conns, ConnNext(c) PROVE TcpInv'
    <3>1. CASE CloseEvent(c) \/ ReadEvent(c) \/ WriteEvent(c)
      BY <3>1, CloseEventKeeps, ReadEventKeeps, WriteEventKeeps
    <3>2. CASE PeerClose(c) \/ ShutdownHere(c) \/ CallShutdown(c)
      BY <3>2, PeerCloseKeeps, ShutdownHereKeeps, CallShutdownKeeps
    <3>3. CASE \E m \in Messages : SendHere(c, m) \/ CallSend(c, m) \/ PeerSend(c, m)
      BY <3>3, SendHereKeeps, CallSendKeeps, PeerSendKeeps
    <3> QED
      BY <2>4, <3>1, <3>2, <3>3 DEF ConnNext
  <2>5. CASE \E f \in calls : QueueCall(f)
    BY <2>5, QueueCallKeeps
  <2>6. CASE UNCHANGED vars
    BY <2>6, StutterKeeps
  <2> QED
    BY <2>1, <2>2, <2>3, <2>4, <2>5, <2>6 DEF Next
<1> QED
  BY <1>1, <1>2, PTL DEF Spec

\* What goes to the socket and what waits in _outputBuffer are the messages
\* sendInLoop took, whole and in order; for every size of messages and buffers.
THEOREM OutputIsWhole == Spec => []StreamIntegrity
<1>1. TcpInv => StreamIntegrity
  BY DEF TcpInv, StreamIntegrity, Sound
<1> QED
  BY <1>1, TcpInvariant, PTL

\* readFd loses and repeats nothing of what the peer sent.
THEOREM InputIsWhole == Spec => []InputIntegrity
<1>1. TcpInv => InputIntegrity
  BY DEF TcpInv
<1> QED
  BY <1>1, TcpInvariant, PTL

\* A registered channel asks for EPOLLOUT exactly while output waits.
THEOREM WritingMatchesOutput == Spec => []WritingIffOutput
<1>1. TcpInv => WritingIffOutput
  <2>1. SUFFICES ASSUME TcpInv, NEW c \in Conns, conn[c].index = "added"
                 PROVE  conn[c].writing <=> ReadableBytes(conn[c].out) > 0
    BY DEF WritingIffOutput
  <2>2. Sound(conn[c])
    BY <2>1 DEF TcpInv
  <2>3. conn[c].downs = 0
    BY <2>1, <2>2, OneStage
  <2> QED
    BY <2>2, <2>3 DEF Sound
<1> QED
  BY <1>1, TcpInvariant, PTL

\* The write side is shut only when all that was taken has been written, unless
\* the peer closed first.
THEOREM ShutsAfterOutput == Spec => []FinIsLast
<1>1. TcpInv => FinIsLast
  <2>1. SUFFICES ASSUME TcpInv, NEW c \in Conns, conn[c].shutWrite, conn[c].downs = 0
                 PROVE  conn[c].wire = conn[c].taken
    BY DEF FinIsLast
  <2> DEFINE k == conn[c]
             w == k.wire
             r == Readable(k.out)
  <2>2. Sound(k)
    BY <2>1 DEF TcpInv
  <2>3. ~k.writing /\ (k.writing <=> ReadableBytes(k.out) > 0)
    BY <2>1, <2>2 DEF Sound
  <2>4. /\ w \in Seq(Bytes) /\ r \in Seq(Bytes) /\ w \o r = k.taken
        /\ Len(r) = ReadableBytes(k.out) /\ ReadableBytes(k.out) \in Nat
    BY <2>2, SoundParts
  <2>5. Len(r) = 0
    BY <2>3, <2>4
  <2> HIDE DEF k, w, r
  <2>6. r = <<>>
    BY <2>4, <2>5, NothingReadable
  <2>7. w \o <<>> = w
    BY <2>4, ConcatEmptySeq
  <2> QED
    BY <2>4, <2>6, <2>7 DEF k, w
<1> QED
  BY <1>1, TcpInvariant, PTL

\* ~TcpServer finds every connection whose user was not told that it is down.
THEOREM MapHasAllOpen == Spec => []MapCoversOpen
<1>1. TcpInv => MapCoversOpen
  BY DEF TcpInv, Stages, MapCoversOpen
<1> QED
  BY <1>1, TcpInvariant, PTL

\* connectDestroyed always finds the channel it removes in its poller.
THEOREM RemovesOnlyKnown == Spec => []RemoveDefined
<1>1. TcpInv => RemoveDefined
  BY DEF TcpInv, RemoveDefined
<1> QED
  BY <1>1, TcpInvariant, PTL

\* A channel known to the poller of a running loop belongs to a connection that
\* the map or a functor keeps alive.
THEOREM HeldWhileRegistered == Spec => []RegisteredIsHeld
<1>1. TcpInv => RegisteredIsHeld
  <2>1. SUFFICES ASSUME TcpInv, NEW c \in Conns, conn[c].index # "new", loopOf[c] \in up,
                        c \notin connections
                 PROVE  \E l \in up : \E i \in DOMAIN queue[l] : queue[l][i][2] = c
    BY DEF RegisteredIsHeld
  <2>2. ~Fresh(conn[c]) /\ ~Removed(conn[c])
    BY <2>1 DEF Fresh, Removed
  <2>3. c \in 1..accepted
    BY <2>1, <2>2, NotFreshIsAccepted
  <2>4. Queued(loopOf[c], Do("destroyed", c))
    BY <2>1, <2>2, <2>3 DEF TcpInv, Stages
  <2>5. PICK i \in DOMAIN queue[loopOf[c]] : queue[loopOf[c]][i] = Do("destroyed", c)
    BY <2>4, Zenon DEF Queued, ToSet
  <2>6. queue[loopOf[c]][i][2] = c
    BY <2>5 DEF Do
  <2> QED
    BY <2>1, <2>5, <2>6
<1> QED
  BY <1>1, TcpInvariant, PTL

\* A connection that came up and left its poller was announced as down, save one
\* that ~TcpServer met half-closed.
THEOREM AnnouncedWhenReclaimed == Spec => []ReclaimedWasAnnounced
<1>1. TcpInv => ReclaimedWasAnnounced
  <2>1. SUFFICES ASSUME TcpInv, NEW c \in Conns, conn[c].ups = 1, conn[c].index = "new",
                        conn[c].downs # 1
                 PROVE  ~served /\ conn[c].state = "disconnecting"
    BY DEF ReclaimedWasAnnounced
  <2>2. Sound(conn[c]) /\ conn[c] \in Connection
    BY <2>1 DEF TcpInv, Sound
  <2>3. Removed(conn[c])
    BY <2>1, <2>2 DEF Sound, Fresh, Live, Closed
  <2>4. conn[c].downs = 0
    BY <2>1, <2>2 DEF Connection
  <2>5. conn[c].state = "disconnecting" /\ ~Fresh(conn[c])
    BY <2>1, <2>3, <2>4 DEF Removed, Fresh
  <2>6. c \in 1..accepted
    BY <2>1, <2>5, NotFreshIsAccepted
  <2>7. Stages(c)
    BY <2>1, <2>6 DEF TcpInv
  <2> QED
    BY <2>3, <2>4, <2>5, <2>7 DEF Stages
<1> QED
  BY <1>1, TcpInvariant, PTL
=============================================================================
