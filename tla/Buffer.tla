------------------------------- MODULE Buffer -------------------------------
(***************************************************************************)
(* Buffer (include/net/buffer.h, src/net/buffer.cpp): a vector with a read *)
(* and a write index.  The bytes between them are to be read; those before *)
(* were read or are the prepend area, those after are free, and both keep  *)
(* whatever was there.  Every operation is a function of the buffer.       *)
(***************************************************************************)
EXTENDS Naturals, Sequences

CONSTANTS
    CheapPrepend,       \* kCheapPrepend
    InitSize,           \* kInitSize
    ExtraSize           \* readFd: sizeof(extraBuf)

ASSUME BufferAssumption == CheapPrepend \in Nat /\ InitSize \in Nat /\ ExtraSize \in Nat

\* What resize() fills new cells with.
Blank == <<>>
Blanks(n) == [i \in 1..n |-> Blank]

NewBuffer == [cells |-> Blanks(CheapPrepend + InitSize),
              read |-> CheapPrepend, write |-> CheapPrepend]

\* The indices of a buffer are in order and inside the vector.
IsBuffer(b) == /\ DOMAIN b = {"cells", "read", "write"}
               /\ CheapPrepend <= b.read /\ b.read <= b.write
               /\ b.write <= Len(b.cells)

ReadableBytes(b) == b.write - b.read
WritableBytes(b) == Len(b.cells) - b.write
PrependBytes(b) == b.read

\* peek() and readableBytes(), or lookAllAsData: what there is to read.
Readable(b) == SubSeq(b.cells, b.read + 1, b.write)

ResetAll(b) == [b EXCEPT !.read = CheapPrepend, !.write = CheapPrepend]

Reset(b, len) == IF len < ReadableBytes(b) THEN [b EXCEPT !.read = @ + len]
                 ELSE ResetAll(b)

\* Mutants of MakeSpace: the prepend area counted as free; the bytes not moved.
MakeSpaceTooEasily(b, len) ==
    IF WritableBytes(b) + PrependBytes(b) < len
    THEN [b EXCEPT !.cells = @ \o Blanks(len - WritableBytes(b))]
    ELSE [cells |-> [i \in 1..Len(b.cells) |->
                       IF i \in (CheapPrepend + 1)..(CheapPrepend + ReadableBytes(b))
                       THEN b.cells[i - CheapPrepend + b.read] ELSE b.cells[i]],
          read |-> CheapPrepend, write |-> CheapPrepend + ReadableBytes(b)]
MakeSpaceUnmoved(b, len) ==
    IF WritableBytes(b) + PrependBytes(b) < len + CheapPrepend
    THEN [b EXCEPT !.cells = @ \o Blanks(len - WritableBytes(b))]
    ELSE [b EXCEPT !.read = CheapPrepend, !.write = CheapPrepend + ReadableBytes(b)]

\* makeSpace: grow to exactly what is needed, or move what is to be read down
\* to the prepend area.
MakeSpace(b, len) ==
    IF WritableBytes(b) + PrependBytes(b) < len + CheapPrepend
    THEN [b EXCEPT !.cells = @ \o Blanks(len - WritableBytes(b))]
    ELSE [cells |-> [i \in 1..Len(b.cells) |->
                       IF i \in (CheapPrepend + 1)..(CheapPrepend + ReadableBytes(b))
                       THEN b.cells[i - CheapPrepend + b.read] ELSE b.cells[i]],
          read |-> CheapPrepend, write |-> CheapPrepend + ReadableBytes(b)]

EnsureWritableBytes(b, len) == IF len > WritableBytes(b) THEN MakeSpace(b, len) ELSE b

\* Bytes stored from the write index on, and the index moved past them.
Store(b, data) ==
    [b EXCEPT !.cells = [i \in 1..Len(b.cells) |->
                           IF i \in (b.write + 1)..(b.write + Len(data))
                           THEN data[i - b.write] ELSE b.cells[i]],
              !.write = @ + Len(data)]

AppendData(b, data) == Store(EnsureWritableBytes(b, Len(data)), data)

\* readFd: what one readv may take, the second vector being there only when the
\* free part of the buffer is the smaller of the two ...
ReadRoom(b) == WritableBytes(b) + (IF WritableBytes(b) < ExtraSize THEN ExtraSize ELSE 0)

\* Mutant of ReadFd: the first vector taken to be full whatever was read.
ReadFdFull(b, data) ==
    LET n == WritableBytes(b) IN
    IF Len(data) <= n THEN [Store(b, data) EXCEPT !.write = Len(b.cells)]
    ELSE AppendData(Store(b, SubSeq(data, 1, n)), SubSeq(data, n + 1, Len(data)))

\* ... and what it makes of the bytes read: the first vector takes what fits,
\* and the rest is appended from the second.
ReadFd(b, data) ==
    LET n == WritableBytes(b) IN
    IF Len(data) <= n THEN Store(b, data)
    ELSE AppendData(Store(b, SubSeq(data, 1, n)), SubSeq(data, n + 1, Len(data)))
=============================================================================
