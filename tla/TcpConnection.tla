--------------------------- MODULE TcpConnection ---------------------------
(***************************************************************************)
(* TcpConnection (src/net/tcp_connection.cpp) with its Channel and the     *)
(* registration of that channel in EpollPoller.  Every operation here runs *)
(* on the connection's loop thread; each is the function from the state of *)
(* a connection to its next state.  TcpServer.tla says when and on whose   *)
(* behalf they run.                                                        *)
(*                                                                         *)
(* A message is MsgLen bytes; a byte is a pair <<message, position>>.      *)
(***************************************************************************)
EXTENDS Buffer, Channel

CONSTANTS
    Messages,           \* what users send, each at most once
    MsgLen              \* bytes of a message

ASSUME MsgLenAssumption == MsgLen \in Nat \ {0}

Bytes == Messages \X (1..MsgLen)
BytesOf(m) == [i \in 1..MsgLen |-> <<m, i>>]

\* What ::write returns when it fails other than with EAGAIN; EAGAIN is 0.
WriteError == MsgLen + 1

(***************************************************************************)
(* state      _state                    index      Channel::_index         *)
(* reading, writing: the interest in Channel::_events                      *)
(* out        _outputBuffer, a Buffer   in         _inputBuffer, a Buffer  *)
(* wire       bytes given to the socket, in order                          *)
(* shutWrite  Socket::shutdownWrite                                        *)
(* taken      history: bytes of the messages sendInLoop accepted           *)
(* used       history: bytes _messageCallback took out of _inputBuffer     *)
(* ups, downs history: calls of _connectionCallback                        *)
(***************************************************************************)
Buffers == [cells : Seq(Bytes \cup {Blank}), read : Nat, write : Nat]

Connection ==
    [state : {"connecting", "connected", "disconnecting", "disconnected"},
     index : Indices,
     reading : BOOLEAN, writing : BOOLEAN, shutWrite : BOOLEAN,
     out : Buffers, in : Buffers,
     wire : Seq(Bytes), taken : Seq(Bytes), used : Seq(Bytes),
     ups : 0..1, downs : 0..1]

\* The constructor.
NewConnection ==
    [state |-> "connecting", index |-> "new",
     reading |-> FALSE, writing |-> FALSE, shutWrite |-> FALSE,
     out |-> NewBuffer, in |-> NewBuffer,
     wire |-> <<>>, taken |-> <<>>, used |-> <<>>, ups |-> 0, downs |-> 0]

-----------------------------------------------------------------------------
(* Operations.                                                             *)

ConnectEstablished(k) ==
    [EnableReading([k EXCEPT !.state = "connected"]) EXCEPT !.ups = k.ups + 1]

\* handleRead with data: into the input buffer, of whose readable bytes the
\* user's _messageCallback takes the first n.
HandleRead(k, data, n) ==
    LET b == ReadFd(k.in, data) IN
    [k EXCEPT !.in = Reset(b, n), !.used = @ \o SubSeq(Readable(b), 1, n)]

\* Mutant of HandleClose: the user is not told.
HandleCloseQuiet(k) == DisableAll([k EXCEPT !.state = "disconnected"])

\* handleClose, without the _closeCallback it ends with.
HandleClose(k) ==
    [DisableAll([k EXCEPT !.state = "disconnected"]) EXCEPT !.downs = k.downs + 1]

\* Mutants of ConnectDestroyed: the callback called whatever the state; an open
\* connection not closed first.
ConnectDestroyedQuiet(k) == RemoveChannel(k)
ConnectDestroyedAlways(k) == RemoveChannel(HandleClose(k))

\* connectDestroyed: a connection still open is closed first.
ConnectDestroyed(k) ==
    RemoveChannel(IF k.state = "connected" THEN HandleClose(k) ELSE k)

\* Mutant of ShutdownInLoop: output still waiting does not hold it up.
ShutdownInLoopNow(k) == [k EXCEPT !.state = "disconnecting", !.shutWrite = TRUE]

\* shutdownInLoop: the write side is shut when no output waits.
ShutdownInLoop(k) ==
    [k EXCEPT !.state = "disconnecting", !.shutWrite = k.shutWrite \/ ~k.writing]

\* sendInLoop may write to the socket itself only past all earlier output.
WritesDirectly(k) == ~k.writing /\ ReadableBytes(k.out) = 0

\* Mutants of SendInLoop: a direct write that overtakes buffered output; no
\* interest in writing for the rest of a partial write.
SendInLoopOvertakes(k, m, n) ==
    IF k.state # "connected" \/ n = WriteError THEN k
    ELSE LET rest == SubSeq(BytesOf(m), n + 1, MsgLen)
             s == [k EXCEPT !.wire = @ \o SubSeq(BytesOf(m), 1, n),
                            !.out = AppendData(@, rest),
                            !.taken = @ \o BytesOf(m)]
         IN  IF rest # <<>> /\ ~k.writing THEN EnableWriting(s) ELSE s

SendInLoopSilent(k, m, n) ==
    IF k.state # "connected" \/ (WritesDirectly(k) /\ n = WriteError) THEN k
    ELSE LET sent == IF WritesDirectly(k) THEN n ELSE 0
         IN  [k EXCEPT !.wire = @ \o SubSeq(BytesOf(m), 1, sent),
                       !.out = AppendData(@, SubSeq(BytesOf(m), sent + 1, MsgLen)),
                       !.taken = @ \o BytesOf(m)]

\* sendInLoop, where n is what a direct ::write returns: a message is dropped
\* on a connection that is not open and on a write error; what the socket did
\* not take is buffered and the interest in writing raised.
SendInLoop(k, m, n) ==
    IF k.state # "connected" \/ (WritesDirectly(k) /\ n = WriteError) THEN k
    ELSE LET sent == IF WritesDirectly(k) THEN n ELSE 0
             rest == SubSeq(BytesOf(m), sent + 1, MsgLen)
             s == [k EXCEPT !.wire = @ \o SubSeq(BytesOf(m), 1, sent),
                            !.out = AppendData(@, rest),
                            !.taken = @ \o BytesOf(m)]
         IN  IF rest # <<>> /\ ~k.writing THEN EnableWriting(s) ELSE s

\* The write-complete callback is queued by a send that wrote everything ...
SendCompletes(k, n) == k.state = "connected" /\ WritesDirectly(k) /\ n = MsgLen

\* Mutant of HandleWrite: a drained buffer forgets a shutdown that waits for it.
HandleWriteForgets(k, n) ==
    LET s == [k EXCEPT !.wire = @ \o SubSeq(Readable(k.out), 1, n),
                       !.out = Reset(@, n)]
    IN  IF ReadableBytes(s.out) = 0 THEN DisableWriting(s) ELSE s

\* handleWrite: the socket takes n bytes; a drained buffer ends the interest in
\* writing and carries out a shutdown that was waiting for it.
HandleWrite(k, n) ==
    LET s == [k EXCEPT !.wire = @ \o SubSeq(Readable(k.out), 1, n),
                       !.out = Reset(@, n)]
    IN  IF ReadableBytes(s.out) > 0 THEN s
        ELSE IF k.state = "disconnecting" THEN ShutdownInLoop(DisableWriting(s))
        ELSE DisableWriting(s)

\* ... and by a handleWrite that drained the buffer.
WriteCompletes(k, n) == n = ReadableBytes(k.out)
=============================================================================
