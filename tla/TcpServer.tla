----------------------------- MODULE TcpServer -----------------------------
(***************************************************************************)
(* TcpServer (src/net/tcp_server.cpp) with Acceptor, EventLoopThreadPool   *)
(* and the connections they spread over the event loops.  Composes         *)
(* TcpConnection with one executor of functors per loop: a loop runs its   *)
(* queue in order and its handlers one at a time (EventLoop implements     *)
(* this), different loops run concurrently, and users call send and        *)
(* shutdown from any thread.                                               *)
(*                                                                         *)
(* A connection is set up and torn down across two loops: newConnection on *)
(* the base loop, connectEstablished, the channel's events and handleClose *)
(* on its own loop, removeConnectionInLoop back on the base loop, and      *)
(* connectDestroyed on its own loop again.                                 *)
(***************************************************************************)
EXTENDS TcpConnection, Integers, SequencesExt

CONSTANTS
    Base,               \* _baseLoop
    MaxSubs,            \* bound on _threadNums
    MaxConns,           \* bound on the connections accepted
    MaxCalls,           \* bound on the calls of send and shutdown in progress
    MaxQueue            \* bound on a loop's queue that users may still add to

ASSUME ServerAssumption ==
    /\ MaxSubs \in Nat /\ MaxConns \in Nat
    /\ MaxCalls \in Nat /\ MaxQueue \in Nat
    /\ Base \notin 0..MaxSubs

Conns == 1..MaxConns
Subs == 0..(MaxSubs - 1)
Loops == Subs \cup {Base}

VARIABLES
    numSubs,            \* _threadNums; 0: connections live on the base loop
    accepted,           \* connections so far (_nextConnId)
    next,               \* EventLoopThreadPool::_next
    conn,               \* the connections
    loopOf,             \* _subLoop of each
    connections,        \* _connections: those in the map
    peer,               \* what the other end did: "open" or "closed"
    incoming,           \* bytes the other end sent and nobody has read
    arrived,            \* history: all the bytes the other end sent
    queue,              \* _pendingFuncs of each loop
    calls,              \* calls of send and shutdown past their check of _state
    up,                 \* loops still running
    served,             \* TcpServer not destroyed yet
    sent,               \* messages handed to send(), here or there
    badRemove           \* removeChannel met a channel it does not know

wireVars == <<peer, incoming, arrived>>
vars == <<numSubs, accepted, next, conn, loopOf, connections, wireVars, queue, calls, up, served,
          sent, badRemove>>

\* The loops connections are spread over.
ConnLoops == IF numSubs = 0 THEN {Base} ELSE 0..(numSubs - 1)

Functors == {"established", "destroyed", "remove", "shutdown", "complete", "send"}
            \X Conns \X (Messages \cup {"-"})
Do(op, c) == <<op, c, "-">>

TcpTypeOK ==
    /\ numSubs \in 0..MaxSubs
    /\ accepted \in 0..MaxConns
    /\ next \in -1..MaxSubs
    /\ conn \in [Conns -> Connection]
    /\ \A c \in Conns : IsBuffer(conn[c].out) /\ IsBuffer(conn[c].in)
    /\ loopOf \in [Conns -> Loops]
    /\ connections \subseteq 1..accepted
    /\ peer \in [Conns -> {"open", "closed"}]
    /\ incoming \in [Conns -> Seq(Bytes)]
    /\ arrived \in [Conns -> Seq(Bytes)]
    /\ queue \in [Loops -> Seq(Functors)]
    /\ calls \subseteq Functors
    /\ up \subseteq Loops
    /\ served \in BOOLEAN
    /\ sent \subseteq Messages
    /\ badRemove \in BOOLEAN

\* The server as start() leaves it, with any number of threads set before.
Init ==
    /\ numSubs \in 0..MaxSubs
    /\ accepted = 0
    /\ next = -1
    /\ conn = [c \in Conns |-> NewConnection]
    /\ loopOf = [c \in Conns |-> Base]
    /\ connections = {}
    /\ peer = [c \in Conns |-> "open"]
    /\ incoming = [c \in Conns |-> <<>>]
    /\ arrived = [c \in Conns |-> <<>>]
    /\ queue = [l \in Loops |-> <<>>]
    /\ calls = {}
    /\ up = ConnLoops \cup {Base}
    /\ served = TRUE
    /\ sent = {}
    /\ badRemove = FALSE

Enqueue(q, l, f) == [q EXCEPT ![l] = Append(@, f)]

-----------------------------------------------------------------------------
(* The base loop.                                                          *)

\* getNextLoop: round robin, or the base loop when the pool has no threads.
GetNextLoop == IF numSubs = 0 THEN 0 ELSE (next + 1) % numSubs

\* Acceptor::handleRead with newConnection: the connection goes into the map
\* and connectEstablished to its loop, at once if that is this one.
Accept ==
    /\ served /\ Base \in up
    /\ accepted < MaxConns
    /\ accepted' = accepted + 1
    /\ next' = GetNextLoop
    /\ LET c == accepted + 1
           l == IF numSubs = 0 THEN Base ELSE next'
       IN  /\ loopOf' = [loopOf EXCEPT ![c] = l]
           /\ connections' = connections \cup {c}
           /\ IF l = Base
              THEN conn' = [conn EXCEPT ![c] = ConnectEstablished(@)] /\ UNCHANGED queue
              ELSE queue' = Enqueue(queue, l, Do("established", c)) /\ UNCHANGED conn
    /\ UNCHANGED <<numSubs, wireVars, calls, up, served, sent, badRemove>>

\* ~TcpServer, on the base thread after its loop() has returned: the map is
\* emptied and every connection told to go.  Then the thread pool's destructor
\* ends the other loops.
DestroyServer ==
    /\ served
    /\ served' = FALSE
    /\ up' = up \ {Base}
    /\ connections' = {}
    /\ IF numSubs = 0
       THEN /\ conn' = [c \in Conns |-> IF c \in connections
                                        THEN ConnectDestroyed(conn[c]) ELSE conn[c]]
            /\ badRemove' = (badRemove \/ \E c \in connections : ~CanRemove(conn[c]))
            /\ UNCHANGED queue
       ELSE /\ queue' = [l \in Loops |-> queue[l] \o
                   SetToSeq({Do("destroyed", c) : c \in {b \in connections : loopOf[b] = l}})]
            /\ UNCHANGED <<conn, badRemove>>
    /\ UNCHANGED <<numSubs, accepted, next, loopOf, wireVars, calls, sent>>

\* The quit of a loop thread: what is still queued is dropped.
LoopExit(l) ==
    /\ ~served /\ l \in up
    /\ up' = up \ {l}
    /\ UNCHANGED <<numSubs, accepted, next, conn, loopOf, connections, wireVars, queue, calls,
                   served, sent, badRemove>>

-----------------------------------------------------------------------------
(* Functors, run by the loop they were queued in.                          *)

\* Mutants of RemoveConnectionInLoop: the connection stays in the map; nobody
\* takes its channel out of the poller.
RemoveConnectionInLoopKeeps(c, q) ==
    /\ UNCHANGED connections
    /\ queue' = Enqueue(q, loopOf[c], Do("destroyed", c))
RemoveConnectionInLoopForgets(c, q) ==
    /\ connections' = connections \ {c}
    /\ queue' = q

\* removeConnectionInLoop: out of the map, and connectDestroyed queued.
RemoveConnectionInLoop(c, q) ==
    /\ connections' = connections \ {c}
    /\ queue' = Enqueue(q, loopOf[c], Do("destroyed", c))

\* One functor, with q the queues without it.
RunFunctor(f, q) ==
    LET op == f[1]  c == f[2]  m == f[3] IN
    \/ /\ op = "established"
       /\ conn' = [conn EXCEPT ![c] = ConnectEstablished(@)]
       /\ queue' = q
       /\ UNCHANGED <<connections, badRemove>>
    \/ op = "remove" /\ RemoveConnectionInLoop(c, q) /\ UNCHANGED <<conn, badRemove>>
    \/ /\ op = "destroyed"
       /\ badRemove' = (badRemove \/ ~CanRemove(conn[c]))
       /\ conn' = [conn EXCEPT ![c] = ConnectDestroyed(@)]
       /\ queue' = q
       /\ UNCHANGED connections
    \/ /\ op = "shutdown"
       /\ conn' = [conn EXCEPT ![c] = ShutdownInLoop(@)]
       /\ queue' = q
       /\ UNCHANGED <<connections, badRemove>>
    \/ /\ op = "send"
       /\ \E n \in 0..WriteError :
            /\ WritesDirectly(conn[c]) \/ n = 0
            /\ conn' = [conn EXCEPT ![c] = SendInLoop(@, m, n)]
            /\ queue' = IF SendCompletes(conn[c], n)
                        THEN Enqueue(q, loopOf[c], Do("complete", c)) ELSE q
       /\ UNCHANGED <<connections, badRemove>>
    \/ op = "complete" /\ queue' = q /\ UNCHANGED <<conn, connections, badRemove>>

RunQueue(l) ==
    /\ l \in up
    /\ queue[l] # <<>>
    /\ RunFunctor(Head(queue[l]), [queue EXCEPT ![l] = Tail(@)])
    /\ UNCHANGED <<numSubs, accepted, next, loopOf, wireVars, calls, up, served, sent>>

-----------------------------------------------------------------------------
(* Events of a connection's channel, on its loop.                          *)

Registered(c) == conn[c].index = "added" /\ loopOf[c] \in up

\* handleRead at the end of the peer's data, or EPOLLHUP: handleClose, whose
\* _closeCallback is removeConnection, run at once if this is the base loop.
CloseEvent(c) ==
    /\ Registered(c) /\ conn[c].reading
    /\ peer[c] = "closed" /\ incoming[c] = <<>>
    /\ conn' = [conn EXCEPT ![c] = HandleClose(@)]
    /\ IF loopOf[c] = Base
       THEN RemoveConnectionInLoop(c, queue)
       ELSE /\ queue' = Enqueue(queue, Base, Do("remove", c))
            /\ UNCHANGED connections
    /\ UNCHANGED <<numSubs, accepted, next, loopOf, wireVars, calls, up, served, sent, badRemove>>

\* handleRead: any part of what has come, up to the room there is for it; and
\* the user takes what it likes of what is then in the buffer.
ReadEvent(c) ==
    /\ Registered(c) /\ conn[c].reading
    /\ \E n \in 1..Len(incoming[c]) :
         /\ n <= ReadRoom(conn[c].in)
         /\ \E k \in 0..(ReadableBytes(conn[c].in) + n) :
              conn' = [conn EXCEPT ![c] = HandleRead(@, SubSeq(incoming[c], 1, n), k)]
         /\ incoming' = [incoming EXCEPT ![c] = SubSeq(@, n + 1, Len(@))]
    /\ UNCHANGED <<numSubs, accepted, next, loopOf, connections, peer, arrived, queue, calls, up,
                   served, sent, badRemove>>

\* The socket can be written: handleWrite.
WriteEvent(c) ==
    /\ Registered(c) /\ conn[c].writing
    /\ \E n \in 1..ReadableBytes(conn[c].out) :
         /\ conn' = [conn EXCEPT ![c] = HandleWrite(@, n)]
         /\ queue' = IF WriteCompletes(conn[c], n)
                     THEN Enqueue(queue, loopOf[c], Do("complete", c)) ELSE queue
    /\ UNCHANGED <<numSubs, accepted, next, loopOf, connections, wireVars, calls, up, served, sent,
                   badRemove>>

\* The peer, at any time, sends a message or ends its side.
PeerSend(c, m) ==
    /\ c <= accepted /\ peer[c] = "open"
    /\ m \notin sent
    /\ sent' = sent \cup {m}
    /\ arrived' = [arrived EXCEPT ![c] = @ \o BytesOf(m)]
    /\ incoming' = [incoming EXCEPT ![c] = @ \o BytesOf(m)]
    /\ UNCHANGED <<numSubs, accepted, next, conn, loopOf, connections, peer, queue, calls, up,
                   served, badRemove>>

PeerClose(c) ==
    /\ c <= accepted /\ peer[c] = "open"
    /\ peer' = [peer EXCEPT ![c] = "closed"]
    /\ UNCHANGED <<numSubs, accepted, next, conn, loopOf, connections, incoming, arrived, queue,
                   calls, up, served, sent, badRemove>>

-----------------------------------------------------------------------------
(* send and shutdown.  A user's callback on the connection's loop has them *)
(* done at once; any other thread finds _state connected, and queues the   *)
(* work some time after that.                                              *)

IsOpen(c) == c <= accepted /\ conn[c].state = "connected"

SendHere(c, m) ==
    /\ IsOpen(c) /\ loopOf[c] \in up
    /\ m \notin sent
    /\ sent' = sent \cup {m}
    /\ \E n \in 0..WriteError :
         /\ WritesDirectly(conn[c]) \/ n = 0
         /\ conn' = [conn EXCEPT ![c] = SendInLoop(@, m, n)]
         /\ queue' = IF SendCompletes(conn[c], n)
                     THEN Enqueue(queue, loopOf[c], Do("complete", c)) ELSE queue
    /\ UNCHANGED <<numSubs, accepted, next, loopOf, connections, wireVars, calls, up, served, badRemove>>

ShutdownHere(c) ==
    /\ IsOpen(c) /\ loopOf[c] \in up
    /\ conn' = [conn EXCEPT ![c] = ShutdownInLoop(@)]
    /\ UNCHANGED <<numSubs, accepted, next, loopOf, connections, wireVars, queue, calls, up, served,
                   sent, badRemove>>

CallSend(c, m) ==
    /\ IsOpen(c)
    /\ m \notin sent /\ Cardinality(calls) < MaxCalls
    /\ sent' = sent \cup {m}
    /\ calls' = calls \cup {<<"send", c, m>>}
    /\ UNCHANGED <<numSubs, accepted, next, conn, loopOf, connections, wireVars, queue, up, served,
                   badRemove>>

CallShutdown(c) ==
    /\ IsOpen(c)
    /\ Cardinality(calls) < MaxCalls
    /\ calls' = calls \cup {Do("shutdown", c)}
    /\ UNCHANGED <<numSubs, accepted, next, conn, loopOf, connections, wireVars, queue, up, served,
                   sent, badRemove>>

QueueCall(f) ==
    /\ f \in calls
    /\ Len(queue[loopOf[f[2]]]) < MaxQueue
    /\ calls' = calls \ {f}
    /\ queue' = Enqueue(queue, loopOf[f[2]], f)
    /\ UNCHANGED <<numSubs, accepted, next, conn, loopOf, connections, wireVars, up, served, sent,
                   badRemove>>

-----------------------------------------------------------------------------

LoopNext(l) == RunQueue(l) \/ LoopExit(l)

ConnNext(c) ==
    \/ CloseEvent(c) \/ ReadEvent(c) \/ WriteEvent(c) \/ PeerClose(c)
    \/ ShutdownHere(c) \/ CallShutdown(c)
    \/ \E m \in Messages : SendHere(c, m) \/ CallSend(c, m) \/ PeerSend(c, m)

Next ==
    \/ Accept
    \/ DestroyServer
    \/ \E l \in Loops : LoopNext(l)
    \/ \E c \in Conns : ConnNext(c)
    \/ \E f \in calls : QueueCall(f)

\* A loop serves its queue and its ready channels; a peer keeps reading.
Fairness ==
    /\ \A l \in Loops : WF_vars(RunQueue(l))
    /\ \A c \in Conns :
         WF_vars(CloseEvent(c)) /\ WF_vars(ReadEvent(c)) /\ WF_vars(WriteEvent(c))

Spec == Init /\ [][Next]_vars /\ Fairness

-----------------------------------------------------------------------------
(* Properties.                                                             *)

\* Everything keeps its type, the indices of the buffers included, and the
\* peer's stream is the messages sendInLoop took, whole and in order: what went
\* to the socket, directly or from handleWrite, followed by what is still in
\* _outputBuffer.
StreamIntegrity ==
    /\ TcpTypeOK
    /\ \A c \in Conns : conn[c].wire \o Readable(conn[c].out) = conn[c].taken

\* What the user got out of _inputBuffer, what is still in it and what is still
\* in the socket are together what the peer sent: readFd neither loses nor
\* repeats bytes when they spill over into its second vector.
InputIntegrity ==
    \A c \in Conns : conn[c].used \o Readable(conn[c].in) \o incoming[c] = arrived[c]

\* A registered channel asks for EPOLLOUT exactly while output waits: else the
\* output would sit there for ever, or the loop would spin.
WritingIffOutput ==
    \A c \in Conns : conn[c].index = "added" => (conn[c].writing <=> ReadableBytes(conn[c].out) > 0)

\* A connection that shut its write side and was not closed by its peer had
\* written everything sendInLoop took before (shutdownInLoop, handleWrite).
FinIsLast ==
    \A c \in Conns : conn[c].shutWrite /\ conn[c].downs = 0 => conn[c].wire = conn[c].taken

\* While the server lives, a connection whose user was not told that it went
\* down is in _connections, where ~TcpServer finds it.
MapCoversOpen ==
    served => \A c \in 1..accepted : conn[c].downs = 0 => c \in connections

\* connectDestroyed never removes a channel its poller does not know, in
\* particular not twice and not before connectEstablished.
RemoveDefined == ~badRemove

\* A connection known to the poller of a running loop is kept alive by the map
\* or by a functor: its descriptor is closed, and its channel deleted, only
\* after its channel was removed.
RegisteredIsHeld ==
    \A c \in Conns :
        conn[c].index # "new" /\ loopOf[c] \in up =>
            \/ c \in connections
            \/ \E l \in up : \E i \in DOMAIN queue[l] : queue[l][i][2] = c

\* A connection that came up and left its poller told the user that it went
\* down; only one that ~TcpServer met half-closed did not.
ReclaimedWasAnnounced ==
    \A c \in Conns : conn[c].ups = 1 /\ conn[c].index = "new" =>
        conn[c].downs = 1 \/ (~served /\ conn[c].state = "disconnecting")

\* A connection whose peer closes is taken down on both loops.
ClosedIsReclaimed ==
    \A c \in Conns :
        peer[c] = "closed" ~> \/ c \notin connections /\ conn[c].index = "new"
                              \/ ~served

\* A shutdown that has to wait for output is carried out when that is written.
ShutdownCompletes ==
    \A c \in Conns :
        conn[c].state = "disconnecting" ~> conn[c].shutWrite \/ conn[c].downs = 1 \/ ~served

-----------------------------------------------------------------------------
(* The inductive invariant behind the invariants.                          *)

\* The stages of a connection: before connectEstablished; in its poller; after
\* handleClose; out of its poller.
Fresh(k) ==
    /\ k.state = "connecting" /\ k.index = "new" /\ k.ups = 0 /\ k.downs = 0
    /\ ~k.reading /\ ~k.writing /\ ~k.shutWrite
Live(k) ==
    /\ k.state \in {"connected", "disconnecting"} /\ k.index = "added"
    /\ k.ups = 1 /\ k.downs = 0 /\ k.reading
Closed(k) ==
    /\ k.state \in {"disconnecting", "disconnected"} /\ k.index = "deleted"
    /\ k.ups = 1 /\ k.downs = 1 /\ ~k.reading /\ ~k.writing
Removed(k) ==
    /\ k.state \in {"disconnecting", "disconnected"} /\ k.index = "new" /\ k.ups = 1
    /\ k.downs = 0 => k.state = "disconnecting"
    /\ k.downs = 1 => ~k.reading /\ ~k.writing

\* A connection is at one of the stages, its output is whole, and until it goes
\* down it is interested in writing exactly while output waits.
Sound(k) ==
    /\ k \in Connection /\ IsBuffer(k.out) /\ IsBuffer(k.in)
    /\ Fresh(k) \/ Live(k) \/ Closed(k) \/ Removed(k)
    /\ k.wire \o Readable(k.out) = k.taken
    /\ k.downs = 0 => (k.writing <=> ReadableBytes(k.out) > 0)
    /\ k.downs = 0 /\ k.shutWrite => k.state = "disconnecting" /\ ~k.writing

\* Functors stand in the queue of the loop they are for, about connections that
\* were accepted.
FunctorOK(l, f) ==
    /\ f[2] <= accepted
    /\ f[1] \in {"established", "destroyed"} => l = loopOf[f[2]] /\ f = Do(f[1], f[2])
    /\ f[1] = "remove" => l = Base /\ f = Do("remove", f[2])
    /\ f[1] = "shutdown" => conn[f[2]].ups = 1
    /\ f[1] = "send" => f[3] \in Messages

\* Those of set-up and tear-down are queued once, and connectEstablished first.
Ordered(s) ==
    \A i, j \in 1..Len(s) : i < j =>
        /\ s[i][1] \in {"established", "destroyed", "remove"} => s[j] # s[i]
        /\ s[i][1] = "destroyed" => s[j] # Do("established", s[i][2])

Queued(l, f) == f \in ToSet(queue[l])

\* connectEstablished is to come exactly for the connections that are fresh;
\* every connection is in the map, or to be destroyed, or removed, and only one
\* of these; and one that is closed waits in the map for its remove.
Stages(c) ==
    /\ Fresh(conn[c]) <=> Queued(loopOf[c], Do("established", c))
    /\ c \in connections => ~Removed(conn[c]) /\ ~Queued(loopOf[c], Do("destroyed", c))
    /\ c \notin connections => (Removed(conn[c]) <=> ~Queued(loopOf[c], Do("destroyed", c)))
    /\ served /\ conn[c].downs = 0 => c \in connections
    /\ Queued(Base, Do("remove", c)) =>
         conn[c].downs = 1 /\ (served => c \in connections /\ Closed(conn[c]))
    /\ c \in connections /\ Closed(conn[c]) => Queued(Base, Do("remove", c))
    /\ loopOf[c] = Base => ~Fresh(conn[c]) /\ ~Queued(Base, Do("remove", c))

TcpInv ==
    /\ TcpTypeOK
    /\ \A c \in Conns : Sound(conn[c])
    /\ InputIntegrity
    /\ \A l \in Loops : Ordered(queue[l]) /\ \A f \in ToSet(queue[l]) : FunctorOK(l, f)
    /\ \A f \in calls :
         /\ f[2] <= accepted /\ conn[f[2]].ups = 1
         /\ f[1] = "shutdown" \/ (f[1] = "send" /\ f[3] \in Messages)
    /\ \A c \in Conns : c > accepted => Fresh(conn[c])
    /\ \A c \in 1..accepted : Stages(c)
    /\ ~served => connections = {} /\ Base \notin up
    /\ numSubs = 0 => \A c \in 1..accepted : loopOf[c] = Base
    /\ ~badRemove
=============================================================================
