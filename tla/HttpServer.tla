----------------------------- MODULE HttpServer -----------------------------
(***************************************************************************)
(* One connection of HttpServer (src/net/http/http_server.cpp): bytes      *)
(* arrive in any segmentation, onMessage feeds them to the HttpContext and *)
(* its LLhttpParser (http_context.cpp, http_llhttp_parser.cpp), complete   *)
(* requests are handled on the loop thread or by a pool of business        *)
(* threads, and responses and shutdowns go to the TcpConnection, directly  *)
(* on the loop thread and through its queue from the others.               *)
(*                                                                         *)
(* A request is the bytes of its parts, in order; a byte is a triple       *)
(* <<request, part, position>>.  A "bad" request has a byte that llhttp    *)
(* rejects where its version should begin, and is the client's last.  Of   *)
(* llhttp, only what the callbacks in src/ see is modelled: a callback for *)
(* each piece of a part a segment holds, a pause at the end of a message,  *)
(* an error at a bad byte.  Of the connection, what TcpConnection.tla      *)
(* shows: output keeps the order of sendInLoop, so `wire' is the sequence  *)
(* of responses it took.                                                   *)
(***************************************************************************)
EXTENDS Integers, FiniteSets, SequencesExt

CONSTANTS
    NumRequests,        \* the most requests a client sends, one after another
    TokenLen,           \* bytes of a method, a version, a header's name
    SpanLen,            \* bytes of a url, a header's value, a body
    Workers,            \* threads of the business pool
    MaxTasks,           \* taskQueueMaxThreshold
    Pools               \* values of _isPool to start with

ASSUME HttpAssumption ==
    /\ NumRequests \in Nat \ {0} /\ TokenLen \in Nat \ {0} /\ SpanLen \in Nat \ {0}
    /\ MaxTasks \in Nat /\ Pools \subseteq BOOLEAN

VARIABLES
    isPool,             \* _isPool
    kinds,              \* what each request sent is: "keep", "close" or "bad"
    stream,             \* bytes the socket has not delivered yet
    buf,                \* the readable bytes of the connection's input buffer
    ctx,                \* the HttpContext of the connection
    pc,                 \* onMessage: "idle", "parse" or "handle"
    state,              \* TcpConnection::_state
    queue,              \* functors of workers in the loop's queue
    tasks,              \* the pool's task queue
    job,                \* the request each worker has, 0 if none
    place,              \* where a worker is: "idle", "handle" or "shutdown"
    wire,               \* responses sent, in order: <<request, status>>
    dispatched,         \* history: requests handed to _httpCallBack
    peerClosed          \* history: the peer closed the connection

connVars == <<state, queue, wire>>
poolVars == <<tasks, job, place>>
inputVars == <<stream, buf, ctx>>
vars == <<isPool, kinds, stream, buf, ctx, pc, state, queue, tasks, job, place,
          wire, dispatched, peerClosed>>

Requests == 1..NumRequests
Parts == {"method", "url", "version", "field", "value", "body"}

\* onMethod, onVersion and onHeaderField assign what they are given; onUrl,
\* onHeaderValue and onBody append it.
Assigned == {"method", "version", "field"}

\* The parts of a request follow one another.
PartLen(p) == IF p \in Assigned THEN TokenLen ELSE SpanLen
Offset ==
    [method |-> 0, url |-> TokenLen, version |-> TokenLen + SpanLen,
     field |-> 2 * TokenLen + SpanLen, value |-> 3 * TokenLen + SpanLen,
     body |-> 3 * TokenLen + 2 * SpanLen]
MessageLen == 3 * TokenLen + 3 * SpanLen
PartAt(i) == CHOOSE p \in Parts : i \in (Offset[p] + 1)..(Offset[p] + PartLen(p))

Span(r, p) == [i \in 1..PartLen(p) |-> <<r, p, i>>]

\* The i-th byte of request r.
Byte(r, kind, i) ==
    IF kind = "bad" /\ i = Offset["version"] + 1 THEN <<r, "bad", 1>>
    ELSE <<r, PartAt(i), i - Offset[PartAt(i)]>>

\* The k-th byte of the client.
Sent(ks, k) ==
    LET r == (k - 1) \div MessageLen
    IN  Byte(r + 1, ks[r + 1], k - r * MessageLen)

NewContext == [got |-> [p \in Parts |-> <<>>], failed |-> FALSE]

HttpTypeOK ==
    /\ isPool \in BOOLEAN
    /\ kinds \in Seq({"keep", "close", "bad"}) /\ Len(kinds) \in Requests
    /\ pc \in {"idle", "parse", "handle"}
    /\ state \in {"connected", "disconnecting", "disconnected"}
    /\ queue \in Seq(({"send"} \X Requests) \cup {<<"shutdown", 0>>})
    /\ tasks \in Seq(Requests) /\ Len(tasks) <= MaxTasks
    /\ job \in [Workers -> 0..NumRequests]
    /\ place \in [Workers -> {"idle", "handle", "shutdown"}]
    /\ wire \in Seq(Requests \X {200, 400, 503})
    /\ Len(dispatched) <= Len(kinds)
    /\ peerClosed \in BOOLEAN

Init ==
    /\ isPool \in Pools
    /\ \E n \in Requests : kinds \in [1..n -> {"keep", "close", "bad"}]
    /\ \A r \in 1..(Len(kinds) - 1) : kinds[r] # "bad"
    /\ stream = [k \in 1..(Len(kinds) * MessageLen) |-> Sent(kinds, k)]
    /\ buf = <<>> /\ ctx = NewContext /\ pc = "idle"
    /\ state = "connected" /\ queue = <<>>
    /\ tasks = <<>>
    /\ job = [w \in Workers |-> 0] /\ place = [w \in Workers |-> "idle"]
    /\ wire = <<>> /\ dispatched = <<>> /\ peerClosed = FALSE

-----------------------------------------------------------------------------
(* The parser.                                                             *)

\* Where llhttp stops in b: at the end of a message, or at a bad byte.
Ends(x) == x[2] = "body" /\ x[3] = SpanLen
Bad(x) == x[2] = "bad"
Stops(b) == {i \in 1..Len(b) : Ends(b[i]) \/ Bad(b[i])}
Stop(b) == CHOOSE i \in Stops(b) : \A j \in Stops(b) : i <= j

\* Where part p lies in the first n bytes of b, and what a callback is given of
\* it: the data from its first byte to its last.
Places(b, n, p) == {i \in 1..n : b[i][2] = p}
Piece(b, n, p) == SubSeq(b, Min(Places(b, n, p)), Max(Places(b, n, p)))

\* Mutant of Feed: the callbacks all assign.
FeedAssigns(got, b, n) ==
    [p \in Parts |-> IF Places(b, n, p) = {} THEN got[p] ELSE Piece(b, n, p)]

\* The callbacks, for the pieces of the parts that the first n bytes of b hold.
Feed(got, b, n) ==
    [p \in Parts |->
        IF Places(b, n, p) = {} THEN got[p]
        ELSE IF p \in Assigned THEN Piece(b, n, p)
        ELSE got[p] \o Piece(b, n, p)]

\* The request a context holds.
Id(got) == got["url"][1][1]

\* work_func: the client asked for the connection to be closed, in a header
\* found by its name.  A request that is closed for another reason (HTTP/1.0, or
\* the 404 servlet's setConnectionClosed(true), which is read back before the
\* shutdown) takes the same path, and is of the kind "close" as well.
Closes(r, got) ==
    /\ kinds[r] = "close"
    /\ got["field"] = Span(r, "field") /\ got["value"] = Span(r, "value")

-----------------------------------------------------------------------------
(* The connection.                                                         *)

\* Mutant of AnswerHere: sends whatever the state.
AnswerHereAlways(r, status, last) ==
    /\ wire' = Append(wire, <<r, status>>)
    /\ state' = IF last THEN "disconnecting" ELSE state

\* send, then shutdown if `last', on the loop thread: nothing unless connected.
AnswerHere(r, status, last) ==
    IF state # "connected" THEN UNCHANGED <<state, wire>>
    ELSE /\ wire' = Append(wire, <<r, status>>)
         /\ state' = IF last THEN "disconnecting" ELSE state

\* Mutant of RefuseHere: shut down first, and the response is dropped.
RefuseHereSilent(r, status) ==
    /\ state' = IF state = "connected" THEN "disconnecting" ELSE state
    /\ UNCHANGED wire

\* The answer to what is refused, 400 or 503: send, then shutdown.
RefuseHere(r, status) == AnswerHere(r, status, TRUE)

-----------------------------------------------------------------------------
(* onMessage.                                                              *)

\* TcpConnection::handleRead: n bytes arrive and the message callback is called.
Receive(n) ==
    /\ pc = "idle" /\ state # "disconnected" /\ n <= Len(stream)
    /\ buf' = buf \o SubSeq(stream, 1, n)
    /\ stream' = SubSeq(stream, n + 1, Len(stream))
    /\ pc' = "parse"
    /\ UNCHANGED <<isPool, kinds, ctx, connVars, poolVars, dispatched, peerClosed>>

\* The while loop finds the buffer empty.
NoMore ==
    /\ pc = "parse" /\ buf = <<>>
    /\ pc' = "idle"
    /\ UNCHANGED <<isPool, kinds, inputVars, connVars, poolVars, dispatched, peerClosed>>

\* The data ends inside a message: all of it is consumed, and more awaited.
ParsePartial ==
    /\ pc = "parse" /\ buf # <<>> /\ ~ctx.failed /\ Stops(buf) = {}
    /\ ctx' = [ctx EXCEPT !.got = Feed(@, buf, Len(buf))]
    /\ buf' = <<>>
    /\ pc' = "idle"
    /\ UNCHANGED <<isPool, kinds, stream, connVars, poolVars, dispatched, peerClosed>>

\* Mutant of Consumed: the whole buffer, the next request included.
ConsumedAll(b) == <<>>

\* parse: the buffer is reset up to where llhttp paused.
Consumed(b) == SubSeq(b, Stop(b) + 1, Len(b))

\* A message ends: the parser pauses, and _httpCallBack is called.
ParseComplete ==
    /\ pc = "parse" /\ ~ctx.failed /\ Stops(buf) # {} /\ Ends(buf[Stop(buf)])
    /\ ctx' = [ctx EXCEPT !.got = Feed(@, buf, Stop(buf))]
    /\ buf' = Consumed(buf)
    /\ dispatched' = Append(dispatched, ctx'.got)
    /\ pc' = "handle"
    /\ UNCHANGED <<isPool, kinds, stream, connVars, poolVars, peerClosed>>

\* A bad byte: 400 and shutdown.  The context stays, and with it the parser in
\* its failed state, which fails on whatever comes next.
ParseError ==
    /\ pc = "parse" /\ buf # <<>>
    /\ ctx.failed \/ (Stops(buf) # {} /\ Bad(buf[Stop(buf)]))
    /\ ctx' = [ctx EXCEPT !.failed = TRUE]
    /\ buf' = IF ctx.failed THEN <<>> ELSE SubSeq(buf, Stop(buf), Len(buf))
    /\ RefuseHere(IF ctx.failed THEN NumRequests ELSE buf[Stop(buf)][1], 400)
    /\ pc' = "idle"
    /\ UNCHANGED <<isPool, kinds, stream, queue, poolVars, dispatched, peerClosed>>

\* Mutant of NextTurn: `if' for the `while' of onMessage.
NextTurnStops == pc' = "idle" /\ ctx' = NewContext

\* After _httpCallBack: a new context, and the next turn of the while loop.
NextTurn == pc' = "parse" /\ ctx' = NewContext

\* handleRequest without a pool: work_func on the loop thread.
HandleInline ==
    /\ pc = "handle" /\ ~isPool
    /\ AnswerHere(Id(ctx.got), 200, Closes(Id(ctx.got), ctx.got))
    /\ NextTurn
    /\ UNCHANGED <<isPool, kinds, stream, buf, queue, poolVars, dispatched, peerClosed>>

\* Mutant of Submit: the bound on the queue not looked at.
SubmitUnbounded ==
    /\ pc = "handle" /\ isPool
    /\ tasks' = Append(tasks, Id(ctx.got))
    /\ NextTurn
    /\ UNCHANGED <<isPool, kinds, stream, buf, connVars, job, place, dispatched, peerClosed>>

\* With one: trySubmitTask takes the request ...
Submit ==
    /\ pc = "handle" /\ isPool /\ Len(tasks) < MaxTasks
    /\ tasks' = Append(tasks, Id(ctx.got))
    /\ NextTurn
    /\ UNCHANGED <<isPool, kinds, stream, buf, connVars, job, place, dispatched, peerClosed>>

\* ... or gives up when the queue stays full: 503 and shutdown.
SubmitRefused ==
    /\ pc = "handle" /\ isPool /\ Len(tasks) >= MaxTasks
    /\ RefuseHere(Id(ctx.got), 503)
    /\ NextTurn
    /\ UNCHANGED <<isPool, kinds, stream, buf, queue, poolVars, dispatched, peerClosed>>

-----------------------------------------------------------------------------
(* work_func on a business thread: the servlet, then send and shutdown,    *)
(* each of which looks at _state on this thread and queues a functor.      *)

TakeTask(w) ==
    /\ place[w] = "idle" /\ tasks # <<>>
    /\ job' = [job EXCEPT ![w] = Head(tasks)]
    /\ tasks' = Tail(tasks)
    /\ place' = [place EXCEPT ![w] = "handle"]
    /\ UNCHANGED <<isPool, kinds, inputVars, pc, connVars, dispatched, peerClosed>>

WorkerSend(w) ==
    /\ place[w] = "handle"
    /\ queue' = IF state = "connected" THEN Append(queue, <<"send", job[w]>>) ELSE queue
    /\ IF Closes(job[w], dispatched[job[w]])
       THEN place' = [place EXCEPT ![w] = "shutdown"] /\ UNCHANGED job
       ELSE place' = [place EXCEPT ![w] = "idle"] /\ job' = [job EXCEPT ![w] = 0]
    /\ UNCHANGED <<isPool, kinds, inputVars, pc, state, wire, tasks, dispatched, peerClosed>>

WorkerShutdown(w) ==
    /\ place[w] = "shutdown"
    /\ queue' = IF state = "connected" THEN Append(queue, <<"shutdown", 0>>) ELSE queue
    /\ place' = [place EXCEPT ![w] = "idle"] /\ job' = [job EXCEPT ![w] = 0]
    /\ UNCHANGED <<isPool, kinds, inputVars, pc, state, wire, tasks, dispatched, peerClosed>>

-----------------------------------------------------------------------------
(* The loop between messages, and the peer.                                *)

\* A queued sendInLoop or shutdownInLoop; the latter does not look at _state.
RunFunctor ==
    /\ pc = "idle" /\ queue # <<>>
    /\ queue' = Tail(queue)
    /\ IF Head(queue)[1] = "send"
       THEN AnswerHere(Head(queue)[2], 200, FALSE)
       ELSE state' = "disconnecting" /\ UNCHANGED wire
    /\ UNCHANGED <<isPool, kinds, inputVars, pc, poolVars, dispatched, peerClosed>>

\* handleClose.
PeerClose ==
    /\ pc = "idle" /\ state # "disconnected" /\ ~peerClosed
    /\ state' = "disconnected"
    /\ peerClosed' = TRUE
    /\ UNCHANGED <<isPool, kinds, inputVars, pc, queue, wire, poolVars, dispatched>>

LoopStep ==
    \/ NoMore \/ ParsePartial \/ ParseComplete \/ ParseError
    \/ HandleInline \/ Submit \/ SubmitRefused \/ RunFunctor

WorkerStep(w) == TakeTask(w) \/ WorkerSend(w) \/ WorkerShutdown(w)

Next ==
    \/ \E n \in 1..Len(stream) : Receive(n)
    \/ LoopStep
    \/ \E w \in Workers : WorkerStep(w)
    \/ PeerClose

\* The loop goes on and comes to its functors again and again; business threads
\* are scheduled.
Fairness ==
    /\ WF_vars(LoopStep)
    /\ SF_vars(RunFunctor)
    /\ \A w \in Workers : WF_vars(WorkerStep(w))

Spec == Init /\ [][Next]_vars /\ Fairness

-----------------------------------------------------------------------------
(* Properties.                                                             *)

\* Whatever the segmentation, requests are dispatched once each and in the order
\* sent, and the url and body of each are whole: pipelining leaves the next
\* request readable, a partial url or body is kept.
UrlAndBodyWhole ==
    \A i \in 1..Len(dispatched) :
        \A p \in {"url", "body"} : dispatched[i][p] = Span(i, p)

\* The parser supports segmented data: every part of a dispatched request is
\* what the client sent.
SegmentationInvisible ==
    \A i \in 1..Len(dispatched) : \A p \in Parts : dispatched[i][p] = Span(i, p)

\* A response after which the server stops sending: a refusal, or the answer to
\* a request in which it read that the client wants it to.
Final(x) == x[2] # 200 \/ Closes(x[1], dispatched[x[1]])

\* No request is answered twice; a 400 or a 503 is the last thing sent; and
\* without a pool responses come in the order of the requests, none missing,
\* and a response to a "Connection: close" that was read is the last one too.
AnswersWellFormed ==
    /\ \A i, j \in 1..Len(wire) : wire[i][1] = wire[j][1] => i = j
    /\ \A i \in 1..Len(wire) : wire[i][2] # 200 => i = Len(wire)
    /\ ~isPool => \A i \in 1..Len(wire) :
                    wire[i][1] = i /\ (Final(wire[i]) => i = Len(wire))

\* The server does not close its side without having said why: a response that
\* refuses, or one to a request to close.
CloseIsAnnounced ==
    state = "disconnecting" /\ ~peerClosed => \E i \in 1..Len(wire) : Final(wire[i])

\* Every request that has arrived is answered, or the connection ends: none
\* stays unread in the buffer behind another one, or is lost between threads.
Arrived(r) == r <= Len(kinds) /\ (stream = <<>> \/ Head(stream)[1] > r)
RequestsAnswered ==
    \A r \in Requests :
        Arrived(r) ~> (state # "connected" \/ \E i \in 1..Len(wire) : wire[i][1] = r)

-----------------------------------------------------------------------------
(* The inductive invariant behind the invariants.                          *)

Bytes == Requests \X (Parts \cup {"bad"}) \X Nat

\* How many of the client's bytes are parsed, and of the request at hand.
Parsed == Len(kinds) * MessageLen - (Len(buf) + Len(stream))
Within == Parsed - Len(dispatched) * MessageLen

\* What there is of part p of request r once n bytes of the request are parsed.
Upto(p, n) ==
    IF n <= Offset[p] THEN 0
    ELSE IF n >= Offset[p] + PartLen(p) THEN PartLen(p) ELSE n - Offset[p]
Begun(r, p, n) == [i \in 1..Upto(p, n) |-> <<r, p, i>>]

\* Buffer and socket hold what the client sent from some place on; while the
\* parser has not failed, it is the place that the context has come to.
InputTypeOK ==
    /\ buf \in Seq(Bytes) /\ stream \in Seq(Bytes)
    /\ ctx \in [got : [Parts -> Seq(Bytes)], failed : BOOLEAN]
    /\ dispatched \in Seq([Parts -> Seq(Bytes)])
Unread ==
    \A k \in 1..Len(stream) :
        stream[k] = Sent(kinds, Len(kinds) * MessageLen - Len(stream) + k)
Parsing ==
    /\ \A k \in 1..Len(buf) : buf[k] = Sent(kinds, Parsed + k)
    /\ Within \in 0..(MessageLen - 1)
    /\ Len(dispatched) < Len(kinds) /\ kinds[Len(dispatched) + 1] = "bad" =>
         Within <= Offset["version"]
    /\ pc = "handle" =>
         Len(dispatched) > 0 /\ ctx.got = dispatched[Len(dispatched)] /\ Within = 0
    /\ pc # "handle" =>
         \A p \in Parts \ Assigned : ctx.got[p] = Begun(Len(dispatched) + 1, p, Within)
Input ==
    /\ InputTypeOK /\ Unread /\ UrlAndBodyWhole
    /\ ~ctx.failed => Parsing
    /\ ctx.failed => state # "connected" /\ pc # "handle"

\* Requests that have been answered, refused or given to the pool.
Given == IF pc = "handle" THEN Len(dispatched) - 1 ELSE Len(dispatched)

\* Where a request waits for its answer, and whether it has it.
InTasks(r) == \E i \in 1..Len(tasks) : tasks[i] = r
AtWork(r) == \E w \in Workers : place[w] = "handle" /\ job[w] = r
InQueue(r) == \E i \in 1..Len(queue) : queue[i] = <<"send", r>>
Answered(r) == \E i \in 1..Len(wire) : wire[i][1] = r

\* A request is in one place at most, and once.
Once ==
    /\ \A i \in 1..Len(tasks) : tasks[i] <= Given
    /\ \A w \in Workers : place[w] # "idle" => job[w] \in 1..Given
    /\ \A i \in 1..Len(queue) : queue[i][2] <= Given
    /\ \A i, j \in 1..Len(tasks) : tasks[i] = tasks[j] => i = j
    /\ \A v, w \in Workers : 
         place[v] = "handle" /\ place[w] = "handle" /\ job[v] = job[w] => v = w
    /\ \A i, j \in 1..Len(queue) : queue[i][1] = "send" /\ queue[i] = queue[j] => i = j
    /\ \A r \in Requests :
         /\ InTasks(r) => ~AtWork(r) /\ ~InQueue(r)
         /\ AtWork(r) => ~InQueue(r)

\* The same of answers, for as long as there will be more.
Answers ==
    /\ AnswersWellFormed
    /\ \A i \in 1..Len(wire) : wire[i][2] = 200 => wire[i][1] <= Given
    /\ state = "connected" =>
         /\ \A i \in 1..Len(wire) : wire[i][2] = 200
         /\ \A r \in Requests : Answered(r) => ~InTasks(r) /\ ~AtWork(r) /\ ~InQueue(r)
    /\ ~isPool => tasks = <<>> /\ queue = <<>> /\ \A w \in Workers : place[w] = "idle"
    /\ ~isPool /\ state = "connected" =>
         Len(wire) = Given /\ \A i \in 1..Len(wire) : ~Final(wire[i])

\* A shutdown is asked for only behind an answer that says so.
Closing(r) == Closes(r, dispatched[r])
Told == peerClosed \/ \E i \in 1..Len(wire) : Final(wire[i])
Announced ==
    /\ CloseIsAnnounced
    /\ state = "disconnected" => peerClosed
    /\ peerClosed => state # "connected"
    /\ \A w \in Workers : place[w] = "shutdown" =>
         /\ Closing(job[w])
         /\ state = "connected" =>
              InQueue(job[w]) \/ \E i \in 1..Len(wire) : wire[i] = <<job[w], 200>>
    /\ \A i \in 1..Len(queue) : queue[i][1] = "shutdown" =>
         Told \/ \E j \in 1..(i - 1) : queue[j][1] = "send" /\ Closing(queue[j][2])

HttpInv == HttpTypeOK /\ Input /\ Once /\ Answers /\ Announced
=============================================================================
