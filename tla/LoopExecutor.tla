---------------------------- MODULE LoopExecutor ----------------------------
(***************************************************************************)
(* What an EventLoop promises to the callers of queueInLoop: an executor   *)
(* that accepts functors and runs each of them exactly once, one at a      *)
(* time, in the order in which they were accepted.  It says nothing about  *)
(* locks, the eventfd, the poller or the batches in which the loop runs    *)
(* them; EventLoop.tla is shown to implement it.                           *)
(***************************************************************************)
EXTENDS Sequences

CONSTANT Funcs          \* the functors handed to the loop

VARIABLES
    todo,               \* accepted, not yet started, in order of acceptance
    ran                 \* started, in order

vars == <<todo, ran>>

Init == todo = <<>> /\ ran = <<>>

\* A caller hands f over: it goes to the back of the line.
Accept(f) == todo' = Append(todo, f) /\ UNCHANGED ran

\* The functor at the front starts running and is never started again.
Run == /\ todo # <<>>
       /\ ran' = Append(ran, Head(todo))
       /\ todo' = Tail(todo)

Next == Run \/ \E f \in Funcs : Accept(f)

Spec == Init /\ [][Next]_vars
=============================================================================
