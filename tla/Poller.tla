------------------------------- MODULE Poller -------------------------------
(***************************************************************************)
(* What Poller (include/net/poller.h) promises an EventLoop: a channel is  *)
(* registered with the events it asks for, and poll() hands out registered *)
(* channels only, with events they asked for or a hang-up.                 *)
(***************************************************************************)
CONSTANTS Channels, Events, HangUp

VARIABLES
    interest,           \* the events each channel asks for
    registered,         \* the registered channels
    reported            \* what the last call of poll() handed out

vars == <<interest, registered, reported>>

Init ==
    /\ interest = [c \in Channels |-> {}]
    /\ registered = {}
    /\ reported = {}

\* updateChannel.
Update(c, events) ==
    /\ interest' = [interest EXCEPT ![c] = events]
    /\ registered' = registered \cup {c}
    /\ reported' = {}

\* removeChannel.
Remove(c) ==
    /\ interest' = [interest EXCEPT ![c] = {}]
    /\ registered' = registered \ {c}
    /\ reported' = {}

\* poll; with nothing ready it hands out nothing.
Poll ==
    /\ reported' \in SUBSET UNION {{c} \X (interest[c] \cup {HangUp}) : c \in registered}
    /\ UNCHANGED <<interest, registered>>

Next ==
    \/ \E c \in Channels, events \in SUBSET Events : Update(c, events)
    \/ \E c \in Channels : Remove(c)
    \/ Poll

Spec == Init /\ [][Next]_vars
=============================================================================
