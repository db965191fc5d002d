------------------------------ MODULE Pollers ------------------------------
(***************************************************************************)
(* The two implementations of Poller, EpollPoller (src/net/epoll_poller    *)
(* .cpp) and PollPoller (src/net/poll_poller.cpp), with the channels they  *)
(* serve and the kernel they stand on.  All of it runs on the loop thread. *)
(*                                                                         *)
(* Both keep _channels, a map from descriptors to channels, and note in    *)
(* the channel where it stands: EpollPoller a state, PollPoller the place  *)
(* of its pollfd.  The kernel hands out the lowest free descriptor, so     *)
(* descriptors come back as soon as they are closed.                       *)
(***************************************************************************)
EXTENDS Integers, FiniteSets, SequencesExt

CONSTANTS
    Channels,           \* Channel objects; one that is destroyed may be made anew
    MaxFd               \* bound on the descriptors

ASSUME MaxFdAssumption == MaxFd \in Nat

Fds == 0..MaxFd

Events == {"in", "out"}
HangUp == "hup"

\* Channel::_index: -1 not in the poller.  In EpollPoller ...
kNew == -1
kAdded == 1
kDeleted == 2
\* ... and in PollPoller an index into _eventList, counted from 0.

VARIABLES
    kind,               \* NewDefaultPoller: "epoll" or "poll"
    chan,               \* the channels: _fd, _events, _index, and is _fd open
    channels,           \* _channels
    epollSet,           \* the kernel's epoll set: descriptor -> channel, events
    eventList,          \* PollPoller::_eventList
    asked,              \* the channels that updateChannel was called for, and not
                        \* removeChannel since
    reported            \* what the last poll() put into the list of active channels

vars == <<kind, chan, channels, epollSet, eventList, asked, reported>>

\* A channel object that does not exist.
Gone == [fd |-> -1, events |-> {}, index |-> kNew, open |-> FALSE]

Exists(c) == chan[c].fd >= 0
FreeFds == Fds \ {chan[c].fd : c \in {b \in Channels : chan[b].open}}

Init ==
    /\ kind \in {"epoll", "poll"}
    /\ chan = [c \in Channels |-> Gone]
    /\ channels = <<>>
    /\ epollSet = <<>>
    /\ eventList = <<>>
    /\ asked = {}
    /\ reported = {}

\* An entry put into a map, in the place of one there may be under the same key.
Put(map, key, value) ==
    [x \in DOMAIN map \cup {key} |-> IF x = key THEN value ELSE map[x]]

-----------------------------------------------------------------------------
(* EpollPoller.                                                            *)

\* update(EPOLL_CTL_ADD or EPOLL_CTL_MOD) for channel c in state k, and
\* update(EPOLL_CTL_DEL).
EpollCtl(c, k) == Put(epollSet, k.fd, [ptr |-> c, events |-> k.events])
EpollDel(fd) == Restrict(epollSet, DOMAIN epollSet \ {fd})

\* updateChannel, with k the channel c and its new events.  A new channel takes
\* the place of whatever _channels still has under its descriptor.
EpollUpdate(c, k) ==
    IF k.index \in {kNew, kDeleted}
    THEN /\ chan' = [chan EXCEPT ![c] = [k EXCEPT !.index = kAdded]]
         /\ epollSet' = EpollCtl(c, k)
         /\ channels' = IF k.index = kNew THEN Put(channels, k.fd, c) ELSE channels
    ELSE IF k.events = {}
    THEN /\ chan' = [chan EXCEPT ![c] = [k EXCEPT !.index = kDeleted]]
         /\ epollSet' = EpollDel(k.fd)
         /\ UNCHANGED channels
    ELSE /\ chan' = [chan EXCEPT ![c] = k]
         /\ epollSet' = EpollCtl(c, k)
         /\ UNCHANGED channels

\* Mutant of EpollRemove: without the branch the source says must stay.
EpollRemoveBlindly(c, k) ==
    /\ channels' = Restrict(channels, DOMAIN channels \ {k.fd})
    /\ epollSet' = IF k.index = kAdded THEN EpollDel(k.fd) ELSE epollSet
    /\ chan' = [chan EXCEPT ![c].index = kNew]

\* removeChannel.  A channel whose descriptor has gone to another one leaves
\* everything as it is.
EpollRemove(c, k) ==
    IF channels[k.fd] # c
    THEN UNCHANGED <<chan, channels, epollSet>>
    ELSE /\ channels' = Restrict(channels, DOMAIN channels \ {k.fd})
         /\ epollSet' = IF k.index = kAdded THEN EpollDel(k.fd) ELSE epollSet
         /\ chan' = [chan EXCEPT ![c].index = kNew]

\* epoll_wait and fillActiveEvent: ready entries name their channel.
EpollReady == UNION {{epollSet[f].ptr} \X (epollSet[f].events \cup {HangUp}) : f \in DOMAIN epollSet}

-----------------------------------------------------------------------------
(* PollPoller.                                                             *)

\* A pollfd whose descriptor is negative is ignored by poll ...
Ignored(fd) == -fd - 1

\* ... and getRealFd undoes it.
GetRealFd(pollFd) == IF pollFd < 0 THEN -pollFd - 1 ELSE pollFd

\* updateChannel.
PollUpdate(c, k) ==
    IF k.index < 0
    THEN /\ eventList' = Append(eventList, [fd |-> k.fd, events |-> k.events])
         /\ chan' = [chan EXCEPT ![c] = [k EXCEPT !.index = Len(eventList)]]
         /\ channels' = Put(channels, k.fd, c)
    ELSE /\ eventList' = [eventList EXCEPT ![k.index + 1] =
                [fd |-> IF k.events = {} THEN Ignored(k.fd) ELSE k.fd, events |-> k.events]]
         /\ chan' = [chan EXCEPT ![c] = k]
         /\ UNCHANGED channels

\* Mutants of PollRemove: the index of the moved channel not repaired; looked
\* for under the descriptor as it is in the pollfd.
PollRemoveNoRepair(c, k) ==
    /\ channels' = Restrict(channels, DOMAIN channels \ {k.fd})
    /\ eventList' = Front([eventList EXCEPT ![k.index + 1] = Last(eventList)])
    /\ chan' = [chan EXCEPT ![c].index = -1]
PollRemoveRawFd(c, k) ==
    LET moved == Last(eventList).fd
        rest == Restrict(channels, DOMAIN channels \ {k.fd})
    IN  /\ channels' = rest
        /\ eventList' = Front([eventList EXCEPT ![k.index + 1] = Last(eventList)])
        /\ chan' = IF k.index # Len(eventList) - 1 /\ moved \in DOMAIN rest
                   THEN [chan EXCEPT ![c].index = -1, ![rest[moved]].index = k.index]
                   ELSE [chan EXCEPT ![c].index = -1]

\* removeChannel: the last pollfd moves into the hole, and the channel it
\* belongs to is told.
PollRemove(c, k) ==
    LET moved == GetRealFd(Last(eventList).fd)
        rest == Restrict(channels, DOMAIN channels \ {k.fd})
    IN  /\ channels' = rest
        /\ eventList' = Front([eventList EXCEPT ![k.index + 1] = Last(eventList)])
        /\ chan' = IF k.index # Len(eventList) - 1 /\ moved \in DOMAIN rest
                   THEN [chan EXCEPT ![c].index = -1, ![rest[moved]].index = k.index]
                   ELSE [chan EXCEPT ![c].index = -1]

\* poll and fillActiveEvent: the channel of a ready pollfd is looked up by its
\* descriptor.
PollReady ==
    LET watched == {p \in ToSet(eventList) : p.fd \in DOMAIN channels}
    IN  UNION {{channels[p.fd]} \X (p.events \cup {HangUp}) : p \in watched}

-----------------------------------------------------------------------------
(* The loop and its users.                                                 *)

\* A channel made for a new descriptor.
Open(c) ==
    /\ ~Exists(c) /\ FreeFds # {}
    /\ LET fd == CHOOSE f \in FreeFds : \A g \in FreeFds : f <= g
       IN  chan' = [chan EXCEPT ![c] = [fd |-> fd, events |-> {}, index |-> kNew, open |-> TRUE]]
    /\ reported' = {}
    /\ UNCHANGED <<kind, channels, epollSet, eventList, asked>>

\* enableReading, disableReading, enableWriting, disableWriting, disableAll.
Changes(events) == {events \cup {e} : e \in Events} \cup {events \ {e} : e \in Events} \cup {{}}

UpdateChannel(c, events) ==
    /\ chan[c].open /\ events \in Changes(chan[c].events)
    /\ LET k == [chan[c] EXCEPT !.events = events]
       IN  IF kind = "epoll" THEN EpollUpdate(c, k) /\ UNCHANGED eventList
           ELSE PollUpdate(c, k) /\ UNCHANGED epollSet
    /\ asked' = asked \cup {c}
    /\ reported' = {}
    /\ UNCHANGED kind

\* Channel::remove, once for a registered channel.  Where an older channel of
\* the same descriptor is still to be removed, that one goes first: both times
\* it is connectDestroyed that does it, from the queue of the loop.
RemoveChannel(c) ==
    /\ c \in asked
    /\ \A b \in Channels \ {c} : chan[b].fd = chan[c].fd => chan[b].open
    /\ IF kind = "epoll" THEN EpollRemove(c, chan[c]) /\ UNCHANGED eventList
       ELSE PollRemove(c, chan[c]) /\ UNCHANGED epollSet
    /\ asked' = asked \ {c}
    /\ reported' = {}
    /\ UNCHANGED kind

\* A channel that is not registered is destroyed and its descriptor closed.
Destroy(c) ==
    /\ Exists(c) /\ c \notin asked
    /\ chan' = [chan EXCEPT ![c] = Gone]
    /\ reported' = {}
    /\ UNCHANGED <<kind, channels, epollSet, eventList, asked>>

\* What EpollPoller provides for: the descriptor of a disabled channel is closed
\* before the channel is removed.
CloseEarly(c) ==
    /\ kind = "epoll" /\ c \in asked /\ chan[c].open /\ chan[c].index = kDeleted
    /\ \A b \in Channels \ {c} : chan[b].fd = chan[c].fd => chan[b].open
    /\ chan' = [chan EXCEPT ![c].open = FALSE]
    /\ reported' = {}
    /\ UNCHANGED <<kind, channels, epollSet, eventList, asked>>

\* poll(), with one of the ready events: fillActiveEvent treats each by itself.
Poll ==
    /\ \E r \in (IF kind = "epoll" THEN EpollReady ELSE PollReady) : reported' = {r}
    /\ UNCHANGED <<kind, chan, channels, epollSet, eventList, asked>>

Next ==
    \/ \E c \in Channels :
         \/ Open(c) \/ RemoveChannel(c) \/ Destroy(c) \/ CloseEarly(c)
         \/ \E events \in SUBSET Events : UpdateChannel(c, events)
    \/ Poll

Spec == Init /\ [][Next]_vars

-----------------------------------------------------------------------------
(* Properties.                                                             *)

\* What the kernel watches, and whom a report of it reaches: <<channel, events>>.
Watched ==
    IF kind = "epoll"
    THEN {<<epollSet[f].ptr, epollSet[f].events>> : f \in DOMAIN epollSet}
    ELSE {<<channels[p.fd], p.events>> : p \in {q \in ToSet(eventList) : q.fd >= 0}}

\* Every registered channel that asks for events is watched for just these, a
\* report reaches it and nobody else, and no report reaches a channel that was
\* removed or whose descriptor was closed.
WatchedAsAsked ==
    /\ \A c \in asked : chan[c].events # {} => <<c, chan[c].events>> \in Watched
    /\ \A w \in Watched : w[1] \in asked /\ chan[w[1]].open /\ w[2] = chan[w[1]].events

\* The channel found under a descriptor is the open one, as the assertions of
\* updateChannel and removeChannel have it, and its index leads to its pollfd.
IndexLeadsBack ==
    \A c \in asked :
        /\ chan[c].index # -1
        /\ chan[c].open => chan[c].fd \in DOMAIN channels /\ channels[chan[c].fd] = c
        /\ kind = "poll" => /\ chan[c].index + 1 \in DOMAIN eventList
                            /\ GetRealFd(eventList[chan[c].index + 1].fd) = chan[c].fd

\* Both pollers implement Poller.
AbstractPoller == INSTANCE Poller WITH
    interest <- [c \in Channels |-> IF c \in asked THEN chan[c].events ELSE {}],
    registered <- asked
ImplementsPoller == AbstractPoller!Spec

-----------------------------------------------------------------------------
(* The inductive invariant behind the properties.                          *)

ChannelStates == [fd : Int, events : SUBSET Events, index : Int, open : BOOLEAN]

PollersTypeOK ==
    /\ kind \in {"epoll", "poll"}
    /\ chan \in [Channels -> ChannelStates]
    /\ asked \subseteq Channels
    /\ eventList \in Seq([fd : Int, events : SUBSET Events])

\* A descriptor has at most one channel that is open, and at most one whose
\* descriptor was closed early.
Descriptors ==
    /\ \A c \in Channels : Exists(c) \/ chan[c] = Gone
    /\ \A c \in Channels : chan[c].open => chan[c].fd \in Fds
    /\ \A c \in asked : Exists(c)
    /\ \A b, c \in Channels :
         Exists(b) /\ chan[b].fd = chan[c].fd /\ (chan[b].open <=> chan[c].open) => b = c
    /\ \A c \in Channels \ asked : chan[c].open => chan[c].index = kNew

\* _channels leads from a descriptor to a registered channel of it, the open one
\* where there is one.
MapLeads ==
    /\ \A f \in DOMAIN channels : channels[f] \in asked /\ chan[channels[f]].fd = f
    /\ \A c \in asked : /\ chan[c].fd \in DOMAIN channels
                        /\ chan[c].open => channels[chan[c].fd] = c

\* EpollPoller: the kernel's set holds just the channels in the state kAdded.
EpollLeads ==
    /\ \A f \in DOMAIN epollSet :
         LET c == epollSet[f].ptr
         IN  /\ c \in asked /\ chan[c].open /\ chan[c].index = kAdded /\ chan[c].fd = f
             /\ epollSet[f].events = chan[c].events
    /\ \A c \in asked :
         /\ chan[c].index \in {kAdded, kDeleted}
         /\ chan[c].index = kAdded => /\ chan[c].open /\ chan[c].fd \in DOMAIN epollSet
                                      /\ epollSet[chan[c].fd].ptr = c
         /\ chan[c].index = kDeleted => chan[c].events = {}

\* PollPoller: each pollfd is that of the one channel whose index leads to it.
PollLeads ==
    /\ \A c \in Channels : Exists(c) => chan[c].open
    /\ \A c \in asked :
         /\ chan[c].index \in 0..(Len(eventList) - 1)
         /\ GetRealFd(eventList[chan[c].index + 1].fd) = chan[c].fd
         /\ eventList[chan[c].index + 1].events = chan[c].events
         /\ eventList[chan[c].index + 1].fd < 0 => chan[c].events = {}
    /\ \A i \in 1..Len(eventList) : \E c \in asked : chan[c].index = i - 1

PollersInv ==
    /\ PollersTypeOK
    /\ Descriptors
    /\ MapLeads
    /\ kind = "epoll" => EpollLeads
    /\ kind = "poll" => PollLeads
=============================================================================
