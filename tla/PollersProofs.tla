---------------------------- MODULE PollersProofs ----------------------------
(***************************************************************************)
(* Proofs about Pollers, for every set of channels and every number of     *)
(* descriptors.  The inductive invariant is Pollers!PollersInv.            *)
(***************************************************************************)
EXTENDS Pollers, SequenceTheorems, WellFoundedInduction, TLAPS

-----------------------------------------------------------------------------
(* Maps, lists of pollfds and channels.                                    *)

\* An entry put into a map takes the place of the one under the same key.
LEMMA PutAdds ==
    ASSUME NEW map, NEW key, NEW value
    PROVE  /\ \A x : x \in DOMAIN Put(map, key, value) <=> x = key \/ x \in DOMAIN map
           /\ Put(map, key, value)[key] = value
           /\ \A x \in DOMAIN map : x # key => Put(map, key, value)[x] = map[x]
  BY DEF Put

\* What removeChannel makes of the list: the last entry fills the hole.
LEMMA FillHole ==
    ASSUME NEW S, NEW list \in Seq(S), NEW i \in 1..Len(list)
    PROVE  LET new == Front([list EXCEPT ![i] = Last(list)])
           IN  /\ new \in Seq(S) /\ Len(new) = Len(list) - 1
               /\ \A j \in 1..(Len(list) - 1) :
                    new[j] = IF j = i THEN list[Len(list)] ELSE list[j]
<1> DEFINE over == [list EXCEPT ![i] = Last(list)]
<1>1. Len(list) \in Nat /\ DOMAIN list = 1..Len(list) /\ list[Len(list)] \in S
  BY LenProperties, ElementOfSeq
<1>2. /\ over \in Seq(S) /\ Len(over) = Len(list)
      /\ \A j \in 1..Len(list) : over[j] = IF j = i THEN list[Len(list)] ELSE list[j]
  BY <1>1, ExceptSeq DEF Last
<1> HIDE DEF over
<1>3. /\ SubSeq(over, 1, Len(over) - 1) \in Seq(S)
      /\ Len(SubSeq(over, 1, Len(over) - 1)) = Len(list) - 1
      /\ \A j \in 1..(Len(list) - 1) : SubSeq(over, 1, Len(over) - 1)[j] = over[j]
  BY <1>1, <1>2
<1> QED
  BY <1>1, <1>2, <1>3 DEF Front, over

\* The place x of a pollfd after that at y has been removed from a list of n.
LEMMA PlaceAfter ==
    ASSUME NEW n \in Nat, NEW x \in 0..(n - 1), NEW y \in 0..(n - 1), x # y,
           NEW z, z = IF x = n - 1 THEN y ELSE x
    PROVE  /\ z \in 0..(n - 1 - 1) /\ z + 1 \in 1..(n - 1)
           /\ z + 1 = y + 1 <=> x + 1 = n
           /\ x + 1 = n => z = y
           /\ x + 1 # n => z = x
  OBVIOUS

\* The pollfd of an ignored descriptor still tells which it was.
LEMMA IgnoredIsKept ==
    ASSUME NEW fd \in Nat
    PROVE  /\ Ignored(fd) \in Int /\ Ignored(fd) < 0 /\ GetRealFd(Ignored(fd)) = fd
           /\ GetRealFd(fd) = fd
  BY DEF Ignored, GetRealFd

\* The fields of a channel.
LEMMA ChannelTypes ==
    ASSUME PollersInv, NEW c \in Channels
    PROVE  /\ chan[c] \in ChannelStates /\ chan[c].fd \in Int /\ chan[c].events \in SUBSET Events
           /\ chan[c].index \in Int /\ chan[c].open \in BOOLEAN
           /\ Exists(c) => chan[c].fd \in Nat
           /\ kNew = -1 /\ kAdded = 1 /\ kDeleted = 2
  BY DEF PollersInv, PollersTypeOK, ChannelStates, Exists, kNew, kAdded, kDeleted

\* One channel changes.
LEMMA OneChanges ==
    ASSUME PollersInv, NEW c \in Channels, NEW r \in ChannelStates, chan' = [chan EXCEPT ![c] = r]
    PROVE  /\ chan' \in [Channels -> ChannelStates]
           /\ \A b \in Channels : chan'[b] = IF b = c THEN r ELSE chan[b]
  BY DEF PollersInv, PollersTypeOK

-----------------------------------------------------------------------------
(* The steps of the users.                                                 *)

\* A step that leaves the registered channels alone.
LEMMA OthersOnly ==
    ASSUME PollersInv, chan' \in [Channels -> ChannelStates], Descriptors',
           UNCHANGED <<kind, channels, epollSet, eventList, asked>>,
           \A b \in asked : chan'[b] = chan[b],
           kind = "poll" => \A b \in Channels : Exists(b)' => chan'[b].open
    PROVE  PollersInv'
<1>1. PollersTypeOK'
  BY DEF PollersInv, PollersTypeOK
<1>2. \A f \in DOMAIN channels : channels[f] \in asked
  BY DEF PollersInv, MapLeads
<1>3. MapLeads'
  BY <1>2 DEF PollersInv, MapLeads
<1>4. kind = "epoll" => EpollLeads'
  BY DEF PollersInv, EpollLeads
<1>5. kind = "poll" => PollLeads'
  BY DEF PollersInv, PollLeads
<1> QED
  BY <1>1, <1>3, <1>4, <1>5 DEF PollersInv

\* The kernel hands out a descriptor that no open channel has.
LEMMA LowestIsFree ==
    ASSUME PollersInv, FreeFds # {}
    PROVE  LET fd == CHOOSE f \in FreeFds : \A g \in FreeFds : f <= g
           IN  fd \in Fds /\ \A c \in Channels : chan[c].open => chan[c].fd # fd
<1>1. FreeFds \subseteq Nat /\ FreeFds \subseteq Fds
  BY MaxFdAssumption DEF FreeFds, Fds
<1>2. PICK f \in FreeFds : \A g \in FreeFds : ~ (<<g, f>> \in OpToRel(<, Nat))
  BY <1>1, WFMin, NatLessThanWellFounded
<1>3. \A g \in FreeFds : f <= g
  <2>1. \A g \in FreeFds : ~ (g < f)
    BY <1>1, <1>2 DEF OpToRel
  <2> QED
    BY <1>1, <2>1
<1>4. (CHOOSE h \in FreeFds : \A g \in FreeFds : h <= g) \in FreeFds
  BY <1>3
<1> QED
  BY <1>1, <1>4 DEF FreeFds

LEMMA OpenKeeps ==
    ASSUME PollersInv, NEW c \in Channels, Open(c)
    PROVE  PollersInv'
<1> DEFINE fd == CHOOSE f \in FreeFds : \A g \in FreeFds : f <= g
           r == [fd |-> fd, events |-> {}, index |-> kNew, open |-> TRUE]
<1>1. /\ ~Exists(c) /\ FreeFds # {} /\ chan' = [chan EXCEPT ![c] = r]
      /\ UNCHANGED <<kind, channels, epollSet, eventList, asked>>
  BY DEF Open
<1>2. fd \in Fds /\ \A b \in Channels : chan[b].open => chan[b].fd # fd
  BY <1>1, LowestIsFree
<1>3. fd \in Nat
  BY <1>2, MaxFdAssumption DEF Fds
<1> HIDE DEF fd
<1>4. /\ r \in ChannelStates /\ r.fd = fd /\ r.events = {} /\ r.index = kNew /\ r.open = TRUE
  BY <1>3 DEF ChannelStates, kNew
<1> HIDE DEF r
<1>5. /\ chan' \in [Channels -> ChannelStates]
      /\ \A b \in Channels : chan'[b] = IF b = c THEN r ELSE chan[b]
  BY <1>1, <1>4, OneChanges
<1>6. c \notin asked /\ asked \subseteq Channels
  BY <1>1 DEF PollersInv, PollersTypeOK, Descriptors
<1>7. \A b \in Channels : chan[b].open => chan[b].fd >= 0
  BY MaxFdAssumption DEF PollersInv, Descriptors, Fds
<1>8. Descriptors'
  <2>1. \A b \in Channels : Exists(b)' <=> IF b = c THEN TRUE ELSE Exists(b)
    BY <1>3, <1>4, <1>5 DEF Exists
  <2>2. \A b \in Channels : Exists(b)' \/ chan'[b] = Gone
    BY <1>5, <2>1 DEF PollersInv, Descriptors
  <2>3. \A b \in Channels : chan'[b].open => chan'[b].fd \in Fds
    BY <1>2, <1>4, <1>5 DEF PollersInv, Descriptors
  <2>4. \A b \in asked' : Exists(b)'
    BY <1>1, <1>6, <2>1 DEF PollersInv, Descriptors
  <2>5. ASSUME NEW a \in Channels, NEW b \in Channels, Exists(a)', chan'[a].fd = chan'[b].fd,
               chan'[a].open <=> chan'[b].open
        PROVE  a = b
    <3>1. CASE a # c /\ b # c
      BY <1>5, <2>1, <2>5, <3>1 DEF PollersInv, Descriptors
    <3>2. CASE a = c /\ b # c
      BY <1>2, <1>4, <1>5, <2>5, <3>2
    <3>3. CASE a # c /\ b = c
      BY <1>2, <1>4, <1>5, <2>5, <3>3
    <3> QED
      BY <3>1, <3>2, <3>3
  <2>6. \A b \in Channels \ asked' : chan'[b].open => chan'[b].index = kNew
    BY <1>1, <1>4, <1>5 DEF PollersInv, Descriptors
  <2> QED
    BY <2>2, <2>3, <2>4, <2>5, <2>6 DEF Descriptors
<1>9. \A b \in asked : chan'[b] = chan[b]
  BY <1>5, <1>6
<1>10. kind = "poll" => \A b \in Channels : Exists(b)' => chan'[b].open
  BY <1>4, <1>5 DEF PollersInv, PollLeads, Exists
<1> QED
  BY <1>1, <1>5, <1>8, <1>9, <1>10, OthersOnly

LEMMA DestroyKeeps ==
    ASSUME PollersInv, NEW c \in Channels, Destroy(c)
    PROVE  PollersInv'
<1>1. /\ Exists(c) /\ c \notin asked /\ chan' = [chan EXCEPT ![c] = Gone]
      /\ UNCHANGED <<kind, channels, epollSet, eventList, asked>>
  BY DEF Destroy
<1>2. /\ Gone \in ChannelStates /\ Gone.fd = -1 /\ Gone.open = FALSE
  BY DEF ChannelStates, Gone, kNew
<1>3. /\ chan' \in [Channels -> ChannelStates]
      /\ \A b \in Channels : chan'[b] = IF b = c THEN Gone ELSE chan[b]
  BY <1>1, <1>2, OneChanges
<1>4. asked \subseteq Channels
  BY DEF PollersInv, PollersTypeOK
<1>5. Descriptors'
  <2>1. \A b \in Channels : Exists(b)' <=> b # c /\ Exists(b)
    BY <1>2, <1>3 DEF Exists
  <2>2. \A b \in Channels : Exists(b)' \/ chan'[b] = Gone
    BY <1>3, <2>1 DEF PollersInv, Descriptors
  <2>3. \A b \in Channels : chan'[b].open => chan'[b].fd \in Fds
    BY <1>2, <1>3 DEF PollersInv, Descriptors
  <2>4. \A b \in asked' : Exists(b)'
    BY <1>1, <1>4, <2>1 DEF PollersInv, Descriptors
  <2>5. ASSUME NEW a \in Channels, NEW b \in Channels, Exists(a)', chan'[a].fd = chan'[b].fd,
               chan'[a].open <=> chan'[b].open
        PROVE  a = b
    <3>1. a # c /\ chan'[a].fd >= 0
      BY <2>1, <2>5 DEF Exists
    <3>2. b # c
      BY <1>2, <1>3, <2>5, <3>1
    <3> QED
      BY <1>3, <2>1, <2>5, <3>1, <3>2 DEF PollersInv, Descriptors
  <2>6. \A b \in Channels \ asked' : chan'[b].open => chan'[b].index = kNew
    BY <1>1, <1>2, <1>3 DEF PollersInv, Descriptors
  <2> QED
    BY <2>2, <2>3, <2>4, <2>5, <2>6 DEF Descriptors
<1>6. \A b \in asked : chan'[b] = chan[b]
  BY <1>1, <1>3, <1>4
<1>7. kind = "poll" => \A b \in Channels : Exists(b)' => chan'[b].open
  BY <1>2, <1>3 DEF PollersInv, PollLeads, Exists
<1> QED
  BY <1>1, <1>3, <1>5, <1>6, <1>7, OthersOnly

LEMMA CloseEarlyKeeps ==
    ASSUME PollersInv, NEW c \in Channels, CloseEarly(c)
    PROVE  PollersInv'
<1> DEFINE r == [chan[c] EXCEPT !.open = FALSE]
<1>1. /\ kind = "epoll" /\ c \in asked /\ chan[c].open /\ chan[c].index = kDeleted
      /\ \A b \in Channels \ {c} : chan[b].fd = chan[c].fd => chan[b].open
      /\ chan' = [chan EXCEPT ![c] = r]
      /\ UNCHANGED <<kind, channels, epollSet, eventList, asked>>
  BY DEF CloseEarly
<1>2. /\ r \in ChannelStates /\ r.fd = chan[c].fd /\ r.events = chan[c].events
      /\ r.index = chan[c].index /\ r.open = FALSE
  BY ChannelTypes DEF ChannelStates
<1> HIDE DEF r
<1>3. /\ chan' \in [Channels -> ChannelStates]
      /\ \A b \in Channels : chan'[b] = IF b = c THEN r ELSE chan[b]
  BY <1>1, <1>2, OneChanges
<1>4. asked \subseteq Channels
  BY DEF PollersInv, PollersTypeOK
<1>5. PollersTypeOK'
  BY <1>1, <1>3 DEF PollersInv, PollersTypeOK
<1>6. /\ \A b \in Channels : chan'[b].fd = chan[b].fd /\ chan'[b].index = chan[b].index
                             /\ chan'[b].events = chan[b].events
      /\ \A b \in Channels : chan'[b].open => b # c /\ chan[b].open
      /\ \A b \in Channels : chan[b].open /\ b # c => chan'[b].open
      /\ \A b \in Channels : Exists(b)' <=> Exists(b)
  BY <1>2, <1>3 DEF Exists
<1>7. Descriptors'
  <2>1. \A b \in Channels : Exists(b)' \/ chan'[b] = Gone
    BY <1>1, <1>3, <1>6 DEF PollersInv, Descriptors
  <2>2. \A b \in Channels : chan'[b].open => chan'[b].fd \in Fds
    BY <1>6 DEF PollersInv, Descriptors
  <2>3. \A b \in asked' : Exists(b)'
    BY <1>1, <1>4, <1>6 DEF PollersInv, Descriptors
  <2>4. ASSUME NEW a \in Channels, NEW b \in Channels, Exists(a)', chan'[a].fd = chan'[b].fd,
               chan'[a].open <=> chan'[b].open
        PROVE  a = b
    <3>1. CASE a # c /\ b # c
      BY <1>3, <1>6, <2>4, <3>1 DEF PollersInv, Descriptors
    <3>2. CASE a = c /\ b # c
      BY <1>1, <1>2, <1>3, <1>6, <2>4, <3>2
    <3>3. CASE a # c /\ b = c
      BY <1>1, <1>2, <1>3, <1>6, <2>4, <3>3
    <3> QED
      BY <3>1, <3>2, <3>3
  <2>5. \A b \in Channels \ asked' : chan'[b].open => chan'[b].index = kNew
    BY <1>1, <1>6 DEF PollersInv, Descriptors
  <2> QED
    BY <2>1, <2>2, <2>3, <2>4, <2>5 DEF Descriptors
<1>8. MapLeads'
  BY <1>1, <1>4, <1>6 DEF PollersInv, MapLeads
<1>9. EpollLeads'
  <2>1. \A f \in DOMAIN epollSet : epollSet[f].ptr # c
    BY <1>1, ChannelTypes DEF PollersInv, EpollLeads
  <2>2. chan[c].index # kAdded
    BY <1>1, ChannelTypes
  <2> QED
    BY <1>1, <1>4, <1>6, <2>1, <2>2 DEF PollersInv, EpollLeads
<1> QED
  BY <1>1, <1>5, <1>7, <1>8, <1>9 DEF PollersInv

\* A step that leaves every channel its descriptor.
LEMMA SameDescriptors ==
    ASSUME PollersInv, asked' \subseteq Channels,
           \A b \in Channels : chan'[b].fd = chan[b].fd /\ (chan'[b].open <=> chan[b].open),
           \A b \in Channels : Exists(b) \/ chan'[b] = chan[b],
           \A b \in asked' : Exists(b),
           \A b \in Channels \ asked' : chan[b].open => chan'[b].index = kNew
    PROVE  Descriptors'
<1>1. \A b \in Channels : Exists(b)' <=> Exists(b)
  BY DEF Exists
<1>2. \A b \in Channels : Exists(b)' \/ chan'[b] = Gone
  BY <1>1 DEF PollersInv, Descriptors
<1>3. \A b \in Channels : chan'[b].open => chan'[b].fd \in Fds
  BY DEF PollersInv, Descriptors
<1>4. \A b, c \in Channels :
        Exists(b)' /\ chan'[b].fd = chan'[c].fd /\ (chan'[b].open <=> chan'[c].open) => b = c
  BY <1>1 DEF PollersInv, Descriptors
<1> QED
  BY <1>1, <1>2, <1>3, <1>4 DEF Descriptors

-----------------------------------------------------------------------------
(* updateChannel.                                                          *)

\* _channels has c under the descriptor fd, and is otherwise what it was.
MapsTo(fd, c) ==
    /\ \A x : x \in DOMAIN channels' <=> x = fd \/ x \in DOMAIN channels
    /\ channels'[fd] = c
    /\ \A x \in DOMAIN channels : x # fd => channels'[x] = channels[x]

\* A channel that has been registered is found already.
LEMMA AlreadyMapped ==
    ASSUME PollersInv, NEW c \in Channels, chan[c].open, chan[c].index # kNew, channels' = channels
    PROVE  c \in asked /\ MapsTo(chan[c].fd, c)
  BY DEF PollersInv, Descriptors, MapLeads, MapsTo

\* What both pollers do to the channel and to _channels.
LEMMA UpdateMaps ==
    ASSUME PollersInv, NEW c \in Channels, chan[c].open, NEW r \in ChannelStates,
           r.fd = chan[c].fd, r.open <=> chan[c].open,
           chan' = [chan EXCEPT ![c] = r], asked' = asked \cup {c}, MapsTo(chan[c].fd, c)
    PROVE  /\ Descriptors' /\ MapLeads'
           /\ chan' \in [Channels -> ChannelStates] /\ asked' \subseteq Channels
           /\ \A b \in Channels : chan'[b] = IF b = c THEN r ELSE chan[b]
           /\ \A b \in Channels : b # c /\ chan[b].open => chan[b].fd # chan[c].fd
<1>1. /\ chan' \in [Channels -> ChannelStates]
      /\ \A b \in Channels : chan'[b] = IF b = c THEN r ELSE chan[b]
  BY OneChanges
<1>2. asked \subseteq Channels /\ asked' \subseteq Channels
  BY DEF PollersInv, PollersTypeOK
<1>3. Exists(c)
  BY MaxFdAssumption DEF PollersInv, Descriptors, Fds, Exists
<1>4. \A b \in Channels : b # c /\ chan[b].open => chan[b].fd # chan[c].fd
  BY <1>3 DEF PollersInv, Descriptors
<1>5. \A b \in Channels : chan'[b].fd = chan[b].fd /\ (chan'[b].open <=> chan[b].open)
  BY <1>1
<1>6. Descriptors'
  <2>1. \A b \in Channels : Exists(b) \/ chan'[b] = chan[b]
    BY <1>1, <1>3
  <2>2. \A b \in asked' : Exists(b)
    BY <1>3 DEF PollersInv, Descriptors
  <2>3. \A b \in Channels \ asked' : chan[b].open => chan'[b].index = kNew
    BY <1>1 DEF PollersInv, Descriptors
  <2> QED
    BY <1>2, <1>5, <2>1, <2>2, <2>3, SameDescriptors
<1>7. MapLeads'
  <2>1. ASSUME NEW f \in DOMAIN channels'
        PROVE  channels'[f] \in asked' /\ chan'[channels'[f]].fd = f
    <3>1. CASE f = chan[c].fd
      BY <1>5, <3>1 DEF MapsTo
    <3>2. CASE f # chan[c].fd
      <4>1. f \in DOMAIN channels /\ channels'[f] = channels[f]
        BY <2>1, <3>2 DEF MapsTo
      <4>2. channels[f] \in asked /\ chan[channels[f]].fd = f
        BY <4>1 DEF PollersInv, MapLeads
      <4> QED
        BY <1>2, <1>5, <4>1, <4>2
    <3> QED
      BY <3>1, <3>2
  <2>2. ASSUME NEW b \in asked'
        PROVE  chan'[b].fd \in DOMAIN channels' /\ (chan'[b].open => channels'[chan'[b].fd] = b)
    <3>1. CASE b = c
      BY <1>5, <3>1 DEF MapsTo
    <3>2. CASE b # c
      <4>1. /\ b \in asked /\ b \in Channels /\ chan[b].fd \in DOMAIN channels
            /\ chan[b].open => channels[chan[b].fd] = b
        BY <1>2, <3>2 DEF PollersInv, MapLeads
      <4>2. chan[b].fd \in DOMAIN channels'
        BY <4>1 DEF MapsTo
      <4>3. chan[b].open => channels'[chan[b].fd] = b
        BY <1>4, <3>2, <4>1 DEF MapsTo
      <4> QED
        BY <1>5, <4>1, <4>2, <4>3
    <3> QED
      BY <3>1, <3>2
  <2> QED
    BY <2>1, <2>2 DEF MapLeads
<1> QED
  BY <1>1, <1>2, <1>4, <1>6, <1>7

\* The channel with its new index.
LEMMA NewIndex ==
    ASSUME NEW k \in ChannelStates, NEW i \in Int, NEW r, r = [k EXCEPT !.index = i]
    PROVE  /\ r \in ChannelStates /\ r.fd = k.fd /\ r.events = k.events /\ r.index = i
           /\ r.open = k.open
  BY DEF ChannelStates

\* EPOLL_CTL_ADD and EPOLL_CTL_MOD.
LEMMA EpollAdds ==
    ASSUME PollersInv, kind = "epoll", kind' = kind, eventList' = eventList,
           NEW c \in Channels, chan[c].open, NEW r \in ChannelStates,
           r.fd = chan[c].fd, r.open <=> chan[c].open, r.index = kAdded,
           chan' = [chan EXCEPT ![c] = r], asked' = asked \cup {c}, MapsTo(chan[c].fd, c),
           epollSet' = Put(epollSet, chan[c].fd, [ptr |-> c, events |-> r.events])
    PROVE  PollersInv'
<1>1. /\ Descriptors' /\ MapLeads'
      /\ chan' \in [Channels -> ChannelStates] /\ asked' \subseteq Channels
      /\ \A b \in Channels : chan'[b] = IF b = c THEN r ELSE chan[b]
      /\ \A b \in Channels : b # c /\ chan[b].open => chan[b].fd # chan[c].fd
  BY UpdateMaps
<1>2. PollersTypeOK'
  BY <1>1 DEF PollersInv, PollersTypeOK
<1>3. /\ \A x : x \in DOMAIN epollSet' <=> x = chan[c].fd \/ x \in DOMAIN epollSet
      /\ epollSet'[chan[c].fd] = [ptr |-> c, events |-> r.events]
      /\ \A x \in DOMAIN epollSet : x # chan[c].fd => epollSet'[x] = epollSet[x]
  BY PutAdds
<1>4. asked \subseteq Channels
  BY DEF PollersInv, PollersTypeOK
<1>5. EpollLeads'
  <2>1. ASSUME NEW f \in DOMAIN epollSet'
        PROVE  LET b == epollSet'[f].ptr
               IN  /\ b \in asked' /\ chan'[b].open /\ chan'[b].index = kAdded /\ chan'[b].fd = f
                   /\ epollSet'[f].events = chan'[b].events
    <3>1. CASE f = chan[c].fd
      BY <1>1, <1>3, <3>1
    <3>2. CASE f # chan[c].fd
      <4>1. f \in DOMAIN epollSet /\ epollSet'[f] = epollSet[f]
        BY <1>3, <2>1, <3>2
      <4>2. PICK b : b = epollSet[f].ptr
        OBVIOUS
      <4>3. /\ b \in asked /\ chan[b].open /\ chan[b].index = kAdded /\ chan[b].fd = f
            /\ epollSet[f].events = chan[b].events
        BY <4>1, <4>2 DEF PollersInv, EpollLeads
      <4> QED
        BY <1>1, <1>4, <3>2, <4>1, <4>2, <4>3
    <3> QED
      BY <3>1, <3>2
  <2>2. ASSUME NEW b \in asked'
        PROVE  /\ chan'[b].index \in {kAdded, kDeleted}
               /\ chan'[b].index = kAdded => /\ chan'[b].open /\ chan'[b].fd \in DOMAIN epollSet'
                                             /\ epollSet'[chan'[b].fd].ptr = b
               /\ chan'[b].index = kDeleted => chan'[b].events = {}
    <3>1. CASE b = c
      BY <1>1, <1>3, <3>1, ChannelTypes
    <3>2. CASE b # c
      <4>1. b \in asked /\ chan'[b] = chan[b]
        BY <1>1, <1>4, <3>2
      <4>2. chan[b].index = kAdded => chan[b].fd # chan[c].fd
        BY <1>1, <1>4, <3>2, <4>1 DEF PollersInv, EpollLeads
      <4> QED
        BY <1>3, <4>1, <4>2 DEF PollersInv, EpollLeads
    <3> QED
      BY <3>1, <3>2
  <2> QED
    BY SMTT(30), <2>1, <2>2 DEF EpollLeads
<1> QED
  BY <1>1, <1>2, <1>5 DEF PollersInv

\* EPOLL_CTL_DEL.
LEMMA EpollDrops ==
    ASSUME NEW fd, epollSet' = EpollDel(fd)
    PROVE  /\ \A x : x \in DOMAIN epollSet' <=> x # fd /\ x \in DOMAIN epollSet
           /\ \A x \in DOMAIN epollSet : x # fd => epollSet'[x] = epollSet[x]
  BY DEF EpollDel, Restrict

\* The same for a channel that asks for nothing any more.
LEMMA EpollDisables ==
    ASSUME PollersInv, kind = "epoll", kind' = kind, eventList' = eventList,
           NEW c \in Channels, chan[c].open, NEW r \in ChannelStates,
           r.fd = chan[c].fd, r.open <=> chan[c].open, r.index = kDeleted, r.events = {},
           chan' = [chan EXCEPT ![c] = r], asked' = asked \cup {c}, MapsTo(chan[c].fd, c),
           epollSet' = EpollDel(chan[c].fd)
    PROVE  PollersInv'
<1>1. /\ Descriptors' /\ MapLeads'
      /\ chan' \in [Channels -> ChannelStates] /\ asked' \subseteq Channels
      /\ \A b \in Channels : chan'[b] = IF b = c THEN r ELSE chan[b]
      /\ \A b \in Channels : b # c /\ chan[b].open => chan[b].fd # chan[c].fd
  BY UpdateMaps
<1>2. PollersTypeOK'
  BY <1>1 DEF PollersInv, PollersTypeOK
<1>3. /\ \A x : x \in DOMAIN epollSet' <=> x # chan[c].fd /\ x \in DOMAIN epollSet
      /\ \A x \in DOMAIN epollSet : x # chan[c].fd => epollSet'[x] = epollSet[x]
  BY EpollDrops
<1>4. asked \subseteq Channels
  BY DEF PollersInv, PollersTypeOK
<1>5. EpollLeads'
  <2>1. ASSUME NEW f \in DOMAIN epollSet'
        PROVE  LET b == epollSet'[f].ptr
               IN  /\ b \in asked' /\ chan'[b].open /\ chan'[b].index = kAdded /\ chan'[b].fd = f
                   /\ epollSet'[f].events = chan'[b].events
    <3>1. f \in DOMAIN epollSet /\ epollSet'[f] = epollSet[f] /\ f # chan[c].fd
      BY <1>3, <2>1
    <3>2. PICK b : b = epollSet[f].ptr
      OBVIOUS
    <3>3. /\ b \in asked /\ chan[b].open /\ chan[b].index = kAdded /\ chan[b].fd = f
          /\ epollSet[f].events = chan[b].events
      BY <3>1, <3>2 DEF PollersInv, EpollLeads
    <3> QED
      BY <1>1, <1>4, <3>1, <3>2, <3>3
  <2>2. ASSUME NEW b \in asked'
        PROVE  /\ chan'[b].index \in {kAdded, kDeleted}
               /\ chan'[b].index = kAdded => /\ chan'[b].open /\ chan'[b].fd \in DOMAIN epollSet'
                                             /\ epollSet'[chan'[b].fd].ptr = b
               /\ chan'[b].index = kDeleted => chan'[b].events = {}
    <3>1. CASE b = c
      BY <1>1, <3>1, ChannelTypes
    <3>2. CASE b # c
      <4>1. b \in asked /\ chan'[b] = chan[b]
        BY <1>1, <1>4, <3>2
      <4>2. chan[b].index = kAdded => chan[b].fd # chan[c].fd
        BY <1>1, <1>4, <3>2, <4>1 DEF PollersInv, EpollLeads
      <4> QED
        BY <1>3, <4>1, <4>2 DEF PollersInv, EpollLeads
    <3> QED
      BY <3>1, <3>2
  <2> QED
    BY <2>1, <2>2 DEF EpollLeads
<1> QED
  BY <1>1, <1>2, <1>5 DEF PollersInv

LEMMA EpollUpdateKeeps ==
    ASSUME PollersInv, kind = "epoll", NEW c \in Channels, NEW events \in SUBSET Events,
           UpdateChannel(c, events)
    PROVE  PollersInv'
<1> DEFINE k == [chan[c] EXCEPT !.events = events]
<1>1. /\ chan[c].open /\ EpollUpdate(c, k) /\ eventList' = eventList
      /\ asked' = asked \cup {c} /\ kind' = kind
  BY DEF UpdateChannel
<1>2. k.fd = chan[c].fd /\ k.events = events /\ k.index = chan[c].index
      /\ (k.open <=> chan[c].open) /\ k \in ChannelStates
  BY ChannelTypes DEF ChannelStates
<1>3. kNew = -1 /\ kAdded = 1 /\ kDeleted = 2
  BY ChannelTypes
<1>4. CASE k.index \in {kNew, kDeleted}
  <2> DEFINE r == [k EXCEPT !.index = kAdded]
  <2>1. /\ chan' = [chan EXCEPT ![c] = r]
        /\ epollSet' = Put(epollSet, k.fd, [ptr |-> c, events |-> k.events])
        /\ channels' = IF k.index = kNew THEN Put(channels, k.fd, c) ELSE channels
    BY <1>1, <1>4 DEF EpollUpdate, EpollCtl
  <2>2. /\ r \in ChannelStates /\ r.fd = chan[c].fd /\ r.events = events /\ r.index = kAdded
        /\ (r.open <=> chan[c].open)
    <3> HIDE DEF k
    <3> QED
      BY <1>2, <1>3, NewIndex
  <2>3. MapsTo(chan[c].fd, c)
    <3>1. CASE chan[c].index = kNew
      <4>1. channels' = Put(channels, chan[c].fd, c)
        BY <1>2, <2>1, <3>1
      <4> QED
        BY <4>1, PutAdds DEF MapsTo
    <3>2. CASE chan[c].index # kNew
      BY <1>1, <1>2, <2>1, <3>2, AlreadyMapped
    <3> QED
      BY <3>1, <3>2
  <2>4. epollSet' = Put(epollSet, chan[c].fd, [ptr |-> c, events |-> r.events])
    BY <1>2, <2>1, <2>2
  <2> HIDE DEF r, k
  <2> QED
    BY <1>1, <2>1, <2>2, <2>3, <2>4, EpollAdds
<1>5. CASE k.index \notin {kNew, kDeleted} /\ k.events = {}
  <2> DEFINE r == [k EXCEPT !.index = kDeleted]
  <2>1. /\ chan' = [chan EXCEPT ![c] = r] /\ epollSet' = EpollDel(k.fd) /\ channels' = channels
    BY <1>1, <1>5 DEF EpollUpdate
  <2>2. /\ r \in ChannelStates /\ r.fd = chan[c].fd /\ r.events = events /\ r.index = kDeleted
        /\ (r.open <=> chan[c].open)
    <3> HIDE DEF k
    <3> QED
      BY <1>2, <1>3, NewIndex
  <2>3. MapsTo(chan[c].fd, c)
    BY <1>1, <1>2, <1>5, <2>1, AlreadyMapped
  <2>4. epollSet' = EpollDel(chan[c].fd) /\ r.events = {}
    BY <1>2, <1>5, <2>1, <2>2
  <2> HIDE DEF r, k
  <2> QED
    BY <1>1, <2>1, <2>2, <2>3, <2>4, EpollDisables
<1>6. CASE k.index \notin {kNew, kDeleted} /\ k.events # {}
  <2>1. /\ chan' = [chan EXCEPT ![c] = k] /\ channels' = channels
        /\ epollSet' = Put(epollSet, k.fd, [ptr |-> c, events |-> k.events])
    BY <1>1, <1>6 DEF EpollUpdate, EpollCtl
  <2>2. c \in asked /\ MapsTo(chan[c].fd, c)
    BY <1>1, <1>2, <1>6, <2>1, AlreadyMapped
  <2>3. k.index = kAdded
    BY <1>2, <1>6, <2>2 DEF PollersInv, EpollLeads
  <2>4. epollSet' = Put(epollSet, chan[c].fd, [ptr |-> c, events |-> k.events])
    BY <1>2, <2>1
  <2> HIDE DEF k
  <2> QED
    BY <1>1, <1>2, <2>1, <2>2, <2>3, <2>4, EpollAdds
<1> QED
  BY <1>4, <1>5, <1>6

LEMMA PollUpdateKeeps ==
    ASSUME PollersInv, kind = "poll", NEW c \in Channels, NEW events \in SUBSET Events,
           UpdateChannel(c, events)
    PROVE  PollersInv'
<1> DEFINE k == [chan[c] EXCEPT !.events = events]
<1>1. /\ chan[c].open /\ PollUpdate(c, k) /\ asked' = asked \cup {c} /\ kind' = kind
  BY DEF UpdateChannel
<1>2. k.fd = chan[c].fd /\ k.events = events /\ k.index = chan[c].index
      /\ (k.open <=> chan[c].open) /\ k \in ChannelStates
  BY ChannelTypes DEF ChannelStates
<1>3. kNew = -1 /\ chan[c].fd \in Nat /\ chan[c].index \in Int
  BY <1>1, ChannelTypes, MaxFdAssumption DEF PollersInv, Descriptors, Fds
<1>4. /\ eventList \in Seq([fd : Int, events : SUBSET Events]) /\ Len(eventList) \in Nat
      /\ asked \subseteq Channels
  BY LenProperties DEF PollersInv, PollersTypeOK
<1>5. CASE k.index < 0
  <2> DEFINE r == [k EXCEPT !.index = Len(eventList)]
             p == [fd |-> k.fd, events |-> k.events]
  <2>1. /\ chan' = [chan EXCEPT ![c] = r] /\ eventList' = Append(eventList, p)
        /\ channels' = Put(channels, k.fd, c)
    BY <1>1, <1>5 DEF PollUpdate
  <2>2. /\ r \in ChannelStates /\ r.fd = chan[c].fd /\ r.events = events
        /\ r.index = Len(eventList) /\ (r.open <=> chan[c].open)
    <3> HIDE DEF k
    <3> QED
      BY <1>2, <1>4, NewIndex
  <2>3. MapsTo(chan[c].fd, c)
    <3>1. channels' = Put(channels, chan[c].fd, c)
      BY <1>2, <2>1
    <3> QED
      BY <3>1, PutAdds DEF MapsTo
  <2>4. p \in [fd : Int, events : SUBSET Events] /\ p.fd = chan[c].fd /\ p.events = events
    BY <1>2, <1>3
  <2>5. c \notin asked
    BY <1>2, <1>5 DEF PollersInv, PollLeads
  <2> HIDE DEF r, k, p
  <2>6. /\ Descriptors' /\ MapLeads'
        /\ chan' \in [Channels -> ChannelStates] /\ asked' \subseteq Channels
        /\ \A b \in Channels : chan'[b] = IF b = c THEN r ELSE chan[b]
    BY <1>1, <2>1, <2>2, <2>3, UpdateMaps
  <2>7. /\ eventList' \in Seq([fd : Int, events : SUBSET Events])
        /\ Len(eventList') = Len(eventList) + 1
        /\ \A i \in 1..Len(eventList) : eventList'[i] = eventList[i]
        /\ eventList'[Len(eventList) + 1] = p
    BY <1>4, <2>1, <2>4, AppendProperties
  <2>8. PollersTypeOK'
    BY <1>1, <2>6, <2>7 DEF PollersInv, PollersTypeOK
  <2>9. PollLeads'
    <3>1. \A b \in Channels : Exists(b)' => chan'[b].open
      BY <1>1, <2>2, <2>6 DEF PollersInv, PollLeads, Exists
    <3>2. ASSUME NEW b \in asked'
          PROVE  /\ chan'[b].index \in 0..(Len(eventList') - 1)
                 /\ GetRealFd(eventList'[chan'[b].index + 1].fd) = chan'[b].fd
                 /\ eventList'[chan'[b].index + 1].events = chan'[b].events
                 /\ eventList'[chan'[b].index + 1].fd < 0 => chan'[b].events = {}
      <4>1. CASE b = c
        <5>1. chan'[b] = r /\ GetRealFd(chan[c].fd) = chan[c].fd
          BY <1>3, <2>6, <4>1, IgnoredIsKept
        <5> QED
          BY SMTT(30), <1>3, <1>4, <2>2, <2>4, <2>7, <5>1
      <4>2. CASE b # c
        <5>1. b \in asked /\ chan'[b] = chan[b]
          BY <1>1, <1>4, <2>6, <4>2
        <5>2. /\ chan[b].index \in 0..(Len(eventList) - 1)
              /\ GetRealFd(eventList[chan[b].index + 1].fd) = chan[b].fd
              /\ eventList[chan[b].index + 1].events = chan[b].events
              /\ eventList[chan[b].index + 1].fd < 0 => chan[b].events = {}
          BY <5>1 DEF PollersInv, PollLeads
        <5>3. eventList'[chan[b].index + 1] = eventList[chan[b].index + 1]
          <6>1. chan[b].index + 1 \in 1..Len(eventList)
            BY <1>4, <5>2
          <6> QED
            BY <2>7, <6>1
        <5> QED
          BY SMTT(30), <1>4, <2>7, <5>1, <5>2, <5>3
      <4> QED
        BY <4>1, <4>2
    <3>3. ASSUME NEW i \in 1..Len(eventList') PROVE \E b \in asked' : chan'[b].index = i - 1
      <4>1. CASE i = Len(eventList) + 1
        BY <1>1, <1>4, <2>2, <2>6, <4>1
      <4>2. CASE i # Len(eventList) + 1
        <5>1. i \in 1..Len(eventList)
          BY <1>4, <2>7, <4>2
        <5>2. PICK b \in asked : chan[b].index = i - 1
          BY <5>1 DEF PollersInv, PollLeads
        <5>3. b # c
          BY <2>5
        <5> QED
          BY <1>1, <1>4, <2>6, <5>2, <5>3
      <4> QED
        BY <4>1, <4>2
    <3> QED
      BY <3>1, <3>2, <3>3 DEF PollLeads
  <2> QED
    BY <1>1, <2>6, <2>8, <2>9 DEF PollersInv
<1>6. CASE ~(k.index < 0)
  <2> DEFINE p == [fd |-> IF k.events = {} THEN Ignored(k.fd) ELSE k.fd, events |-> k.events]
  <2>1. /\ chan' = [chan EXCEPT ![c] = k] /\ channels' = channels
        /\ eventList' = [eventList EXCEPT ![k.index + 1] = p]
    BY <1>1, <1>6 DEF PollUpdate
  <2>2. c \in asked /\ MapsTo(chan[c].fd, c)
    BY <1>1, <1>2, <1>3, <1>6, <2>1, AlreadyMapped
  <2>3. /\ p.fd \in Int /\ p.events = events /\ p \in [fd : Int, events : SUBSET Events]
        /\ GetRealFd(p.fd) = chan[c].fd /\ (p.fd < 0 => events = {})
    <3>1. /\ Ignored(chan[c].fd) \in Int /\ GetRealFd(Ignored(chan[c].fd)) = chan[c].fd
          /\ GetRealFd(chan[c].fd) = chan[c].fd
      BY <1>3, IgnoredIsKept
    <3>2. p.fd = (IF events = {} THEN Ignored(chan[c].fd) ELSE chan[c].fd) /\ p.events = events
      BY <1>2
    <3>3. p.fd \in Int
      BY <1>3, <3>1, <3>2
    <3>4. p \in [fd : Int, events : SUBSET Events]
      BY <3>2, <3>3
    <3> QED
      BY <1>3, <3>1, <3>2, <3>3, <3>4
  <2> HIDE DEF k, p
  <2>4. /\ Descriptors' /\ MapLeads'
        /\ chan' \in [Channels -> ChannelStates] /\ asked' \subseteq Channels
        /\ \A b \in Channels : chan'[b] = IF b = c THEN k ELSE chan[b]
        /\ \A b \in Channels : b # c /\ chan[b].open => chan[b].fd # chan[c].fd
    BY <1>1, <1>2, <2>1, <2>2, UpdateMaps
  <2>5. chan[c].index \in 0..(Len(eventList) - 1) /\ chan[c].index + 1 \in 1..Len(eventList)
    <3>1. chan[c].index \in 0..(Len(eventList) - 1)
      BY <2>2 DEF PollersInv, PollLeads
    <3> QED
      BY <1>4, <3>1
  <2>6. /\ eventList' \in Seq([fd : Int, events : SUBSET Events])
        /\ Len(eventList') = Len(eventList)
        /\ \A i \in 1..Len(eventList) :
             eventList'[i] = IF i = chan[c].index + 1 THEN p ELSE eventList[i]
    BY SMTT(30), <1>2, <1>4, <2>1, <2>3, <2>5, ExceptSeq
  <2>7. PollersTypeOK'
    BY <1>1, <2>4, <2>6 DEF PollersInv, PollersTypeOK
  <2>8. PollLeads'
    <3>1. \A b \in Channels : Exists(b)' => chan'[b].open
      BY <1>1, <1>2, <2>4 DEF PollersInv, PollLeads, Exists
    <3>2. ASSUME NEW b \in asked'
          PROVE  /\ chan'[b].index \in 0..(Len(eventList') - 1)
                 /\ GetRealFd(eventList'[chan'[b].index + 1].fd) = chan'[b].fd
                 /\ eventList'[chan'[b].index + 1].events = chan'[b].events
                 /\ eventList'[chan'[b].index + 1].fd < 0 => chan'[b].events = {}
      <4>1. CASE b = c
        <5>1. eventList'[chan[c].index + 1] = p
          BY <2>5, <2>6
        <5> QED
          BY <1>2, <2>3, <2>4, <2>5, <2>6, <4>1, <5>1
      <4>2. CASE b # c
        <5>1. b \in asked /\ b \in Channels /\ chan'[b] = chan[b]
          BY <1>1, <1>4, <2>4, <4>2
        <5>2. /\ chan[b].index \in 0..(Len(eventList) - 1)
              /\ GetRealFd(eventList[chan[b].index + 1].fd) = chan[b].fd
              /\ eventList[chan[b].index + 1].events = chan[b].events
              /\ eventList[chan[b].index + 1].fd < 0 => chan[b].events = {}
          BY <5>1 DEF PollersInv, PollLeads
        <5>3. GetRealFd(eventList[chan[c].index + 1].fd) = chan[c].fd
          BY <2>2 DEF PollersInv, PollLeads
        <5>4. chan[b].open
          BY <5>1 DEF PollersInv, PollLeads, Descriptors
        <5>5. chan[b].index # chan[c].index
          BY <2>4, <4>2, <5>1, <5>2, <5>3, <5>4
        <5>6. eventList'[chan[b].index + 1] = eventList[chan[b].index + 1]
          <6>1. chan[b].index + 1 \in 1..Len(eventList) /\ chan[b].index \in Int
            BY <1>4, <5>2
          <6>2. chan[b].index + 1 # chan[c].index + 1
            BY <1>3, <5>5, <6>1
          <6> QED
            BY <2>6, <6>1, <6>2
        <5> QED
          BY <2>6, <5>1, <5>2, <5>6
      <4> QED
        BY <4>1, <4>2
    <3>3. \A b \in Channels : chan'[b].index = chan[b].index
      BY <1>2, <2>4
    <3>4. \A i \in 1..Len(eventList') : \E b \in asked' : chan'[b].index = i - 1
      BY <1>1, <1>4, <2>6, <3>3 DEF PollersInv, PollLeads
    <3> QED
      BY <3>1, <3>2, <3>4 DEF PollLeads
  <2> QED
    BY <1>1, <2>4, <2>7, <2>8 DEF PollersInv
<1> QED
  BY <1>5, <1>6

-----------------------------------------------------------------------------
(* removeChannel.                                                          *)

LEMMA EpollRemoveKeeps ==
    ASSUME PollersInv, kind = "epoll", NEW c \in Channels, RemoveChannel(c)
    PROVE  PollersInv'
<1>1. /\ c \in asked /\ asked' = asked \ {c} /\ kind' = kind /\ eventList' = eventList
      /\ \A b \in Channels \ {c} : chan[b].fd = chan[c].fd => chan[b].open
      /\ EpollRemove(c, chan[c])
  BY DEF RemoveChannel
<1>2. asked \subseteq Channels /\ asked' \subseteq Channels
  BY <1>1 DEF PollersInv, PollersTypeOK
<1>3. Exists(c) /\ \A b \in asked' : Exists(b)
  BY <1>1 DEF PollersInv, Descriptors
<1>4. /\ \A f \in DOMAIN channels : channels[f] \in asked /\ chan[channels[f]].fd = f
      /\ \A b \in asked : chan[b].fd \in DOMAIN channels
      /\ \A b \in asked : chan[b].open => channels[chan[b].fd] = b
  BY DEF PollersInv, MapLeads
<1>5. CASE channels[chan[c].fd] # c
  <2>1. UNCHANGED <<chan, channels, epollSet>>
    BY <1>1, <1>5 DEF EpollRemove
  <2>2. ~chan[c].open
    BY <1>1, <1>4, <1>5
  <2>3. PollersTypeOK'
    BY <1>1, <1>2, <2>1 DEF PollersInv, PollersTypeOK
  <2>4. Descriptors'
    <3>1. \A b \in Channels \ asked' : chan[b].open => chan'[b].index = kNew
      BY <1>1, <2>1, <2>2 DEF PollersInv, Descriptors
    <3> QED
      BY <1>2, <1>3, <2>1, <3>1, SameDescriptors
  <2>5. MapLeads'
    BY <1>1, <1>4, <1>5, <2>1 DEF MapLeads
  <2>6. EpollLeads'
    BY <1>1, <2>1, <2>2 DEF PollersInv, EpollLeads
  <2> QED
    BY <1>1, <2>3, <2>4, <2>5, <2>6 DEF PollersInv
<1>6. CASE channels[chan[c].fd] = c
  <2> DEFINE r == [chan[c] EXCEPT !.index = kNew]
  <2>1. /\ channels' = Restrict(channels, DOMAIN channels \ {chan[c].fd})
        /\ epollSet' = IF chan[c].index = kAdded THEN EpollDel(chan[c].fd) ELSE epollSet
        /\ chan' = [chan EXCEPT ![c] = r]
    BY <1>1, <1>6 DEF EpollRemove
  <2>2. /\ r \in ChannelStates /\ r.fd = chan[c].fd /\ r.events = chan[c].events /\ r.index = kNew
        /\ r.open = chan[c].open
    BY NewIndex, ChannelTypes
  <2> HIDE DEF r
  <2>3. /\ chan' \in [Channels -> ChannelStates]
        /\ \A b \in Channels : chan'[b] = IF b = c THEN r ELSE chan[b]
    BY <2>1, <2>2, OneChanges
  <2>4. \A b \in Channels : chan'[b].fd = chan[b].fd /\ (chan'[b].open <=> chan[b].open)
    BY <2>2, <2>3
  <2>5. /\ \A x : x \in DOMAIN channels' <=> x # chan[c].fd /\ x \in DOMAIN channels
        /\ \A x \in DOMAIN channels : x # chan[c].fd => channels'[x] = channels[x]
    BY <2>1 DEF Restrict
  <2>6. \A b \in asked : b # c => chan[b].fd # chan[c].fd
    BY <1>1, <1>2, <1>4, <1>6
  <2>7. PollersTypeOK'
    BY <1>1, <1>2, <2>3 DEF PollersInv, PollersTypeOK
  <2>8. Descriptors'
    <3>1. \A b \in Channels \ asked' : chan[b].open => chan'[b].index = kNew
      BY <1>1, <2>2, <2>3 DEF PollersInv, Descriptors
    <3>2. \A b \in Channels : Exists(b) \/ chan'[b] = chan[b]
      BY <1>3, <2>3
    <3> QED
      BY <1>2, <1>3, <2>4, <3>1, <3>2, SameDescriptors
  <2>9. MapLeads'
    <3>1. \A f \in DOMAIN channels' : channels'[f] \in asked' /\ chan'[channels'[f]].fd = f
      BY <1>1, <1>2, <1>4, <2>4, <2>5
    <3>2. \A b \in asked' : /\ chan'[b].fd \in DOMAIN channels'
                            /\ chan'[b].open => channels'[chan'[b].fd] = b
      BY <1>1, <1>2, <1>4, <2>4, <2>5, <2>6
    <3> QED
      BY <3>1, <3>2 DEF MapLeads
  <2>10. EpollLeads'
    <3>1. /\ \A x \in DOMAIN epollSet' : x \in DOMAIN epollSet /\ epollSet'[x] = epollSet[x]
          /\ \A x \in DOMAIN epollSet : x # chan[c].fd =>
               x \in DOMAIN epollSet' /\ epollSet'[x] = epollSet[x]
          /\ chan[c].index = kAdded => chan[c].fd \notin DOMAIN epollSet'
      <4>1. CASE chan[c].index = kAdded
        BY <2>1, <4>1, EpollDrops
      <4>2. CASE chan[c].index # kAdded
        BY <2>1, <4>2
      <4> QED
        BY <4>1, <4>2
    <3>2. ASSUME NEW f \in DOMAIN epollSet'
          PROVE  LET b == epollSet'[f].ptr
                 IN  /\ b \in asked' /\ chan'[b].open /\ chan'[b].index = kAdded /\ chan'[b].fd = f
                     /\ epollSet'[f].events = chan'[b].events
      <4>1. f \in DOMAIN epollSet /\ epollSet'[f] = epollSet[f]
        BY <3>1
      <4>2. PICK b : b = epollSet[f].ptr
        OBVIOUS
      <4>3. /\ b \in asked /\ chan[b].open /\ chan[b].index = kAdded /\ chan[b].fd = f
            /\ epollSet[f].events = chan[b].events
        BY <4>1, <4>2 DEF PollersInv, EpollLeads
      <4>4. b # c
        BY <3>1, <3>2, <4>3
      <4> QED
        BY <1>1, <1>2, <2>3, <4>1, <4>2, <4>3, <4>4
    <3>3. \A b \in asked' :
            /\ chan'[b].index \in {kAdded, kDeleted}
            /\ chan'[b].index = kAdded => /\ chan'[b].open /\ chan'[b].fd \in DOMAIN epollSet'
                                          /\ epollSet'[chan'[b].fd].ptr = b
            /\ chan'[b].index = kDeleted => chan'[b].events = {}
      <4> TAKE b \in asked'
      <4>1. b \in asked /\ b # c /\ chan'[b] = chan[b] /\ chan[b].fd # chan[c].fd
        BY <1>1, <1>2, <2>3, <2>6
      <4> QED
        BY <3>1, <4>1 DEF PollersInv, EpollLeads
    <3> QED
      BY <3>2, <3>3 DEF EpollLeads
  <2> QED
    BY <1>1, <2>7, <2>8, <2>9, <2>10 DEF PollersInv
<1> QED
  BY <1>5, <1>6

\* No two channels have the same pollfd.
LEMMA IndexInjective ==
    ASSUME PollersInv, kind = "poll", NEW b \in asked, NEW c \in asked,
           chan[b].index = chan[c].index
    PROVE  b = c
<1>1. b \in Channels /\ c \in Channels /\ Exists(b) /\ chan[b].open /\ chan[c].open
  BY DEF PollersInv, PollersTypeOK, Descriptors, PollLeads
<1>2. chan[b].fd = chan[c].fd
  BY DEF PollersInv, PollLeads
<1> QED
  BY <1>1, <1>2 DEF PollersInv, Descriptors

\* The channels after removeChannel of PollPoller: the removed one is at -1, and
\* the one whose pollfd was the last has the place of the removed one.
LEMMA PollRemoveRepairs ==
    ASSUME PollersInv, kind = "poll", NEW c \in asked, PollRemove(c, chan[c])
    PROVE  /\ chan' \in [Channels -> ChannelStates]
           /\ \A b \in Channels : /\ chan'[b].fd = chan[b].fd /\ chan'[b].events = chan[b].events
                                  /\ chan'[b].open = chan[b].open
           /\ chan'[c].index = -1
           /\ \A b \in Channels \ asked : chan'[b] = chan[b]
           /\ \A b \in asked \ {c} :
                chan'[b].index = IF chan[b].index = Len(eventList) - 1
                                 THEN chan[c].index ELSE chan[b].index
<1>1. /\ Len(eventList) \in Nat /\ asked \subseteq Channels /\ chan \in [Channels -> ChannelStates]
      /\ eventList \in Seq([fd : Int, events : SUBSET Events])
  BY LenProperties DEF PollersInv, PollersTypeOK
<1>2. chan[c].index \in 0..(Len(eventList) - 1) /\ Len(eventList) \in 1..Len(eventList)
  <2>1. chan[c].index \in 0..(Len(eventList) - 1)
    BY DEF PollersInv, PollLeads
  <2> QED
    BY <1>1, <2>1
<1>3. PICK d \in asked : chan[d].index = Len(eventList) - 1
  BY <1>2 DEF PollersInv, PollLeads
<1>4. GetRealFd(Last(eventList).fd) = chan[d].fd
  <2>1. GetRealFd(eventList[chan[d].index + 1].fd) = chan[d].fd
    BY DEF PollersInv, PollLeads
  <2>2. chan[d].index + 1 = Len(eventList)
    BY <1>1, <1>3
  <2> QED
    BY <2>1, <2>2 DEF Last
<1>5. \A b \in asked : chan[b].index = Len(eventList) - 1 => b = d
  BY <1>3, IndexInjective
<1> DEFINE rest == Restrict(channels, DOMAIN channels \ {chan[c].fd})
           rc == [chan[c] EXCEPT !.index = -1]
           rd == [chan[d] EXCEPT !.index = chan[c].index]
<1>6. /\ rc \in ChannelStates /\ rc.fd = chan[c].fd /\ rc.events = chan[c].events
      /\ rc.index = -1 /\ rc.open = chan[c].open
      /\ rd \in ChannelStates /\ rd.fd = chan[d].fd /\ rd.events = chan[d].events
      /\ rd.index = chan[c].index /\ rd.open = chan[d].open
  <2>1. chan[c] \in ChannelStates /\ chan[d] \in ChannelStates /\ chan[c].index \in Int
        /\ -1 \in Int
    BY <1>1, <1>2
  <2> QED
    BY <2>1, NewIndex
<1>7. CASE d = c
  <2>1. chan' = [chan EXCEPT ![c] = rc]
    BY <1>3, <1>7 DEF PollRemove
  <2> HIDE DEF rc, rd, rest
  <2>2. /\ chan' \in [Channels -> ChannelStates]
        /\ \A b \in Channels : chan'[b] = IF b = c THEN rc ELSE chan[b]
    BY <1>1, <1>6, <2>1
  <2>3. \A b \in asked \ {c} : chan[b].index # Len(eventList) - 1
    BY <1>5, <1>7
  <2> QED
    BY <1>1, <1>6, <2>2, <2>3
<1>8. CASE d # c
  <2>1. chan[c].index # Len(eventList) - 1
    BY <1>5, <1>8
  <2>2. chan[d].open /\ chan[c].open /\ Exists(c)
    BY <1>1 DEF PollersInv, PollLeads, Descriptors
  <2>3. chan[d].fd # chan[c].fd /\ chan[d].fd \in DOMAIN channels /\ channels[chan[d].fd] = d
    BY <1>1, <1>8, <2>2 DEF PollersInv, MapLeads, Descriptors
  <2>4. chan[d].fd \in DOMAIN rest /\ rest[chan[d].fd] = d
    BY <2>3 DEF Restrict
  <2>5. chan' = [chan EXCEPT ![c].index = -1, ![d].index = chan[c].index]
    <3>1. chan' = IF chan[c].index # Len(eventList) - 1 /\ GetRealFd(Last(eventList).fd) \in DOMAIN rest
                  THEN [chan EXCEPT ![c].index = -1,
                                    ![rest[GetRealFd(Last(eventList).fd)]].index = chan[c].index]
                  ELSE [chan EXCEPT ![c].index = -1]
      BY DEF PollRemove
    <3> HIDE DEF rest
    <3> QED
      BY <1>4, <2>1, <2>4, <3>1
  <2>6. /\ chan' \in [Channels -> ChannelStates]
        /\ \A b \in Channels : chan'[b] = IF b = c THEN rc ELSE IF b = d THEN rd ELSE chan[b]
    <3>1. \A b \in Channels : chan'[b] = IF b = c THEN rc ELSE IF b = d THEN rd ELSE chan[b]
      BY <1>1, <1>8, <2>5
    <3>2. chan' = [b \in Channels |-> chan'[b]]
      BY <1>1, <2>5
    <3> HIDE DEF rc, rd, rest
    <3>3. \A b \in Channels : chan'[b] \in ChannelStates
      BY <1>1, <1>6, <3>1
    <3> QED
      BY <3>1, <3>2, <3>3
  <2> HIDE DEF rc, rd, rest
  <2>7. \A b \in asked \ {c} : chan[b].index = Len(eventList) - 1 <=> b = d
    BY <1>3, <1>5
  <2> QED
    BY <1>1, <1>6, <1>8, <2>6, <2>7
<1> QED
  BY <1>7, <1>8

LEMMA PollRemoveKeeps ==
    ASSUME PollersInv, kind = "poll", NEW c \in Channels, RemoveChannel(c)
    PROVE  PollersInv'
<1>1. /\ c \in asked /\ asked' = asked \ {c} /\ kind' = kind /\ PollRemove(c, chan[c])
  BY DEF RemoveChannel
<1>2. /\ Len(eventList) \in Nat /\ asked \subseteq Channels /\ asked' \subseteq Channels
      /\ eventList \in Seq([fd : Int, events : SUBSET Events])
  BY <1>1, LenProperties DEF PollersInv, PollersTypeOK
<1>3. /\ chan' \in [Channels -> ChannelStates]
      /\ \A b \in Channels : /\ chan'[b].fd = chan[b].fd /\ chan'[b].events = chan[b].events
                             /\ chan'[b].open = chan[b].open
      /\ chan'[c].index = -1
      /\ \A b \in Channels \ asked : chan'[b] = chan[b]
      /\ \A b \in asked \ {c} :
           chan'[b].index = IF chan[b].index = Len(eventList) - 1
                            THEN chan[c].index ELSE chan[b].index
  BY <1>1, PollRemoveRepairs
<1>4. /\ chan[c].index \in 0..(Len(eventList) - 1) /\ chan[c].index \in Int
      /\ chan[c].index + 1 \in 1..Len(eventList)
  <2>1. chan[c].index \in 0..(Len(eventList) - 1)
    BY <1>1 DEF PollersInv, PollLeads
  <2> QED
    BY <1>2, <2>1
<1>5. /\ eventList' \in Seq([fd : Int, events : SUBSET Events])
      /\ Len(eventList') = Len(eventList) - 1
      /\ \A j \in 1..(Len(eventList) - 1) :
           eventList'[j] = IF j = chan[c].index + 1 THEN eventList[Len(eventList)] ELSE eventList[j]
  <2>1. eventList' = Front([eventList EXCEPT ![chan[c].index + 1] = Last(eventList)])
    BY <1>1 DEF PollRemove
  <2> QED
    BY ZenonT(30), <1>2, <1>4, <2>1, FillHole
<1>6. \A b \in asked : b # c => chan[b].fd # chan[c].fd /\ chan[b].index # chan[c].index
  <2>1. \A b \in asked : chan[b].open /\ Exists(b)
    BY <1>2 DEF PollersInv, PollLeads, Descriptors
  <2>2. \A b \in asked : b # c => chan[b].fd # chan[c].fd
    BY <1>1, <1>2, <2>1 DEF PollersInv, Descriptors
  <2>3. \A b \in asked : b # c => chan[b].index # chan[c].index
    BY <1>1, IndexInjective
  <2> QED
    BY <2>2, <2>3
<1>7. /\ \A x : x \in DOMAIN channels' <=> x # chan[c].fd /\ x \in DOMAIN channels
      /\ \A x \in DOMAIN channels : x # chan[c].fd => channels'[x] = channels[x]
  <2>1. channels' = Restrict(channels, DOMAIN channels \ {chan[c].fd})
    BY <1>1 DEF PollRemove
  <2> QED
    BY <2>1 DEF Restrict
<1>8. PollersTypeOK'
  BY <1>1, <1>2, <1>3, <1>5 DEF PollersInv, PollersTypeOK
<1>9. Descriptors'
  <2>1. \A b \in Channels : Exists(b) \/ chan'[b] = chan[b]
    BY <1>3 DEF PollersInv, Descriptors
  <2>2. \A b \in asked' : Exists(b)
    BY <1>1 DEF PollersInv, Descriptors
  <2>3. \A b \in Channels \ asked' : chan[b].open => chan'[b].index = kNew
    BY <1>1, <1>3, ChannelTypes DEF PollersInv, Descriptors
  <2> QED
    BY <1>2, <1>3, <2>1, <2>2, <2>3, SameDescriptors
<1>10. MapLeads'
  <2>1. /\ \A f \in DOMAIN channels : channels[f] \in asked /\ chan[channels[f]].fd = f
        /\ \A b \in asked : chan[b].fd \in DOMAIN channels
        /\ \A b \in asked : chan[b].open => channels[chan[b].fd] = b
    BY DEF PollersInv, MapLeads
  <2>2. \A f \in DOMAIN channels' : channels'[f] \in asked' /\ chan'[channels'[f]].fd = f
    BY <1>1, <1>2, <1>3, <1>7, <2>1
  <2>3. \A b \in asked' : /\ chan'[b].fd \in DOMAIN channels'
                          /\ chan'[b].open => channels'[chan'[b].fd] = b
    BY <1>1, <1>2, <1>3, <1>6, <1>7, <2>1
  <2> QED
    BY <2>2, <2>3 DEF MapLeads
<1>11. PollLeads'
  <2>1. \A b \in Channels : Exists(b)' => chan'[b].open
    BY <1>3 DEF PollersInv, PollLeads, Exists
  <2>2. ASSUME NEW b \in asked'
        PROVE  /\ chan'[b].index \in 0..(Len(eventList') - 1)
               /\ GetRealFd(eventList'[chan'[b].index + 1].fd) = chan'[b].fd
               /\ eventList'[chan'[b].index + 1].events = chan'[b].events
               /\ eventList'[chan'[b].index + 1].fd < 0 => chan'[b].events = {}
    <3>1. /\ b \in asked /\ b \in Channels /\ b # c /\ chan[b].index # chan[c].index
          /\ chan'[b].fd = chan[b].fd /\ chan'[b].events = chan[b].events
          /\ chan'[b].index = IF chan[b].index = Len(eventList) - 1
                              THEN chan[c].index ELSE chan[b].index
      BY <1>1, <1>2, <1>3, <1>6
    <3>2. /\ GetRealFd(eventList[chan[b].index + 1].fd) = chan[b].fd
          /\ eventList[chan[b].index + 1].events = chan[b].events
          /\ eventList[chan[b].index + 1].fd < 0 => chan[b].events = {}
      BY <3>1 DEF PollersInv, PollLeads
    <3>3. chan[b].index \in 0..(Len(eventList) - 1) /\ chan[b].index \in Int
      <4>1. chan[b].index \in 0..(Len(eventList) - 1)
        BY <3>1 DEF PollersInv, PollLeads
      <4> QED
        BY <1>2, <4>1
    <3>4. /\ chan'[b].index \in 0..(Len(eventList') - 1)
          /\ chan'[b].index + 1 \in 1..(Len(eventList) - 1)
          /\ chan'[b].index + 1 = chan[c].index + 1 <=> chan[b].index + 1 = Len(eventList)
          /\ chan[b].index + 1 = Len(eventList) => chan'[b].index = chan[c].index
          /\ chan[b].index + 1 # Len(eventList) => chan'[b].index = chan[b].index
      <4>1. PICK n, x, y, z :
              n = Len(eventList) /\ x = chan[b].index /\ y = chan[c].index /\ z = chan'[b].index
        OBVIOUS
      <4>2. /\ n \in Nat /\ x \in 0..(n - 1) /\ y \in 0..(n - 1) /\ x # y
            /\ z = IF x = n - 1 THEN y ELSE x
        BY <1>2, <1>4, <3>1, <3>3, <4>1
      <4>3. /\ z \in 0..(n - 1 - 1) /\ z + 1 \in 1..(n - 1)
            /\ z + 1 = y + 1 <=> x + 1 = n
            /\ x + 1 = n => z = y
            /\ x + 1 # n => z = x
        BY <4>2, PlaceAfter
      <4> QED
        BY <1>5, <4>1, <4>3
    <3>5. eventList'[chan'[b].index + 1] = eventList[chan[b].index + 1]
      <4>1. eventList'[chan'[b].index + 1] =
              IF chan'[b].index + 1 = chan[c].index + 1 THEN eventList[Len(eventList)]
                                                        ELSE eventList[chan'[b].index + 1]
        BY <1>5, <3>4
      <4>2. CASE chan[b].index + 1 = Len(eventList)
        BY <3>4, <4>1, <4>2
      <4>3. CASE chan[b].index + 1 # Len(eventList)
        BY <3>4, <4>1, <4>3
      <4> QED
        BY <4>2, <4>3
    <3> QED
      BY <3>1, <3>2, <3>4, <3>5
  <2>3. ASSUME NEW i \in 1..Len(eventList') PROVE \E b \in asked' : chan'[b].index = i - 1
    <3>1. i \in 1..Len(eventList) /\ Len(eventList) \in 1..Len(eventList) /\ i < Len(eventList)
          /\ i \in Int
      BY <1>2, <1>5
    <3>2. CASE i = chan[c].index + 1
      <4>1. PICK d \in asked : chan[d].index = Len(eventList) - 1
        BY <3>1 DEF PollersInv, PollLeads
      <4>2. d # c
        BY <1>2, <1>4, <3>1, <3>2, <4>1
      <4>3. d \in asked' /\ chan'[d].index = chan[c].index
        BY <1>1, <1>3, <4>1, <4>2
      <4>4. chan[c].index = i - 1
        BY <1>4, <3>1, <3>2
      <4> QED
        BY <4>3, <4>4
    <3>3. CASE i # chan[c].index + 1
      <4>1. PICK b \in asked : chan[b].index = i - 1
        BY <3>1 DEF PollersInv, PollLeads
      <4>2. b # c /\ chan[b].index # Len(eventList) - 1
        BY <1>2, <1>4, <3>1, <3>3, <4>1
      <4>3. b \in asked' /\ chan'[b].index = chan[b].index
        BY <1>1, <1>3, <4>2
      <4> QED
        BY <4>1, <4>3
    <3> QED
      BY <3>2, <3>3
  <2> QED
    BY <2>1, <2>2, <2>3 DEF PollLeads
<1> QED
  BY <1>1, <1>8, <1>9, <1>10, <1>11 DEF PollersInv

-----------------------------------------------------------------------------
(* The theorems.                                                           *)

LEMMA InitHolds == Init => PollersInv
<1> SUFFICES ASSUME Init PROVE PollersInv
  OBVIOUS
<1>1. /\ Gone \in ChannelStates /\ Gone.fd = -1 /\ Gone.open = FALSE
  BY DEF ChannelStates, Gone, kNew
<1>2. chan \in [Channels -> ChannelStates] /\ \A c \in Channels : chan[c] = Gone
  BY <1>1 DEF Init
<1>3. PollersTypeOK
  BY <1>2 DEF Init, PollersTypeOK
<1>4. \A c \in Channels : ~Exists(c)
  BY <1>1, <1>2 DEF Exists
<1>5. Descriptors
  BY <1>1, <1>2, <1>4 DEF Init, Descriptors
<1>6. MapLeads
  BY DEF Init, MapLeads
<1>7. EpollLeads
  BY DEF Init, EpollLeads
<1>8. PollLeads
  BY <1>4 DEF Init, PollLeads
<1> QED
  BY <1>3, <1>5, <1>6, <1>7, <1>8 DEF PollersInv

\* poll() and stuttering.
LEMMA NothingMoves ==
    ASSUME PollersInv, UNCHANGED <<kind, chan, channels, epollSet, eventList, asked>>
    PROVE  PollersInv'
<1>1. PollersTypeOK'
  BY DEF PollersInv, PollersTypeOK
<1>2. Descriptors'
  BY DEF PollersInv, Descriptors, Exists
<1>3. MapLeads'
  BY DEF PollersInv, MapLeads
<1>4. kind = "epoll" => EpollLeads'
  BY DEF PollersInv, EpollLeads
<1>5. kind = "poll" => PollLeads'
  BY DEF PollersInv, PollLeads, Exists
<1> QED
  BY <1>1, <1>2, <1>3, <1>4, <1>5 DEF PollersInv

LEMMA StepKeeps == PollersInv /\ [Next]_vars => PollersInv'
<1> SUFFICES ASSUME PollersInv, [Next]_vars PROVE PollersInv'
  OBVIOUS
<1>1. kind = "epoll" \/ kind = "poll"
  BY DEF PollersInv, PollersTypeOK
<1>2. ASSUME NEW c \in Channels, NEW events \in SUBSET Events, UpdateChannel(c, events)
      PROVE  PollersInv'
  BY <1>1, <1>2, EpollUpdateKeeps, PollUpdateKeeps
<1>3. ASSUME NEW c \in Channels, Open(c) \/ RemoveChannel(c) \/ Destroy(c) \/ CloseEarly(c)
      PROVE  PollersInv'
  BY <1>1, <1>3, OpenKeeps, EpollRemoveKeeps, PollRemoveKeeps, DestroyKeeps, CloseEarlyKeeps
<1>4. CASE Poll \/ UNCHANGED vars
  BY <1>4, NothingMoves DEF Poll, vars
<1> QED
  BY <1>2, <1>3, <1>4 DEF Next

\* PollersInv holds in every reachable state, whichever poller is used: what
\* _channels, the channels' own indices and the kernel's set or the list of
\* pollfds say of one another agrees, also while descriptors are reused.
THEOREM PollersInvariant == Spec => []PollersInv
  BY InitHolds, StepKeeps, PTL DEF Spec

\* For every set of channels and descriptors: the channel found under a
\* descriptor is the open one, and the index of a channel of PollPoller leads to
\* its pollfd, also after removeChannel has moved it.
THEOREM IndexAlwaysLeadsBack == Spec => []IndexLeadsBack
<1>1. PollersInv => IndexLeadsBack
  <2> SUFFICES ASSUME PollersInv, NEW c \in asked
               PROVE  /\ chan[c].index # -1
                      /\ chan[c].open => chan[c].fd \in DOMAIN channels /\ channels[chan[c].fd] = c
                      /\ kind = "poll" =>
                           /\ chan[c].index + 1 \in DOMAIN eventList
                           /\ GetRealFd(eventList[chan[c].index + 1].fd) = chan[c].fd
    BY DEF IndexLeadsBack
  <2>1. c \in Channels /\ (kind = "epoll" \/ kind = "poll")
    BY DEF PollersInv, PollersTypeOK
  <2>2. chan[c].open => chan[c].fd \in DOMAIN channels /\ channels[chan[c].fd] = c
    BY DEF PollersInv, MapLeads
  <2>3. CASE kind = "epoll"
    BY <2>1, <2>2, <2>3, ChannelTypes DEF PollersInv, EpollLeads
  <2>4. CASE kind = "poll"
    <3>1. /\ chan[c].index \in 0..(Len(eventList) - 1)
          /\ GetRealFd(eventList[chan[c].index + 1].fd) = chan[c].fd
      BY <2>4 DEF PollersInv, PollLeads
    <3>2. Len(eventList) \in Nat /\ DOMAIN eventList = 1..Len(eventList)
      BY LenProperties DEF PollersInv, PollersTypeOK
    <3>3. chan[c].index # -1 /\ chan[c].index + 1 \in DOMAIN eventList
      BY <3>1, <3>2
    <3> QED
      BY <2>2, <3>1, <3>3
  <2> QED
    BY <2>1, <2>3, <2>4
<1> QED
  BY <1>1, PollersInvariant, PTL

\* A pollfd that poll does not ignore leads through _channels to the channel that
\* registered it.
LEMMA PollfdLeads ==
    ASSUME PollersInv, kind = "poll", NEW p \in ToSet(eventList), p.fd >= 0
    PROVE  /\ channels[p.fd] \in asked /\ chan[channels[p.fd]].open
           /\ p.events = chan[channels[p.fd]].events
<1>1. /\ eventList \in Seq([fd : Int, events : SUBSET Events]) /\ Len(eventList) \in Nat
      /\ DOMAIN eventList = 1..Len(eventList) /\ asked \subseteq Channels
  BY LenProperties DEF PollersInv, PollersTypeOK
<1>2. PICK i \in 1..Len(eventList) : p = eventList[i]
  BY <1>1 DEF ToSet
<1>3. PICK c \in asked : chan[c].index = i - 1
  BY DEF PollersInv, PollLeads
<1>4. chan[c].index + 1 = i
  BY <1>1, <1>3
<1>5. GetRealFd(p.fd) = chan[c].fd /\ p.events = chan[c].events
  BY <1>2, <1>4 DEF PollersInv, PollLeads
<1>6. p.fd = chan[c].fd
  <2>1. p.fd \in Int
    <3>1. p \in [fd : Int, events : SUBSET Events]
      BY <1>1, <1>2, ElementOfSeq
    <3> QED
      BY <3>1
  <2> QED
    BY <1>5, <2>1 DEF GetRealFd
<1>7. chan[c].open /\ channels[chan[c].fd] = c
  BY <1>1 DEF PollersInv, PollLeads, Descriptors, MapLeads
<1> QED
  BY <1>5, <1>6, <1>7

\* For every set of channels and descriptors: a registered channel that asks for
\* events is watched for just these, and what the kernel reports reaches the
\* channel that asked, never one that was removed or whose descriptor was closed
\* and has since gone to another channel.
THEOREM AlwaysWatchedAsAsked == Spec => []WatchedAsAsked
<1>1. PollersInv => WatchedAsAsked
  <2> SUFFICES ASSUME PollersInv PROVE WatchedAsAsked
    OBVIOUS
  <2>1. asked \subseteq Channels
    BY DEF PollersInv, PollersTypeOK
  <2>2. CASE kind = "epoll"
    <3>1. Watched = {<<epollSet[f].ptr, epollSet[f].events>> : f \in DOMAIN epollSet}
      BY <2>2 DEF Watched
    <3>2. ASSUME NEW c \in asked, chan[c].events # {}
          PROVE  <<c, chan[c].events>> \in Watched
      <4>1. /\ chan[c].index = kAdded /\ chan[c].fd \in DOMAIN epollSet
            /\ epollSet[chan[c].fd].ptr = c
        BY <2>2, <3>2 DEF PollersInv, EpollLeads
      <4>2. epollSet[chan[c].fd].events = chan[c].events
        BY <2>2, <4>1 DEF PollersInv, EpollLeads
      <4> QED
        BY <3>1, <4>1, <4>2
    <3>3. ASSUME NEW w \in Watched
          PROVE  w[1] \in asked /\ chan[w[1]].open /\ w[2] = chan[w[1]].events
      <4>1. PICK f \in DOMAIN epollSet : w = <<epollSet[f].ptr, epollSet[f].events>>
        BY <3>1, <3>3
      <4> QED
        BY <2>2, <4>1 DEF PollersInv, EpollLeads
    <3> QED
      BY <3>2, <3>3 DEF WatchedAsAsked
  <2>3. CASE kind = "poll"
    <3>1. Watched = {<<channels[p.fd], p.events>> : p \in {q \in ToSet(eventList) : q.fd >= 0}}
      BY <2>3 DEF Watched
    <3>2. ASSUME NEW c \in asked, chan[c].events # {}
          PROVE  <<c, chan[c].events>> \in Watched
      <4>1. /\ chan[c].index \in 0..(Len(eventList) - 1)
            /\ GetRealFd(eventList[chan[c].index + 1].fd) = chan[c].fd
            /\ eventList[chan[c].index + 1].events = chan[c].events
            /\ ~(eventList[chan[c].index + 1].fd < 0)
        BY <2>3, <3>2 DEF PollersInv, PollLeads
      <4>2. /\ Len(eventList) \in Nat /\ DOMAIN eventList = 1..Len(eventList)
            /\ eventList \in Seq([fd : Int, events : SUBSET Events])
        BY LenProperties DEF PollersInv, PollersTypeOK
      <4>3. chan[c].index + 1 \in DOMAIN eventList
        BY <4>1, <4>2
      <4>4. PICK q : q = eventList[chan[c].index + 1]
        OBVIOUS
      <4>5. q \in ToSet(eventList) /\ q.fd \in Int
        <5>1. q \in [fd : Int, events : SUBSET Events]
          BY <4>2, <4>3, <4>4, ElementOfSeq
        <5> QED
          BY <4>3, <4>4, <5>1 DEF ToSet
      <4>6. q.fd >= 0 /\ q.fd = chan[c].fd /\ q.events = chan[c].events
        BY <4>1, <4>4, <4>5 DEF GetRealFd
      <4>7. channels[chan[c].fd] = c
        <5>1. chan[c].open
          BY <2>1, <2>3 DEF PollersInv, PollLeads, Descriptors
        <5> QED
          BY <5>1 DEF PollersInv, MapLeads
      <4> QED
        BY <3>1, <4>5, <4>6, <4>7
    <3>3. ASSUME NEW w \in Watched
          PROVE  w[1] \in asked /\ chan[w[1]].open /\ w[2] = chan[w[1]].events
      <4>1. PICK p \in ToSet(eventList) : p.fd >= 0 /\ w = <<channels[p.fd], p.events>>
        BY <3>1, <3>3
      <4> QED
        BY <2>3, <4>1, PollfdLeads
    <3> QED
      BY <3>2, <3>3 DEF WatchedAsAsked
  <2> QED
    BY <2>2, <2>3 DEF PollersInv, PollersTypeOK
<1> QED
  BY <1>1, PollersInvariant, PTL

-----------------------------------------------------------------------------
(* Both pollers implement Poller.                                          *)

\* What the two pollers do to the events of the channels.
LEMMA UpdateTakesEvents ==
    ASSUME PollersInv, NEW c \in Channels, NEW events \in SUBSET Events, UpdateChannel(c, events)
    PROVE  \A b \in Channels : chan'[b].events = IF b = c THEN events ELSE chan[b].events
<1> DEFINE k == [chan[c] EXCEPT !.events = events]
<1>1. k \in ChannelStates /\ k.events = events
  BY ChannelTypes DEF ChannelStates
<1>2. PICK r : chan' = [chan EXCEPT ![c] = r] /\ r.events = events /\ r \in ChannelStates
  <2>1. \/ chan' = [chan EXCEPT ![c] = k]
        \/ \E i \in Int : chan' = [chan EXCEPT ![c] = [k EXCEPT !.index = i]]
    <3>1. Len(eventList) \in Int /\ kAdded \in Int /\ kDeleted \in Int
      BY LenProperties DEF PollersInv, PollersTypeOK, kAdded, kDeleted
    <3>2. EpollUpdate(c, k) \/ PollUpdate(c, k)
      BY DEF UpdateChannel
    <3> HIDE DEF k
    <3> QED
      BY <3>1, <3>2 DEF EpollUpdate, PollUpdate
  <2> HIDE DEF k
  <2> QED
    BY <1>1, <2>1, NewIndex
<1> QED
  BY <1>2, OneChanges

LEMMA RemoveKeepsEvents ==
    ASSUME PollersInv, NEW c \in Channels, RemoveChannel(c)
    PROVE  \A b \in Channels : chan'[b].events = chan[b].events
<1>1. CASE kind = "epoll"
  <2>1. chan' = chan \/ chan' = [chan EXCEPT ![c].index = kNew]
    BY <1>1 DEF RemoveChannel, EpollRemove
  <2>2. /\ chan[c] \in ChannelStates /\ chan[c] = [chan[c] EXCEPT !.index = chan[c].index]
        /\ chan = [chan EXCEPT ![c] = chan[c]] /\ kNew \in Int
    BY ChannelTypes DEF PollersInv, PollersTypeOK, ChannelStates
  <2>3. PICK r \in ChannelStates : chan' = [chan EXCEPT ![c] = r] /\ r.events = chan[c].events
    BY <2>1, <2>2, NewIndex
  <2> QED
    BY <2>3, OneChanges
<1>2. CASE kind = "poll"
  <2>1. c \in asked /\ PollRemove(c, chan[c])
    BY <1>2 DEF RemoveChannel
  <2> QED
    BY <1>2, <2>1, PollRemoveRepairs
<1> QED
  BY <1>1, <1>2 DEF PollersInv, PollersTypeOK

\* What poll() hands out is of a registered channel.
LEMMA ReadyIsRegistered ==
    ASSUME PollersInv, NEW r \in (IF kind = "epoll" THEN EpollReady ELSE PollReady)
    PROVE  \E c \in asked : r \in {c} \X (chan[c].events \cup {HangUp})
<1>1. CASE kind = "epoll"
  <2>1. PICK f \in DOMAIN epollSet : r \in {epollSet[f].ptr} \X (epollSet[f].events \cup {HangUp})
    BY <1>1 DEF EpollReady
  <2>2. epollSet[f].ptr \in asked /\ epollSet[f].events = chan[epollSet[f].ptr].events
    BY <1>1 DEF PollersInv, EpollLeads
  <2> QED
    BY <2>1, <2>2
<1>2. CASE kind = "poll"
  <2>1. PICK p \in ToSet(eventList) :
          p.fd \in DOMAIN channels /\ r \in {channels[p.fd]} \X (p.events \cup {HangUp})
    BY <1>2 DEF PollReady
  <2>2. channels[p.fd] \in asked /\ chan[channels[p.fd]].fd = p.fd
    BY <2>1 DEF PollersInv, MapLeads
  <2>3. p.fd >= 0
    BY <2>2 DEF PollersInv, Descriptors, Exists
  <2>4. p.events = chan[channels[p.fd]].events
    BY <1>2, <2>3, PollfdLeads
  <2> QED
    BY <2>1, <2>2, <2>4
<1> QED
  BY <1>1, <1>2 DEF PollersInv, PollersTypeOK

\* The events a channel asks for, as Poller sees them.
Interest == [c \in Channels |-> IF c \in asked THEN chan[c].events ELSE {}]

\* EpollPoller and PollPoller both implement Poller for every set of channels and
\* descriptors: each of their steps updates or removes a channel, hands out
\* registered channels with events they asked for or a hang-up, or changes nothing
\* that Poller shows.
THEOREM PollersImplementPoller == Spec => ImplementsPoller
<1>1. Init => AbstractPoller!Init
  BY DEF Init, AbstractPoller!Init
<1>2. PollersInv /\ [Next]_vars => [AbstractPoller!Next]_(AbstractPoller!vars)
  <2> SUFFICES ASSUME PollersInv, [Next]_vars
               PROVE  [AbstractPoller!Next]_(AbstractPoller!vars)
    OBVIOUS
  <2>1. asked \subseteq Channels
    BY DEF PollersInv, PollersTypeOK
  <2>2. ASSUME NEW c \in Channels, NEW events \in SUBSET Events, UpdateChannel(c, events)
        PROVE  AbstractPoller!Next
    <3>1. asked' = asked \cup {c} /\ reported' = {}
      BY <2>2 DEF UpdateChannel
    <3>2. Interest' = [Interest EXCEPT ![c] = events]
      BY ZenonT(30), <2>1, <2>2, <3>1, UpdateTakesEvents DEF Interest
    <3>3. AbstractPoller!Update(c, events)
      BY <3>1, <3>2 DEF AbstractPoller!Update, Interest
    <3> QED
      BY <3>3 DEF AbstractPoller!Next
  <2>3. ASSUME NEW c \in Channels, RemoveChannel(c)
        PROVE  AbstractPoller!Next
    <3>1. asked' = asked \ {c} /\ reported' = {}
      BY <2>3 DEF RemoveChannel
    <3>2. Interest' = [Interest EXCEPT ![c] = {}]
      BY <2>1, <2>3, <3>1, RemoveKeepsEvents DEF Interest
    <3>3. AbstractPoller!Remove(c)
      BY <3>1, <3>2 DEF AbstractPoller!Remove, Interest
    <3> QED
      BY <3>3 DEF AbstractPoller!Next
  <2>4. ASSUME NEW c \in Channels, Open(c) \/ Destroy(c) \/ CloseEarly(c)
        PROVE  AbstractPoller!Next
    <3>1. asked' = asked /\ reported' = {}
      BY <2>4 DEF Open, Destroy, CloseEarly
    <3>2. \A b \in asked : chan'[b].events = chan[b].events
      <4>1. CASE Open(c) \/ Destroy(c)
        <5>1. c \notin asked /\ \E r : chan' = [chan EXCEPT ![c] = r]
          BY <4>1 DEF Open, Destroy, PollersInv, Descriptors
        <5> QED
          BY <2>1, <5>1 DEF PollersInv, PollersTypeOK
      <4>2. CASE CloseEarly(c)
        <5>1. chan' = [chan EXCEPT ![c].open = FALSE]
          BY <4>2 DEF CloseEarly
        <5> QED
          BY <2>1, <5>1, ChannelTypes DEF PollersInv, PollersTypeOK, ChannelStates
      <4> QED
        BY <2>4, <4>1, <4>2
    <3>3. Interest' = Interest
      BY <3>1, <3>2 DEF Interest
    <3>4. AbstractPoller!Poll
      BY <3>1, <3>3 DEF AbstractPoller!Poll, Interest
    <3> QED
      BY <3>4 DEF AbstractPoller!Next
  <2>5. CASE Poll
    <3>1. PICK r \in (IF kind = "epoll" THEN EpollReady ELSE PollReady) : reported' = {r}
      BY <2>5 DEF Poll
    <3>2. PICK c \in asked : r \in {c} \X (chan[c].events \cup {HangUp})
      BY ReadyIsRegistered
    <3>3. c \in Channels /\ Interest[c] = chan[c].events
      BY <2>1 DEF Interest
    <3>4. reported' \in SUBSET UNION {{b} \X (Interest[b] \cup {HangUp}) : b \in asked}
      BY <3>1, <3>2, <3>3
    <3>5. Interest' = Interest /\ asked' = asked
      BY <2>5 DEF Poll, Interest
    <3>6. AbstractPoller!Poll
      BY <3>4, <3>5 DEF AbstractPoller!Poll, Interest
    <3> QED
      BY <3>6 DEF AbstractPoller!Next
  <2>6. CASE UNCHANGED vars
    BY <2>6 DEF vars, AbstractPoller!vars
  <2> QED
    BY <2>2, <2>3, <2>4, <2>5, <2>6 DEF Next
<1> QED
  BY <1>1, <1>2, PollersInvariant, PTL DEF Spec, ImplementsPoller, AbstractPoller!Spec
=============================================================================
