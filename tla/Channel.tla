------------------------------ MODULE Channel ------------------------------
(***************************************************************************)
(* A Channel's interest in events and its registration in EpollPoller, as  *)
(* functions on any record with the fields                                 *)
(*                                                                         *)
(*   index              Channel::_index: "new", "added" or "deleted"       *)
(*   reading, writing   the interest in Channel::_events                   *)
(***************************************************************************)

Indices == {"new", "added", "deleted"}

\* EpollPoller::updateChannel: a channel not in the epoll set is added to it,
\* with whatever interest it has; one in it leaves it with the last interest.
UpdateChannel(k) ==
    IF k.index # "added" THEN [k EXCEPT !.index = "added"]
    ELSE IF ~k.reading /\ ~k.writing THEN [k EXCEPT !.index = "deleted"]
    ELSE k

EnableReading(k) == UpdateChannel([k EXCEPT !.reading = TRUE])
DisableReading(k) == UpdateChannel([k EXCEPT !.reading = FALSE])
EnableWriting(k) == UpdateChannel([k EXCEPT !.writing = TRUE])
DisableWriting(k) == UpdateChannel([k EXCEPT !.writing = FALSE])
DisableAll(k) == UpdateChannel([k EXCEPT !.reading = FALSE, !.writing = FALSE])

\* EpollPoller::removeChannel dereferences what _channels.find returns, so the
\* channel has to be there.
CanRemove(k) == k.index # "new"
RemoveChannel(k) == [k EXCEPT !.index = "new"]
=============================================================================
