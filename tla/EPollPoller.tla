---------------------------- MODULE EPollPoller ----------------------------
(***************************************************************************)
(* Channel and EPollPoller as operators on one poller p, a record of       *)
(*   index, events     the fields index_ and events_ of every channel      *)
(*   channels_         the poller's map from file descriptors to channels  *)
(*   open              the file descriptors that are open                  *)
(*   ptr, mask         the kernel's interest list: for every descriptor    *)
(*                     the epoll_event.data.ptr and .events it was given   *)
(*   failed            the kinds of epoll_ctl calls that have failed       *)
(* The add and mod kinds are fatal: LOG_FATAL exits.                       *)
(*                                                                         *)
(* The module declares no variable: a specification keeps a p for every    *)
(* loop it has and calls these operators where the code calls the methods. *)
(***************************************************************************)
EXTENDS Integers

CONSTANTS
  Channel,
  Fd,
  NoChannel,
  FdOf       \* FdOf[c] is the field fd_ of channel c

ASSUME PollerAssumption ==
  /\ NoChannel \notin Channel
  /\ FdOf \in [Channel -> Fd]

kNew     == -1   \* not in channels_
kAdded   == 1    \* in channels_ and in the interest list
kDeleted == 2    \* in channels_ only

EPOLL_CTL_ADD == "add"
EPOLL_CTL_MOD == "mod"
EPOLL_CTL_DEL == "del"

Events == {"read", "write"}

Pollers == [
  index     : [Channel -> {kNew, kAdded, kDeleted}],
  events    : [Channel -> SUBSET Events],
  channels_ : [Fd -> Channel \cup {NoChannel}],
  open      : SUBSET Fd,
  ptr       : [Fd -> Channel \cup {NoChannel}],
  mask      : [Fd -> SUBSET Events],
  failed    : SUBSET {EPOLL_CTL_ADD, EPOLL_CTL_MOD, EPOLL_CTL_DEL}]

NewPoller == [
  index     |-> [c \in Channel |-> kNew],
  events    |-> [c \in Channel |-> {}],
  channels_ |-> [f \in Fd |-> NoChannel],
  open      |-> {},
  ptr       |-> [f \in Fd |-> NoChannel],
  mask      |-> [f \in Fd |-> {}],
  failed    |-> {}]

-----------------------------------------------------------------------------
(* The kernel *)

EpollCtlSucceeds(p, op, fd) ==
  /\ fd \in p.open                                  \* else EBADF
  /\ (op = EPOLL_CTL_ADD) <=> (p.ptr[fd] = NoChannel)       \* else EEXIST or ENOENT

\* The interest list with an entry for channel c, and without one for fd.
WithEntry(p, c) == [p EXCEPT !.ptr[FdOf[c]] = c, !.mask[FdOf[c]] = p.events[c]]
WithoutEntry(p, fd) == [p EXCEPT !.ptr[fd] = NoChannel, !.mask[fd] = {}]

\* close(fd) takes fd out of the interest list.
Close(p, fd) == [WithoutEntry(p, fd) EXCEPT !.open = @ \ {fd}]

\* Fault: entries that epoll_wait did not fill in are reported too.
ReportableOrNull(p) == {p.ptr[fd] : fd \in Fd}

\* The channels epoll_wait may report: an error or a hang-up is reported
\* whatever the mask is.
Reportable(p) == {p.ptr[fd] : fd \in Fd} \ {NoChannel}

-----------------------------------------------------------------------------
(* EPollPoller *)

set_index(p, c, idx) == [p EXCEPT !.index[c] = idx]

update(p, op, c) ==
  CASE ~EpollCtlSucceeds(p, op, FdOf[c]) -> [p EXCEPT !.failed = @ \cup {op}]
    [] EpollCtlSucceeds(p, op, FdOf[c]) /\ op # EPOLL_CTL_DEL -> WithEntry(p, c)
    [] EpollCtlSucceeds(p, op, FdOf[c]) /\ op = EPOLL_CTL_DEL -> WithoutEntry(p, FdOf[c])

\* Fault: a channel without events is not taken out of the interest list.
updateChannelKeepsInterest(p, c) ==
  CASE p.index[c] = kNew ->
         update(set_index([p EXCEPT !.channels_[FdOf[c]] = c], c, kAdded), EPOLL_CTL_ADD, c)
    [] p.index[c] = kDeleted ->
         update(set_index(p, c, kAdded), EPOLL_CTL_ADD, c)
    [] p.index[c] = kAdded /\ p.events[c] = {} ->
         set_index(p, c, kDeleted)
    [] p.index[c] = kAdded /\ p.events[c] # {} ->
         update(p, EPOLL_CTL_MOD, c)

updateChannel(p, c) ==
  CASE p.index[c] = kNew ->
         update(set_index([p EXCEPT !.channels_[FdOf[c]] = c], c, kAdded), EPOLL_CTL_ADD, c)
    [] p.index[c] = kDeleted ->
         update(set_index(p, c, kAdded), EPOLL_CTL_ADD, c)
    [] p.index[c] = kAdded /\ p.events[c] = {} ->
         set_index(update(p, EPOLL_CTL_DEL, c), c, kDeleted)
    [] p.index[c] = kAdded /\ p.events[c] # {} ->
         update(p, EPOLL_CTL_MOD, c)

\* Fault: index_ is not reset.
removeChannelKeepsIndex(p, c) ==
  LET erased == [p EXCEPT !.channels_[FdOf[c]] = NoChannel] IN
  IF p.index[c] = kAdded THEN update(erased, EPOLL_CTL_DEL, c) ELSE erased

\* Fault: the descriptor stays in the interest list.
removeChannelKeepsInterest(p, c) ==
  set_index([p EXCEPT !.channels_[FdOf[c]] = NoChannel], c, kNew)

removeChannel(p, c) ==
  LET erased == [p EXCEPT !.channels_[FdOf[c]] = NoChannel] IN
  set_index(IF p.index[c] = kAdded THEN update(erased, EPOLL_CTL_DEL, c) ELSE erased, c, kNew)

-----------------------------------------------------------------------------
(* Channel *)

setEvents(p, c, events) == updateChannel([p EXCEPT !.events[c] = events], c)

enableReading(p, c)     == setEvents(p, c, p.events[c] \cup {"read"})
disenableReading(p, c)  == setEvents(p, c, p.events[c] \ {"read"})
enableWriteing(p, c)    == setEvents(p, c, p.events[c] \cup {"write"})
disenableWriteing(p, c) == setEvents(p, c, p.events[c] \ {"write"})
disableAll(p, c)        == setEvents(p, c, {})

\* The code compares events_ for equality: a channel that waits for both
\* reads and writes is in neither state.
isReading(p, c)  == p.events[c] = {"read"}
isWriteing(p, c) == p.events[c] = {"write"}

\* ::Channel: fd_ is given, no event, not in any poller.
construct(p, c) == [p EXCEPT !.index[c] = kNew, !.events[c] = {}]

-----------------------------------------------------------------------------
(* Facts about a poller *)

\* index_ says what the map and the kernel hold: a channel is kAdded exactly
\* when it is in the interest list, with the events it asked for, and in
\* channels_ exactly when it is not kNew.
Consistent(p) ==
  \A c \in Channel :
    LET fd == FdOf[c] IN
    /\ (p.index[c] = kAdded) <=> (p.ptr[fd] = c)
    /\ (p.index[c] = kAdded) => (p.mask[fd] = p.events[c])
    /\ (p.index[c] # kNew) <=> (p.channels_[fd] = c)

\* c has an open descriptor that no other channel in the poller has.
OwnsFd(p, c) ==
  /\ FdOf[c] \in p.open
  /\ \A d \in Channel \ {c} : FdOf[d] = FdOf[c] => p.index[d] = kNew
=============================================================================
