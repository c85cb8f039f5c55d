-------------------------- MODULE ChannelLifecycle --------------------------
(***************************************************************************)
(* The channels of one loop from construction to destruction: their owners *)
(* (TcpConnection, Acceptor, Connector, EventLoop) change their events and *)
(* remove them, in callbacks of a dispatch or in functors between two; the *)
(* poller hands out raw pointers to them.                                  *)
(*                                                                         *)
(* The poller does not defend itself: it asserts nothing and takes raw     *)
(* pointers.  What it relies on is the discipline of its owners, which the *)
(* guards MayUse, CloseFd and destroy state.  Two channels may have the    *)
(* same descriptor: a Connector hands its socket to a TcpConnection.       *)
(***************************************************************************)
EXTENDS EPollPoller

VARIABLES
  p,         \* the poller
  alive,     \* the channels constructed and not destroyed
  active,    \* activeChannels_ that the dispatch has not reached
  current    \* the channel whose handleEvent is running

vars == <<p, alive, active, current>>

\* c's owner may call its methods.
MayUse(c) == c \in alive /\ OwnsFd(p, c)

Dispatching == active # {} \/ current # NoChannel

Init ==
  /\ p = NewPoller
  /\ alive = {}
  /\ active = {}
  /\ current = NoChannel

-----------------------------------------------------------------------------
(* The owners *)

\* socket(), accept() or eventfd().
OpenFd(fd) ==
  /\ fd \notin p.open
  /\ p' = [p EXCEPT !.open = @ \cup {fd}]
  /\ UNCHANGED <<alive, active, current>>

\* A descriptor is closed when no channel for it is in the poller.
CloseFd(fd) ==
  /\ fd \in p.open
  /\ \A c \in Channel : FdOf[c] = fd => p.index[c] = kNew
  /\ p' = Close(p, fd)
  /\ UNCHANGED <<alive, active, current>>

newChannel(c) ==
  /\ c \notin alive
  /\ alive' = alive \cup {c}
  /\ p' = construct(p, c)
  /\ UNCHANGED <<active, current>>

ChangeEvents(c) ==
  /\ MayUse(c)
  /\ \/ p' = enableReading(p, c)
     \/ p' = disenableReading(p, c)
     \/ p' = enableWriteing(p, c)
     \/ p' = disenableWriteing(p, c)
     \/ p' = disableAll(p, c)
  /\ UNCHANGED <<alive, active, current>>

remove(c) ==
  /\ MayUse(c)
  /\ p' = removeChannel(p, c)
  /\ UNCHANGED <<alive, active, current>>

\* ~Channel: the owner has removed the channel, and it does so from a functor
\* (Connector::resetChannel, TcpConnection::connectDestroyed), where no dispatch
\* is under way that could still have a pointer to it.
destroy(c) ==
  /\ c \in alive
  /\ p.index[c] = kNew
  /\ ~Dispatching
  /\ alive' = alive \ {c}
  /\ UNCHANGED <<p, active, current>>

-----------------------------------------------------------------------------
(* The loop *)

poll ==
  /\ ~Dispatching
  /\ \E reported \in SUBSET Reportable(p) : reported # {} /\ active' = reported
  /\ UNCHANGED <<p, alive, current>>

handleEvent(c) ==
  /\ current = NoChannel
  /\ c \in active
  /\ current' = c
  /\ active' = active \ {c}
  /\ UNCHANGED <<p, alive>>

handleEventReturns ==
  /\ current # NoChannel
  /\ current' = NoChannel
  /\ UNCHANGED <<p, alive, active>>

-----------------------------------------------------------------------------

Next ==
  \/ \E fd \in Fd : OpenFd(fd) \/ CloseFd(fd)
  \/ \E c \in Channel :
       newChannel(c) \/ ChangeEvents(c) \/ remove(c) \/ destroy(c) \/ handleEvent(c)
  \/ poll
  \/ handleEventReturns

Spec == Init /\ [][Next]_vars

-----------------------------------------------------------------------------
(* Properties *)

\* Every variable has its type.  (EPollPoller.h:30-31, Channel.h:76-80)
TypeOK ==
  /\ p \in Pollers
  /\ alive \in SUBSET Channel
  /\ active \in SUBSET Channel
  /\ current \in Channel \cup {NoChannel}

\* index_ says what the kernel and the map hold, after any sequence of enabling,
\* disabling, removing, closing and handing a descriptor on: a channel is kAdded
\* exactly when it is in the interest list, with the events it asked for, and in
\* channels_ exactly when it is not kNew.
IndexAgrees == Consistent(p)

\* No epoll_ctl fails.  A failing add or mod is LOG_FATAL, which ends the
\* program; a failing del leaves a pointer in the kernel.
EpollCtlNeverFails == p.failed = {}

\* The kernel and the dispatch hold no pointer to a destroyed channel.
NoDanglingPointer ==
  Reportable(p) \cup active \cup ({current} \ {NoChannel}) \subseteq alive
=============================================================================
