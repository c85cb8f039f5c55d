------------------------------- MODULE Client -------------------------------
(***************************************************************************)
(* A TcpClient, its Connector and its connections, one after the other, on *)
(* one loop, with users' threads that call connect, disconnect and stop.   *)
(*                                                                         *)
(* Attempt k is the k-th socket that Connector::connect makes.  Two        *)
(* channels are made for it in turn: <<"dial", k>> by the Connector and    *)
(* <<"conn", k>> by the TcpConnection that takes the socket over.          *)
(*                                                                         *)
(* The loop appears as TaskQueue, as in ConnectionLifecycle.  A callback   *)
(* or task is one step but for newConnection and handleClose, which are    *)
(* cut where users' threads can tell: between the assignment to state_ and *)
(* the connection callback, which reads it again, where they take mutex_,  *)
(* and where they have read connect_.  The connections carry no data.      *)
(***************************************************************************)
EXTENDS Naturals, Sequences

CONSTANTS
  MaxAttempts,  \* bound on the sockets: a further attempt fails at once
  MaxConnects,  \* bound on the calls of connect
  User,         \* the users' threads
  Usages,       \* the ways the client may be used
  MaxTasks      \* bound on the tasks of the loop when a user queues another

ASSUME ClientAssumption ==
  /\ MaxAttempts \in Nat /\ MaxConnects \in Nat /\ MaxTasks \in Nat
  /\ Usages \subseteq [remote : SUBSET {"connect", "disconnect", "stop"},
                       local : SUBSET {"forceClose"}]

Attempt == 1..MaxAttempts
NoAttempt == 0

VARIABLES
  usage,        \* what users' threads and the connection's callbacks may call
  client,       \* "alive" or, after ~TcpClient, "gone"
  connect_,     \* of the TcpClient
  connection_,
  connector,    \* the Connector: connect_, state_, and the attempt channel_ is for
  attempts,     \* the number of sockets made
  net,          \* the socket of each attempt, as the kernel sees it
  state_,       \* of the connection of each attempt
  wrShut,       \* the connections on which shutdownWrite was called
  tasks, at,    \* of the loop: its queue, and what it is in the middle of
  p,            \* its poller
  dispatching, active,  \* whether it handles events, and the channels left
  erring,       \* the attempts whose channel was reported with EPOLLERR
  batch,        \* how many of its tasks it runs before it polls again
  call,         \* call[u]: what user u is in the middle of
  connects,     \* the number of calls of connect
  ups, downs,   \* the attempts whose connection was reported up; down, and how often
  crashed       \* the process has ended with a signal

clientVars == <<client, connect_, connection_, connector, attempts>>
connVars   == <<state_, wrShut, ups, downs>>
userVars   == <<call, connects>>
loopVars   == <<dispatching, active, erring, batch>>
vars == <<usage, clientVars, connVars, userVars, net, tasks, at, p, loopVars, crashed>>

NoChannel == <<"none", NoAttempt>>

Poller == INSTANCE EPollPoller WITH
  Channel <- {"dial", "conn"} \X Attempt,
  Fd <- Attempt,
  FdOf <- [c \in {"dial", "conn"} \X Attempt |-> c[2]]

Dial(k) == <<"dial", k>>
Conn(k) == <<"conn", k>>

Task(op, k) == [op |-> op, k |-> k]
At(place, k) == [place |-> place, k |-> k]
Idle == At("idle", NoAttempt)

TaskSet == {tasks[i] : i \in DOMAIN tasks}

ConnectorTasks == {Task(op, NoAttempt) : op \in {"startInLoop", "stopInLoop", "resetChannel"}}

\* Fault: disconnect lets go of the mutex before it calls shutdown.
mutexNeverHeld == TRUE

\* disconnect holds mutex_ until shutdown has returned.
mutexFree == \A u \in User : call[u].place \notin {"checked", "shutdownInLoop"}

Init ==
  /\ usage \in Usages
  /\ client = "alive"
  /\ connect_ = TRUE
  /\ connection_ = NoAttempt
  /\ connector = [connect_ |-> FALSE, state_ |-> "kDisconnected", channel_ |-> NoAttempt]
  /\ attempts = 0
  /\ net = [k \in Attempt |-> "none"]
  /\ state_ = [k \in Attempt |-> "kConnecting"]
  /\ wrShut = {}
  /\ tasks = <<>>
  /\ at = Idle
  /\ p = Poller!NewPoller
  /\ dispatching = FALSE
  /\ active = {}
  /\ erring = {}
  /\ batch = 0
  /\ call = [u \in User |-> Idle]
  /\ connects = 0
  /\ ups = {}
  /\ downs = [k \in Attempt |-> 0]
  /\ crashed = FALSE

Count(n) == IF n < 2 THEN n + 1 ELSE n

-----------------------------------------------------------------------------
(* The Connector, in the loop's thread.  Each operator gives the next       *)
(* connector, poller and sockets.                                          *)

\* connect and connecting, which replaces channel_.  The errors of ::connect that
\* are not followed by a connecting leave everything as it was; those of the
\* second kind do not close the socket.
connect(conr) ==
  \/ LET k == attempts + 1 IN
     /\ attempts < MaxAttempts
     /\ attempts' = k
     /\ net' = [net EXCEPT ![k] = "dialing"]
     /\ connector' = [conr EXCEPT !.state_ = "kConnecting", !.channel_ = k]
     /\ p' = Poller!enableWriteing([p EXCEPT !.open = @ \cup {k}], Dial(k))
  \/ /\ connector' = conr
     /\ UNCHANGED <<attempts, net, p>>

\* Fault: connect_ is not tested.
startInLoopUnchecked(conr) == connect(conr)

startInLoop(conr) ==
  \/ conr.connect_ /\ connect(conr)
  \/ ~conr.connect_ /\ connector' = conr /\ UNCHANGED <<attempts, net, p>>

\* removeAndResetChannel: the poller without channel_'s channel.  The task that
\* destroys it is queued behind what is queued already.
removeAndResetChannel ==
  LET c == Dial(connector.channel_) IN
  IF connector.channel_ = NoAttempt THEN p ELSE Poller!removeChannel(Poller!disableAll(p, c), c)

resetLater(q) == tasks' = Append(q, Task("resetChannel", NoAttempt))

-----------------------------------------------------------------------------
(* The loop: poll, and the events of the Connector's channel *)

Broken(k) == net[k] \in {"refused", "reset"}

HungUp(k) == net[k] = "reset" \/ (net[k] = "closed" /\ k \in wrShut)

Ready(c) ==
  LET k == c[2] IN
  /\ p.ptr[k] = c
  /\ IF c = Dial(k) THEN net[k] # "dialing" ELSE p.mask[k] # {} \/ HungUp(k)

\* Fault: entries of the event list that epoll_wait did not fill in are used too.
pollReportsStaleEntries ==
  /\ at = Idle /\ ~dispatching /\ batch = 0
  /\ dispatching' = TRUE
  /\ active' = {p.ptr[k] : k \in Attempt}
  /\ erring' = {k \in Attempt : Dial(k) \in active' /\ Broken(k)}
  /\ UNCHANGED <<clientVars, connVars, userVars, net, tasks, at, p, batch, crashed>>

\* epoll_wait returns with some of the ready channels, or woken up for a task; what
\* it says of them stays in their revents_.
poll ==
  /\ at = Idle /\ ~dispatching /\ batch = 0
  /\ dispatching' = TRUE
  /\ active' \in SUBSET {c \in {"dial", "conn"} \X Attempt : Ready(c)}
  /\ active' # {} \/ tasks # <<>>
  /\ erring' = {k \in Attempt : Dial(k) \in active' /\ Broken(k)}
  /\ UNCHANGED <<clientVars, connVars, userVars, net, tasks, at, p, batch, crashed>>

\* The events are handled: doPendingFunctors swaps.
swapFunctors ==
  /\ at = Idle /\ dispatching /\ active = {}
  /\ dispatching' = FALSE
  /\ batch' = Len(tasks)
  /\ UNCHANGED <<clientVars, connVars, userVars, net, tasks, at, p, active, erring, crashed>>

\* The event of channel c is the next to be handled.
Handles(c) ==
  /\ at = Idle
  /\ c \in active
  /\ active' = active \ {c}
  /\ UNCHANGED <<dispatching, erring, batch>>

\* EPOLLERR was reported: handleError comes before handleWrite.  Its log formats the
\* enumerator state_ with %s, and the address it reads there is not mapped, unless
\* it is kDisconnected, the null pointer.
handleError(k) ==
  /\ Handles(Dial(k))
  /\ k \in erring
  /\ crashed' = (connector.state_ # "kDisconnected")
  /\ UNCHANGED <<clientVars, connVars, userVars, net, tasks, at, p>>

\* Fault: the Connector's channel is left to resetChannel.
handleWriteKeepsChannel(k) ==
  /\ Handles(Dial(k)) /\ k \notin erring /\ mutexFree
  /\ resetLater(tasks)
  /\ connector' = [connector EXCEPT !.state_ = "kConnected"]
  /\ connection_' = k
  /\ at' = At("establishing", k)
  /\ UNCHANGED <<client, connect_, attempts, connVars, userVars, net, p, crashed>>

\* Fault: state_ stays kConnecting.
handleWriteKeepsState(k) ==
  /\ Handles(Dial(k)) /\ k \notin erring /\ mutexFree
  /\ resetLater(tasks)
  /\ p' = removeAndResetChannel
  /\ connection_' = k
  /\ at' = At("establishing", k)
  /\ UNCHANGED <<client, connect_, connector, attempts, connVars, userVars, net, crashed>>

\* The socket failed after epoll_wait had reported it writable: SO_ERROR is only
\* logged, and state_ stays kConnecting without a channel.
handleWriteFails(k) ==
  /\ Handles(Dial(k)) /\ k \notin erring
  /\ connector.state_ = "kConnecting" /\ Broken(k)
  /\ resetLater(tasks)
  /\ p' = removeAndResetChannel
  /\ UNCHANGED <<clientVars, connVars, userVars, net, at, crashed>>

\* handleWrite otherwise and, when the client still wants it, newConnection up to
\* the assignment to connection_.
handleWrite(k) ==
  /\ Handles(Dial(k)) /\ k \notin erring /\ mutexFree
  /\ IF connector.state_ # "kConnecting"
       THEN UNCHANGED <<tasks, connector, p, connection_, at>>
       ELSE /\ ~Broken(k)
            /\ resetLater(tasks)
            /\ connector' = [connector EXCEPT !.state_ = "kConnected"]
            /\ IF connector.connect_
                 THEN /\ p' = removeAndResetChannel
                      /\ connection_' = k
                      /\ at' = At("establishing", k)
                 ELSE /\ p' = Poller!Close(removeAndResetChannel, k)
                      /\ UNCHANGED <<connection_, at>>
  /\ UNCHANGED <<client, connect_, attempts, connVars, userVars, net, crashed>>

-----------------------------------------------------------------------------
(* The connection, in the loop's thread.  Its member functions are those of *)
(* ConnectionLifecycle.                                                     *)

Runnable(op, st) ==
  st \in IF op = "forceClose" THEN {"kConnected", "kDisconnecting"} ELSE {"kConnected"}

\* The user's callback calls forceClose or nothing.
callback(k) ==
  \/ UNCHANGED <<state_, tasks>>
  \/ /\ "forceClose" \in usage.local
     /\ Runnable("forceClose", state_[k]) /\ Len(tasks) < MaxTasks
     /\ state_' = [state_ EXCEPT ![k] = "kDisconnecting"]
     /\ tasks' = Append(tasks, Task("forceCloseInLoop", k))

\* The rest of newConnection: connectEstablished,
connectEstablished(k) ==
  /\ at = At("establishing", k)
  /\ at' = At("up", k)
  /\ state_' = [state_ EXCEPT ![k] = "kConnected"]
  /\ p' = Poller!enableReading(p, Conn(k))
  /\ UNCHANGED <<clientVars, wrShut, ups, downs, userVars, net, tasks, loopVars, crashed>>

\* and its call of connectionCallback_.
saysUp(k) ==
  /\ at = At("up", k)
  /\ at' = Idle
  /\ ups' = ups \cup {k}
  /\ callback(k)
  /\ UNCHANGED <<clientVars, wrShut, downs, userVars, net, p, loopVars, crashed>>

handleEventStays(k) ==
  /\ Handles(Conn(k))
  /\ callback(k)
  /\ UNCHANGED <<clientVars, wrShut, ups, downs, userVars, net, at, p, crashed>>

\* handleClose up to the connection callback,
handleClose(k) ==
  /\ state_' = [state_ EXCEPT ![k] = "kDisconnected"]
  /\ p' = Poller!disableAll(p, Conn(k))
  /\ at' = At("down", k)

handleEventCloses(k) ==
  /\ Handles(Conn(k))
  /\ IF "read" \in p.mask[k] THEN net[k] # "open" ELSE HungUp(k)
  /\ handleClose(k)
  /\ UNCHANGED <<clientVars, wrShut, ups, downs, userVars, net, tasks, crashed>>

\* which it calls with the state_ that it finds now,
saysDown(k) ==
  /\ at = At("down", k)
  /\ at' = At("closing", k)
  /\ downs' = [downs EXCEPT ![k] = Count(@)]
  /\ callback(k)
  /\ UNCHANGED <<clientVars, wrShut, ups, userVars, net, p, loopVars, crashed>>

\* Fault: connection_ is not reset.
removeConnectionKeepsPointer(k) ==
  /\ at = At("closing", k)
  /\ mutexFree
  /\ tasks' = Append(tasks, Task("connectDestroyed", k))
  /\ at' = IF client = "alive" /\ connect_ THEN At("restarting", NoAttempt) ELSE Idle
  /\ UNCHANGED <<clientVars, connVars, userVars, net, p, loopVars, crashed>>

\* and the close callback: removeConnection, up to the test of connect_, or
\* removeConnectionCallback when the client is gone.
removeConnection(k) ==
  /\ at = At("closing", k)
  /\ mutexFree
  /\ tasks' = Append(tasks, Task("connectDestroyed", k))
  /\ connection_' = NoAttempt
  /\ at' = IF client = "alive" /\ connect_ THEN At("restarting", NoAttempt) ELSE Idle
  /\ UNCHANGED <<client, connect_, connector, attempts, connVars, userVars, net, p, loopVars,
                 crashed>>

restart ==
  /\ at = At("restarting", NoAttempt)
  /\ at' = Idle
  /\ startInLoop([connector EXCEPT !.state_ = "kDisconnected", !.connect_ = TRUE])
  /\ UNCHANGED <<client, connect_, connection_, connVars, userVars, tasks, loopVars, crashed>>

-----------------------------------------------------------------------------
(* The tasks *)

Starts(op, k) ==
  /\ at = Idle /\ batch > 0
  /\ batch' = batch - 1
  /\ Head(tasks) = Task(op, k)
  /\ UNCHANGED <<dispatching, active, erring>>

runStartInLoop ==
  /\ Starts("startInLoop", NoAttempt)
  /\ tasks' = Tail(tasks)
  /\ startInLoop(connector)
  /\ UNCHANGED <<client, connect_, connection_, connVars, userVars, at, crashed>>

\* Fault: state_ stays kConnecting.
stopInLoopKeepsState ==
  /\ Starts("stopInLoop", NoAttempt)
  /\ IF connector.state_ # "kConnecting"
       THEN tasks' = Tail(tasks) /\ UNCHANGED p
       ELSE resetLater(Tail(tasks)) /\ p' = removeAndResetChannel
  /\ crashed' = (connector.state_ = "kConnecting" /\ connector.channel_ = NoAttempt)
  /\ UNCHANGED <<clientVars, connVars, userVars, net, at>>

\* Fault: the channel is left to resetChannel.
stopInLoopKeepsChannel ==
  /\ Starts("stopInLoop", NoAttempt)
  /\ IF connector.state_ # "kConnecting"
       THEN tasks' = Tail(tasks) /\ UNCHANGED connector
       ELSE /\ connector' = [connector EXCEPT !.state_ = "kDisconnected"]
            /\ resetLater(Tail(tasks))
  /\ UNCHANGED <<client, connect_, connection_, attempts, connVars, userVars, net, at, p,
                 crashed>>

\* stopInLoop.  It does not close the socket.
stopInLoop ==
  /\ Starts("stopInLoop", NoAttempt)
  /\ IF connector.state_ # "kConnecting"
       THEN tasks' = Tail(tasks) /\ UNCHANGED <<connector, p>>
       ELSE /\ connector' = [connector EXCEPT !.state_ = "kDisconnected"]
            /\ resetLater(Tail(tasks))
            /\ p' = removeAndResetChannel
  /\ crashed' = (connector.state_ = "kConnecting" /\ connector.channel_ = NoAttempt)
  /\ UNCHANGED <<client, connect_, connection_, attempts, connVars, userVars, net, at>>

resetChannel ==
  /\ Starts("resetChannel", NoAttempt)
  /\ tasks' = Tail(tasks)
  /\ connector' = [connector EXCEPT !.channel_ = NoAttempt]
  /\ UNCHANGED <<client, connect_, connection_, attempts, connVars, userVars, net, at, p, crashed>>

shutdownInLoop(k) ==
  /\ Starts("shutdownInLoop", k)
  /\ tasks' = Tail(tasks)
  /\ wrShut' = wrShut \cup {k}
  /\ UNCHANGED <<clientVars, state_, ups, downs, userVars, net, at, p, crashed>>

\* Fault: state_ is not tested again in the loop.
forceCloseInLoopUnchecked(k) ==
  /\ Starts("forceCloseInLoop", k)
  /\ tasks' = Tail(tasks)
  /\ handleClose(k)
  /\ UNCHANGED <<clientVars, wrShut, ups, downs, userVars, net, crashed>>

forceCloseInLoop(k) ==
  /\ Starts("forceCloseInLoop", k)
  /\ tasks' = Tail(tasks)
  /\ IF Runnable("forceClose", state_[k])
       THEN handleClose(k)
       ELSE UNCHANGED <<state_, p, at>>
  /\ UNCHANGED <<clientVars, wrShut, ups, downs, userVars, net, crashed>>

\* connectDestroyed.  handleClose has come first, so that the callback is not called.
connectDestroyed(k) ==
  /\ Starts("connectDestroyed", k)
  /\ tasks' = Tail(tasks)
  /\ IF state_[k] = "kConnected"
       THEN /\ state_' = [state_ EXCEPT ![k] = "kDisconnected"]
            /\ downs' = [downs EXCEPT ![k] = Count(@)]
            /\ p' = Poller!removeChannel(Poller!disableAll(p, Conn(k)), Conn(k))
       ELSE /\ p' = Poller!removeChannel(p, Conn(k))
            /\ UNCHANGED <<state_, downs>>
  /\ UNCHANGED <<clientVars, wrShut, ups, userVars, net, at, crashed>>

-----------------------------------------------------------------------------
(* Users' threads, the client's destruction, and the network *)

Continues(u, places, next) ==
  /\ call[u].place \in places
  /\ call' = [call EXCEPT ![u] = next]

\* TcpClient::connect, disconnect and stop set connect_;
setsConnect(u, op) ==
  /\ Continues(u, {"idle"}, At(op, NoAttempt))
  /\ client = "alive" /\ Len(tasks) < MaxTasks
  /\ connects' = connects + (IF op = "connect" THEN 1 ELSE 0)
  /\ connects' <= MaxConnects
  /\ connect_' = (op = "connect")
  /\ UNCHANGED <<client, connection_, connector, attempts, connVars, net, tasks, at, p, loopVars,
                 crashed>>

\* then Connector::start and stop set the Connector's,
setsConnectorConnect(u) ==
  /\ Continues(u, {"connect", "stop"},
       At(IF call[u].place = "connect" THEN "startInLoop" ELSE "stopInLoop", NoAttempt))
  /\ connector' = [connector EXCEPT !.connect_ = (call[u].place = "connect")]
  /\ UNCHANGED <<client, connect_, connection_, attempts, connVars, connects, net, tasks, at, p,
                 loopVars, crashed>>

\* and disconnect takes mutex_, and shutdown tests the connection's state_
disconnectLocks(u) ==
  /\ mutexFree
  /\ Continues(u, {"disconnect"},
       IF connection_ # NoAttempt /\ Runnable("shutdown", state_[connection_])
         THEN At("checked", connection_) ELSE Idle)
  /\ UNCHANGED <<clientVars, connVars, connects, net, tasks, at, p, loopVars, crashed>>

\* and sets it;
shutdownSets(u) ==
  /\ Continues(u, {"checked"}, At("shutdownInLoop", call[u].k))
  /\ state_' = [state_ EXCEPT ![call[u].k] = "kDisconnecting"]
  /\ UNCHANGED <<clientVars, wrShut, ups, downs, connects, net, tasks, at, p, loopVars, crashed>>

\* Fault: shutdown queues nothing.
queuesForConnectorOnly(u) ==
  /\ Continues(u, {"startInLoop", "stopInLoop", "shutdownInLoop"}, Idle)
  /\ tasks' = IF call[u].k = NoAttempt THEN Append(tasks, Task(call[u].place, NoAttempt)) ELSE tasks
  /\ UNCHANGED <<clientVars, connVars, connects, net, at, p, loopVars, crashed>>

\* the task is queued, shutdownInLoop's with a bare this and before the mutex is free.
queues(u) ==
  /\ Continues(u, {"startInLoop", "stopInLoop", "shutdownInLoop"}, Idle)
  /\ tasks' = Append(tasks, Task(call[u].place, call[u].k))
  /\ UNCHANGED <<clientVars, connVars, connects, net, at, p, loopVars, crashed>>

\* A shared_ptr to the connection is held by connection_, by what the loop is in the
\* middle of, or by a task that was bound to one.
Held(k) ==
  \/ connection_ = k
  \/ at.k = k
  \/ Task("forceCloseInLoop", k) \in TaskSet
  \/ Task("connectDestroyed", k) \in TaskSet

Destroyed(k) == k \in ups /\ ~Held(k)

\* ~TcpClient while there is a connection, which is forced to close when no one
\* else holds it.  The one who destroys the client has to see to it, for the code
\* does not, that this happens in the loop's thread, with no call under way, no
\* task of the Connector queued, and a connection there.
destroyClient ==
  LET k == connection_
      unique == {Task("forceCloseInLoop", k), Task("connectDestroyed", k)} \cap TaskSet = {}
  IN
  /\ client = "alive"
  /\ at = Idle /\ ~dispatching
  /\ \A u \in User : call[u] = Idle
  /\ ConnectorTasks \cap TaskSet = {}
  /\ k # NoAttempt
  /\ client' = "gone"
  /\ connection_' = NoAttempt
  /\ IF unique /\ Runnable("forceClose", state_[k])
       THEN /\ state_' = [state_ EXCEPT ![k] = "kDisconnecting"]
            /\ tasks' = Append(tasks, Task("forceCloseInLoop", k))
       ELSE UNCHANGED <<state_, tasks>>
  /\ UNCHANGED <<connect_, connector, attempts, wrShut, ups, downs, userVars, net, at, p,
                 loopVars, crashed>>

\* The server's answer to an attempt, and the end of its side of a connection.
network(k) ==
  /\ k \in p.open
  /\ \/ net[k] = "dialing" /\ \E answer \in {"open", "refused"} : net' = [net EXCEPT ![k] = answer]
     \/ net[k] = "open" /\ \E end \in {"closed", "reset"} : net' = [net EXCEPT ![k] = end]
  /\ UNCHANGED <<clientVars, connVars, userVars, tasks, at, p, loopVars, crashed>>

-----------------------------------------------------------------------------

Tasks ==
  \/ runStartInLoop \/ stopInLoop \/ resetChannel
  \/ \E k \in Attempt : shutdownInLoop(k) \/ forceCloseInLoop(k) \/ connectDestroyed(k)

UserContinues(u) ==
  setsConnectorConnect(u) \/ disconnectLocks(u) \/ shutdownSets(u) \/ queues(u)

Continue ==
  \/ restart
  \/ \E k \in Attempt :
       connectEstablished(k) \/ saysUp(k) \/ saysDown(k) \/ removeConnection(k)

Loop ==
  \/ poll \/ swapFunctors
  \/ \E k \in Attempt :
       \/ handleError(k) \/ handleWriteFails(k) \/ handleWrite(k)
       \/ handleEventStays(k) \/ handleEventCloses(k)
  \/ Continue
  \/ Tasks

Next ==
  /\ ~crashed
  /\ usage' = usage
  /\ \/ Loop
     \/ \E k \in Attempt : network(k)
     \/ \E u \in User :
          UserContinues(u) \/ \E op \in usage.remote : setsConnect(u, op)
     \/ destroyClient

Spec == Init /\ [][Next]_vars

\* The loop runs on, until the process crashes: every iteration dispatches and then
\* runs its functors (EventLoop.cc:70-88).  A channel that stays ready is reported,
\* as the poller is level triggered, and the bytes in front of a FIN are finite.
\* A user's thread ends the call it began.
Runs(A) == ~crashed /\ usage' = usage /\ A

Fairness ==
  /\ WF_vars(Runs(Loop))
  /\ \A k \in Attempt :
       /\ SF_vars(Runs(poll /\ Conn(k) \in active'))
       /\ SF_vars(Runs(handleEventCloses(k)))
  /\ \A u \in User : WF_vars(Runs(UserContinues(u)))

FairSpec == Spec /\ Fairness

-----------------------------------------------------------------------------
(* Properties *)

\* Every variable has its type.  (Connector.h:48-55, TcpClient.h:45-60)
TypeOK ==
  /\ usage \in Usages
  /\ client \in {"alive", "gone"}
  /\ connect_ \in BOOLEAN
  /\ connection_ \in 0..attempts
  /\ connector \in [connect_ : BOOLEAN, channel_ : 0..attempts,
                    state_ : {"kDisconnected", "kConnecting", "kConnected"}]
  /\ attempts \in 0..MaxAttempts
  /\ net \in [Attempt -> {"none", "dialing", "open", "refused", "closed", "reset"}]
  /\ state_ \in [Attempt -> {"kConnecting", "kConnected", "kDisconnecting", "kDisconnected"}]
  /\ wrShut \subseteq ups
  /\ p \in Poller!Pollers
  /\ active \subseteq {"dial", "conn"} \X Attempt
  /\ erring \subseteq Attempt
  /\ batch \in 0..Len(tasks)
  /\ ups \subseteq 1..attempts
  /\ connects \in 0..MaxConnects

\* The poller and the kernel agree and no epoll_ctl fails, although two channels
\* are registered in turn for every socket: the Connector's has left before the
\* TcpConnection's comes.
PollerIsConsistent == Poller!Consistent(p) /\ p.failed = {}

\* Every channel that the kernel or the dispatch can still report exists: the
\* Connector's, which a queued task deletes, and that of a connection, which goes
\* with the last shared_ptr.
NoDanglingChannel ==
  \A k \in Attempt :
    /\ (p.ptr[k] = Dial(k) \/ Dial(k) \in active) =>
         client = "alive" /\ connector.channel_ = k
    /\ (p.ptr[k] = Conn(k) \/ Conn(k) \in active) => ~Destroyed(k)

\* The process survives every order of events, calls and tasks, unless the attempt
\* under way has failed: handleError ends it, or a stop after a handleWrite that
\* found SO_ERROR set, when stopInLoop finds channel_ empty.  A connection that came
\* up never ends it, nor does a stop of an attempt that can still succeed.
OnlyFailedAttemptsCrash ==
  crashed => attempts \in Attempt /\ Broken(attempts) /\ attempts \notin ups

\* The task that disconnect queues holds a bare this, yet never outlives its
\* connection: the close callback needs the mutex that disconnect still holds, and
\* queues the last owner behind that task.
NoTaskOfDestroyed ==
  \A k \in Attempt : Task("shutdownInLoop", k) \in TaskSet => ~Destroyed(k)

\* Every connection is reported up once and down at most once.
UpThenDownOnce == \A k \in Attempt : downs[k] <= IF k \in ups THEN 1 ELSE 0

\* An attempt that goes on although the Connector was told to stop has the task that
\* ends it in front of it: a stop is not lost between startInLoop's test of
\* connect_ and the attempt, nor overtaken by a start that was called before it.
StoppedAttemptEnds ==
  (connector.state_ = "kConnecting" /\ ~connector.connect_) =>
    \/ Task("stopInLoop", NoAttempt) \in TaskSet
    \/ \E u \in User : call[u].place = "stopInLoop"

\* The client attempts one connection at a time, and none while one is up.
Up == \E k \in ups : downs[k] = 0

Session == INSTANCE ClientSession WITH
  phase <- IF Up THEN "up"
           ELSE IF connector.state_ = "kConnecting" \/ at.place \in {"establishing", "up"}
             THEN "dialing" ELSE "idle",
  asked <- at.place = "restarting" \/ Task("startInLoop", NoAttempt) \in TaskSet

OneAtATime == Session!Spec

\* A connection whose other end has closed or failed is destroyed in the end, while
\* the client reconnects, is stopped or is itself destroyed.
ClosedIsDestroyed ==
  \A k \in Attempt : (k \in ups /\ net[k] # "open") ~> (Destroyed(k) \/ crashed)

\* A disconnect that found the connection up ends its writing side, or the
\* connection goes down by itself.
DisconnectShutsDown ==
  \A k \in Attempt :
    (\E u \in User : call[u] = At("checked", k)) ~> (k \in wrShut \/ downs[k] > 0 \/ crashed)
=============================================================================
