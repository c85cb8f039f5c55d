------------------------ MODULE ConnectionLifecycle ------------------------
(***************************************************************************)
(* A TcpServer and its TcpConnections, from accept to destruction.  Three  *)
(* kinds of threads share a connection: the base loop's, which owns the    *)
(* map connections_; the I/O loop's, which owns the channels; and users'   *)
(* threads, which got a shared_ptr in the connection callback.             *)
(*                                                                         *)
(* A loop appears as what EventLoop is proved to implement (TaskQueue): a  *)
(* queue of tasks, started one at a time and in order.  The I/O loop takes *)
(* them in batches, one after each dispatch.  An I/O callback or a task is *)
(* one step: what other threads can see of it is the atomic state_,        *)
(* written once, and the tasks it queues.  A user's call is three steps,   *)
(* because state_ is read, then written, then the task queued.             *)
(*                                                                         *)
(* The sockets carry no data here: outputBuffer_ never has readable bytes  *)
(* (Buffer::append), so handleWrite changes nothing.                       *)
(*                                                                         *)
(* A task bound to a bare `this' may run when its connection is destroyed. *)
(* What it reads then is what the object left, one of the values freed     *)
(* memory can have; NoTaskOfDestroyed is about the task itself.            *)
(***************************************************************************)
EXTENDS Naturals, Sequences

CONSTANTS
  Conn,       \* the connections, each with a descriptor of its own
  NoConn,
  User,       \* the user's threads
  Usages,     \* the ways the library is used, of which each behavior has one:
              \*   sameLoop  numThreads_ = 0, the base loop is the I/O loop as well
              \*   remote    what users' threads call
              \*   local     what the user's callbacks call, in the I/O loop's thread
              \*   stops     whether the server is destroyed
  MaxTasks    \* bound on the tasks a loop has when a user begins a call

Operations == {"send", "shutdown", "forceClose"}

ASSUME LifecycleAssumption ==
  /\ NoConn \notin Conn
  /\ Usages \subseteq [sameLoop : BOOLEAN, remote : SUBSET Operations,
                       local : SUBSET Operations, stops : BOOLEAN]
  /\ MaxTasks \in Nat

VARIABLES
  usage,         \* one of Usages, which never changes
  server,        \* "up", "stopping" or "quitting" in its destructor, or "gone"
  made,          \* the connections that have been constructed
  state_,
  connections_,  \* the server's map
  baseTasks,     \* tasks of the base loop, if it is not the I/O loop
  ioTasks,       \* tasks of the I/O loop
  p,             \* the I/O loop's poller
  stage, active, \* where it is ("wait", "dispatch" or "functors"), and the active
                 \* channels it has not handled yet
  batch,         \* the tasks of the batch it has not started yet
  peer,          \* the other end: "open", "closed" (FIN came in) or "reset"
  wrShut,        \* the connections on which shutdownWrite was called
  held,          \* held[u]: the connections to which user thread u has a shared_ptr
  call,          \* call[u]: the call of a member function u is in
  ups, downs     \* how often the connection callback found the connection up, down

loopVars == <<stage, active, batch>>
vars == <<usage, server, made, state_, connections_, baseTasks, ioTasks, p, loopVars,
          peer, wrShut, held, call, ups, downs>>

Poller == INSTANCE EPollPoller WITH
  Channel <- Conn, Fd <- Conn, NoChannel <- NoConn, FdOf <- [c \in Conn |-> c]

Idle == [at |-> "idle"]

Task(op, c) == [op |-> op, conn |-> c]

\* A task that was bound to shared_from_this() or to a TcpConnectionPtr keeps
\* the connection; one bound to a bare `this' does not.
Owns(task) == task.op \notin {"sendInLoop", "shutdownInLoop"}

TasksOf(tasks) == {tasks[i] : i \in DOMAIN tasks}

\* The last shared_ptr to c is gone: ~TcpConnection has run, and with it
\* ~Channel, and ~Socket, which closes the descriptor.
Destroyed(c) ==
  /\ c \in made
  /\ c \notin connections_
  /\ \A u \in User : c \notin held[u]
  /\ \A task \in TasksOf(baseTasks) \cup TasksOf(ioTasks) : Owns(task) => task.conn # c

\* epoll_ctl failed to add or to modify: LOG_FATAL has ended the process.
exited == p.failed \cap {Poller!EPOLL_CTL_ADD, Poller!EPOLL_CTL_MOD} # {}

Init ==
  /\ usage \in Usages
  /\ server = "up"
  /\ made = {}
  /\ state_ = [c \in Conn |-> "kConnecting"]
  /\ connections_ = {}
  /\ baseTasks = <<>>
  /\ ioTasks = <<>>
  /\ p = [Poller!NewPoller EXCEPT !.open = Conn]
  /\ stage = "functors"
  /\ active = {}
  /\ batch = 0
  /\ peer = [c \in Conn |-> "open"]
  /\ wrShut = {}
  /\ held = [u \in User |-> {}]
  /\ call = [u \in User |-> Idle]
  /\ ups = [c \in Conn |-> 0]
  /\ downs = [c \in Conn |-> 0]

\* The test of state_ that opens each member function.
Runnable(c, op, st) ==
  st \in IF op = "forceClose" THEN {"kConnected", "kDisconnecting"} ELSE {"kConnected"}

Count(n) == IF n < 2 THEN n + 1 ELSE n

-----------------------------------------------------------------------------
(* TcpConnection, in the I/O loop's thread *)

\* Fault: the channel stays in the poller.
connectDestroyedKeepsChannel(c, q) ==
  /\ state_' = [state_ EXCEPT ![c] = "kDisconnected"]
  /\ downs' = IF state_[c] = "kConnected" THEN [downs EXCEPT ![c] = Count(@)] ELSE downs
  /\ p' = IF state_[c] = "kConnected" THEN Poller!disableAll(q, c) ELSE q

\* Fault: the callback runs whatever state_ is.
connectDestroyedUnchecked(c, q) ==
  /\ state_' = [state_ EXCEPT ![c] = "kDisconnected"]
  /\ p' = Poller!removeChannel(Poller!disableAll(q, c), c)
  /\ downs' = [downs EXCEPT ![c] = Count(@)]

\* connectDestroyed on poller q.
connectDestroyed(c, q) ==
  /\ IF state_[c] = "kConnected"
       THEN /\ state_' = [state_ EXCEPT ![c] = "kDisconnected"]
            /\ p' = Poller!removeChannel(Poller!disableAll(q, c), c)
            /\ downs' = [downs EXCEPT ![c] = Count(@)]
       ELSE /\ p' = Poller!removeChannel(q, c)
            /\ UNCHANGED <<state_, downs>>

\* The close callback, TcpServer::removeConnection, on poller q: in the base
\* loop's thread it takes the connection out of the map and destroys it at once.
closeCallback(c, q) ==
  IF usage.sameLoop
    THEN /\ connections_' = connections_ \ {c}
         /\ p' = Poller!removeChannel(q, c)
         /\ UNCHANGED baseTasks
    ELSE /\ p' = q
         /\ baseTasks' = Append(baseTasks, Task("removeConnectionInLoop", c))
         /\ UNCHANGED connections_

\* Fault: setState(kDisconnected) is missing.
handleCloseKeepsState(c) ==
  /\ downs' = [downs EXCEPT ![c] = Count(@)]
  /\ closeCallback(c, Poller!disableAll(p, c))
  /\ UNCHANGED state_

handleClose(c) ==
  /\ state_' = [state_ EXCEPT ![c] = "kDisconnected"]
  /\ downs' = [downs EXCEPT ![c] = Count(@)]
  /\ closeCallback(c, Poller!disableAll(p, c))

\* Poller q to a call for c: the descriptor of a connection that is gone is closed.
Kernel(c, q) == IF Destroyed(c) THEN Poller!Close(q, c) ELSE q

\* Fault: the test of state_ is missing.
sendInLoopUnchecked(c, st, q) ==
  {q} \cup IF /\ peer[c] # "reset" /\ c \notin wrShut
             /\ ~Poller!isWriteing(q, c)
             THEN {Poller!enableWriteing(Kernel(c, q), c)} ELSE {}

\* sendInLoop: the pollers it may leave.  What the socket does not take is left
\* to handleWrite, unless the write failed with EPIPE or ECONNRESET.
sendInLoop(c, st, q) ==
  {q} \cup IF /\ st # "kDisconnected"
             /\ peer[c] # "reset" /\ c \notin wrShut
             /\ ~Poller!isWriteing(q, c)
             THEN {Poller!enableWriteing(Kernel(c, q), c)} ELSE {}

shutdownInLoop(c, q) == IF Poller!isWriteing(q, c) THEN wrShut ELSE wrShut \cup {c}

\* The user's message or connection callback, called with c's state_ st, poller q
\* and the loop's tasks, calls one of c's member functions or none.  send and
\* shutdown run in place, forceClose queues.
callback(c, st, q, tasks) ==
  \/ /\ state_' = [state_ EXCEPT ![c] = st]
     /\ p' = q
     /\ ioTasks' = tasks
     /\ UNCHANGED wrShut
  \/ /\ "send" \in usage.local /\ Runnable(c, "send", st)
     /\ p' \in sendInLoop(c, st, q)
     /\ state_' = [state_ EXCEPT ![c] = st]
     /\ ioTasks' = tasks
     /\ UNCHANGED wrShut
  \/ /\ "shutdown" \in usage.local /\ Runnable(c, "shutdown", st)
     /\ state_' = [state_ EXCEPT ![c] = "kDisconnecting"]
     /\ wrShut' = shutdownInLoop(c, q)
     /\ p' = q
     /\ ioTasks' = tasks
  \/ /\ "forceClose" \in usage.local /\ Runnable(c, "forceClose", st)
     /\ Len(tasks) < MaxTasks
     /\ state_' = [state_ EXCEPT ![c] = "kDisconnecting"]
     /\ ioTasks' = Append(tasks, Task("forceCloseInLoop", c))
     /\ p' = q
     /\ UNCHANGED wrShut

\* connectEstablished, when the loop's other tasks are tasks.  The connection
\* callback gives the users' threads c.
connectEstablished(c, tasks) ==
  /\ callback(c, "kConnected", Poller!enableReading(p, c), tasks)
  /\ ups' = [ups EXCEPT ![c] = Count(@)]
  /\ held' = [u \in User |-> held[u] \cup {c}]

-----------------------------------------------------------------------------
(* The I/O loop *)

\* Both directions are shut down: EPOLLHUP, which needs no interest.
HungUp(c) == peer[c] = "reset" \/ (peer[c] = "closed" /\ c \in wrShut)

\* A closed descriptor is in no interest list.
Ready(c) == p.ptr[c] = c /\ ~Destroyed(c) /\ (p.mask[c] # {} \/ HungUp(c))

\* epoll_wait returns, with some of the ready channels, for a wake-up or at its
\* timeout.
poll ==
  /\ stage = "wait"
  /\ stage' = "dispatch"
  /\ active' \in SUBSET {c \in Conn : Ready(c)}
  /\ UNCHANGED <<server, made, state_, connections_, baseTasks, ioTasks, p, batch, peer,
                 wrShut, held, call, ups, downs>>

\* The events are handled: doPendingFunctors swaps.
swapFunctors ==
  /\ stage = "dispatch" /\ active = {}
  /\ stage' = "functors"
  /\ batch' = Len(ioTasks)
  /\ UNCHANGED <<server, made, state_, connections_, baseTasks, ioTasks, p, active, peer,
                 wrShut, held, call, ups, downs>>

\* The batch is done, quit_ is not set.  The base loop has ended when the server is
\* destroyed.
loopPolls ==
  /\ stage = "functors" /\ batch = 0
  /\ server = "up" \/ (server = "stopping" /\ ~usage.sameLoop)
  /\ stage' = "wait"
  /\ UNCHANGED <<server, made, state_, connections_, baseTasks, ioTasks, p, active, batch,
                 peer, wrShut, held, call, ups, downs>>

\* The next of the dispatched channels is c's.
Handles(c) ==
  /\ c \in active
  /\ active' = active \ {c}
  /\ UNCHANGED <<stage, batch>>

\* Channel::handleEvent with readable data, an error or room to write, after
\* which the connection stays.  When tie_ finds the connection gone, nothing.
handleEventStays(c) ==
  /\ Handles(c)
  /\ callback(c, state_[c], p, ioTasks)
  /\ Destroyed(c) => UNCHANGED <<state_, p, ioTasks, wrShut>>
  /\ UNCHANGED <<server, made, connections_, baseTasks, peer, held, call, ups, downs>>

\* Channel::handleEvent that ends in handleClose: read() returned 0, or there
\* was a hang-up and nothing to read.
handleEventCloses(c) ==
  /\ Handles(c) /\ ~Destroyed(c)
  /\ IF "read" \in p.mask[c] THEN peer[c] # "open" ELSE HungUp(c)
  /\ handleClose(c)
  /\ UNCHANGED <<server, made, ioTasks, peer, wrShut, held, call, ups>>

\* The I/O loop starts its oldest task.
Starts(op, c) ==
  /\ batch > 0
  /\ batch' = batch - 1
  /\ Head(ioTasks) = Task(op, c)
  /\ UNCHANGED <<stage, active>>

runConnectEstablished(c) ==
  /\ Starts("connectEstablished", c)
  /\ connectEstablished(c, Tail(ioTasks))
  /\ UNCHANGED <<server, made, connections_, baseTasks, peer, call, downs>>

runConnectDestroyed(c) ==
  /\ Starts("connectDestroyed", c)
  /\ ioTasks' = Tail(ioTasks)
  /\ connectDestroyed(c, p)
  /\ UNCHANGED <<server, made, connections_, baseTasks, peer, wrShut, held, call, ups>>

runSendInLoop(c) ==
  /\ Starts("sendInLoop", c)
  /\ ioTasks' = Tail(ioTasks)
  /\ p' \in sendInLoop(c, state_[c], p)
  /\ UNCHANGED <<server, made, state_, connections_, baseTasks, peer, wrShut, held,
                 call, ups, downs>>

runShutdownInLoop(c) ==
  /\ Starts("shutdownInLoop", c)
  /\ ioTasks' = Tail(ioTasks)
  /\ wrShut' = shutdownInLoop(c, p)
  /\ UNCHANGED <<server, made, state_, connections_, baseTasks, p, peer, held, call,
                 ups, downs>>

\* Fault: kDisconnecting, which forceClose itself has set, is not let through.
forceCloseInLoopIfConnected(c) ==
  /\ Starts("forceCloseInLoop", c)
  /\ ioTasks' = Tail(ioTasks)
  /\ IF state_[c] = "kConnected"
       THEN handleClose(c)
       ELSE UNCHANGED <<state_, downs, connections_, p, baseTasks>>
  /\ UNCHANGED <<server, made, peer, wrShut, held, call, ups>>

forceCloseInLoop(c) ==
  /\ Starts("forceCloseInLoop", c)
  /\ ioTasks' = Tail(ioTasks)
  /\ IF Runnable(c, "forceClose", state_[c])
       THEN handleClose(c)
       ELSE UNCHANGED <<state_, downs, connections_, p, baseTasks>>
  /\ UNCHANGED <<server, made, peer, wrShut, held, call, ups>>

-----------------------------------------------------------------------------
(* TcpServer, in the base loop's thread *)

\* Fault: the map gets its entry and the connection is never made.
newConnectionMapsNull(c) ==
  /\ c \notin made \cup connections_
  /\ connections_' = connections_ \cup {c}
  /\ UNCHANGED <<server, made, state_, baseTasks, ioTasks, p, loopVars, peer, wrShut, held,
                 call, ups, downs>>

\* newConnection, from an event of the acceptor's channel.
newConnection(c) ==
  /\ server = "up" /\ (usage.sameLoop => stage = "dispatch")
  /\ c \notin made
  /\ made' = made \cup {c}
  /\ connections_' = connections_ \cup {c}
  /\ IF usage.sameLoop
       THEN connectEstablished(c, ioTasks)
       ELSE /\ ioTasks' = Append(ioTasks, Task("connectEstablished", c))
            /\ UNCHANGED <<state_, p, wrShut, ups, held>>
  /\ UNCHANGED <<server, baseTasks, loopVars, peer, call, downs>>

\* Fault: the connection stays in the map.
removeConnectionInLoopKeeps(c) ==
  /\ baseTasks # <<>>
  /\ Head(baseTasks) = Task("removeConnectionInLoop", c)
  /\ baseTasks' = Tail(baseTasks)
  /\ ioTasks' = Append(ioTasks, Task("connectDestroyed", c))
  /\ UNCHANGED <<server, made, state_, connections_, p, loopVars, peer, wrShut, held, call, ups,
                 downs>>

removeConnectionInLoop(c) ==
  /\ server = "up"
  /\ baseTasks # <<>>
  /\ Head(baseTasks) = Task("removeConnectionInLoop", c)
  /\ baseTasks' = Tail(baseTasks)
  /\ connections_' = connections_ \ {c}
  /\ ioTasks' = Append(ioTasks, Task("connectDestroyed", c))
  /\ UNCHANGED <<server, made, state_, p, loopVars, peer, wrShut, held, call, ups, downs>>

\* The base loop has ended and its thread begins to destroy the server, as the end
\* of a main function does.  No user is in a call then, or makes one later: the
\* code does not see to that.
stopServer ==
  /\ usage.stops
  /\ server = "up"
  /\ usage.sameLoop => stage = "functors" /\ batch = 0
  /\ \A u \in User : call[u] = Idle
  /\ server' = "stopping"
  /\ UNCHANGED <<made, state_, connections_, baseTasks, ioTasks, p, loopVars, peer, wrShut,
                 held, call, ups, downs>>

\* Fault: connectDestroyed is queued although the loop is this thread's.
stopConnectionLater(c) ==
  /\ server = "stopping"
  /\ c \in connections_
  /\ connections_' = connections_ \ {c}
  /\ ioTasks' = Append(ioTasks, Task("connectDestroyed", c))
  /\ UNCHANGED <<server, made, state_, p, downs, baseTasks, loopVars, peer, wrShut, held,
                 call, ups>>

\* One round of the loop in ~TcpServer.
stopConnection(c) ==
  /\ server = "stopping"
  /\ c \in connections_
  /\ connections_' = connections_ \ {c}
  /\ IF usage.sameLoop
       THEN connectDestroyed(c, p) /\ UNCHANGED ioTasks
       ELSE /\ ioTasks' = Append(ioTasks, Task("connectDestroyed", c))
            /\ UNCHANGED <<state_, p, downs>>
  /\ UNCHANGED <<server, made, baseTasks, loopVars, peer, wrShut, held, call, ups>>

\* ~EventLoopThreadPool: the I/O loop, if there is one, is told to quit.
quitLoops ==
  /\ server = "stopping"
  /\ connections_ = {}
  /\ server' = IF usage.sameLoop THEN "gone" ELSE "quitting"
  /\ UNCHANGED <<made, state_, connections_, baseTasks, ioTasks, p, loopVars, peer, wrShut,
                 held, call, ups, downs>>

\* The I/O loop sees quit_ after its batch.  It goes with the tasks that have come
\* since, and the server's destructor, which has waited for it, ends.
loopEnds ==
  /\ server = "quitting"
  /\ stage = "functors" /\ batch = 0
  /\ server' = "gone"
  /\ ioTasks' = <<>>
  /\ UNCHANGED <<made, state_, connections_, baseTasks, p, loopVars, peer, wrShut, held,
                 call, ups, downs>>

-----------------------------------------------------------------------------
(* Users' threads, and the other ends *)

\* send, shutdown and forceClose: first the test of state_,
callChecks(u, c, op) ==
  /\ server = "up"
  /\ Len(ioTasks) < MaxTasks /\ Len(baseTasks) < MaxTasks
  /\ call[u] = Idle
  /\ c \in held[u]
  /\ op \in usage.remote
  /\ Runnable(c, op, state_[c])
  /\ call' = [call EXCEPT ![u] = [at |-> IF op = "send" THEN "set" ELSE "checked",
                                  op |-> op, conn |-> c]]
  /\ UNCHANGED <<server, made, state_, connections_, baseTasks, ioTasks, p, loopVars, peer,
                 wrShut, held, ups, downs>>

\* then setState(kDisconnecting), except in send,
callSets(u) ==
  /\ call[u].at = "checked"
  /\ state_' = [state_ EXCEPT ![call[u].conn] = "kDisconnecting"]
  /\ call' = [call EXCEPT ![u].at = "set"]
  /\ UNCHANGED <<server, made, connections_, baseTasks, ioTasks, p, loopVars, peer, wrShut,
                 held, ups, downs>>

\* then runInLoop or queueInLoop.
callQueues(u) ==
  LET op == call[u].op IN
  /\ call[u].at = "set"
  /\ ioTasks' = Append(ioTasks, Task(CASE op = "send"       -> "sendInLoop"
                                       [] op = "shutdown"   -> "shutdownInLoop"
                                       [] op = "forceClose" -> "forceCloseInLoop",
                                     call[u].conn))
  /\ call' = [call EXCEPT ![u] = Idle]
  /\ UNCHANGED <<server, made, state_, connections_, baseTasks, p, loopVars, peer, wrShut,
                 held, ups, downs>>

\* u drops its shared_ptr.
release(u, c) ==
  /\ call[u] = Idle
  /\ c \in held[u]
  /\ held' = [held EXCEPT ![u] = @ \ {c}]
  /\ UNCHANGED <<server, made, state_, connections_, baseTasks, ioTasks, p, loopVars, peer,
                 wrShut, call, ups, downs>>

peerCloses(c) ==
  /\ c \in made
  /\ peer[c] = "open"
  /\ \E how \in {"closed", "reset"} : peer' = [peer EXCEPT ![c] = how]
  /\ UNCHANGED <<server, made, state_, connections_, baseTasks, ioTasks, p, loopVars, wrShut,
                 held, call, ups, downs>>

-----------------------------------------------------------------------------

IoLoop(c) ==
  \/ handleEventStays(c) \/ handleEventCloses(c)
  \/ runConnectEstablished(c) \/ runConnectDestroyed(c)
  \/ runSendInLoop(c) \/ runShutdownInLoop(c) \/ forceCloseInLoop(c)

Users(u) ==
  \/ \E c \in Conn : release(u, c) \/ \E op \in usage.remote : callChecks(u, c, op)
  \/ callSets(u)
  \/ callQueues(u)

Loop ==
  \/ poll \/ swapFunctors \/ loopPolls \/ loopEnds
  \/ \E c \in Conn : IoLoop(c)

StopServer ==
  \/ stopServer \/ quitLoops
  \/ \E c \in Conn : stopConnection(c)

Next ==
  /\ ~exited
  /\ usage' = usage
  /\ \/ Loop
     \/ \E c \in Conn : newConnection(c) \/ removeConnectionInLoop(c) \/ peerCloses(c)
     \/ \E u \in User : Users(u)
     \/ StopServer

Spec == Init /\ [][Next]_vars

\* The loops keep running: every iteration polls, dispatches and runs a batch
\* (EventLoop.cc:70-88).  The poller, which is level triggered, reports a channel
\* that stays ready, and the bytes in front of a FIN are finite.  A thread ends the
\* calls it began and, this is assumed of the user, drops its shared_ptr some day.
Of(A) == ~exited /\ usage' = usage /\ A

Fairness ==
  /\ WF_vars(Of(Loop))
  /\ \A c \in Conn :
       /\ SF_vars(Of(poll /\ c \in active'))
       /\ SF_vars(Of(handleEventCloses(c)))
       /\ WF_vars(Of(removeConnectionInLoop(c)))
  /\ \A u \in User :
       /\ WF_vars(Of(callSets(u) \/ callQueues(u)))
       /\ \A c \in Conn : SF_vars(Of(release(u, c)))

FairSpec == Spec /\ Fairness

-----------------------------------------------------------------------------
(* Properties *)

States == {"kConnecting", "kConnected", "kDisconnecting", "kDisconnected"}

Tasks == [op : {"connectEstablished", "connectDestroyed", "removeConnectionInLoop",
                "sendInLoop", "shutdownInLoop", "forceCloseInLoop"},
          conn : Conn]

\* Every variable has its type.  (TcpConnection.h:79-100, TcpServer.h)
TypeOK ==
  /\ usage \in Usages
  /\ server \in {"up", "stopping", "quitting", "gone"}
  /\ made \subseteq Conn
  /\ state_ \in [Conn -> States]
  /\ connections_ \subseteq made
  /\ baseTasks \in Seq(Tasks)
  /\ ioTasks \in Seq(Tasks)
  /\ p \in Poller!Pollers
  /\ stage \in {"wait", "dispatch", "functors"}
  /\ active \subseteq made
  /\ batch \in 0..Len(ioTasks)
  /\ peer \in [Conn -> {"open", "closed", "reset"}]
  /\ wrShut \subseteq made
  /\ held \in [User -> SUBSET made]
  /\ \A u \in User : call[u] # Idle => call[u].conn \in held[u]
  /\ ups \in [Conn -> 0..2]
  /\ downs \in [Conn -> 0..2]

\* A connection is destroyed only after its channel has left the poller: the
\* kernel and the active list hold no pointer to a channel that is gone.  It holds
\* while the server is destroyed, too, for as long as the loop exists.
NoDanglingChannel ==
  server # "gone" \/ usage.sameLoop =>
    \A c \in Conn : Destroyed(c) => p.index[c] = Poller!kNew /\ p.ptr[c] # c /\ c \notin active

\* A channel that connectDestroyed has taken out of the poller stays out: what other
\* threads have queued, or still queue, updates it no more, neither while somebody
\* holds the connection (the channel would outlive its removal and dangle) nor when
\* it is destroyed and its descriptor closed.  (TcpConnection.cc:124-135, 223-233)
RemovedStaysOut ==
  [][\A c \in Conn :
       ups[c] > 0 /\ p.index[c] = Poller!kNew => p'.index[c] = Poller!kNew]_vars

\* A connection that can still be used is in the server's map.
ConnectedIsListed ==
  server = "up" => \A c \in Conn : state_[c] = "kConnected" => c \in connections_

\* What a user may rely on: the connection callback says up, then down, each once;
\* while the server is up a connection is destroyed only after it has said down,
\* and one that is destroyed stays so and says nothing more, whatever calls and
\* tasks are under way.  (TcpConnection.cc:115-135, 197-206, TcpServer.cc:41-53)
Session == INSTANCE ServerSession WITH
  gone    <- {c \in Conn : Destroyed(c)},
  serving <- server = "up"

OneLifeEach == Session!Spec

\* A connection whose other end has closed or failed is destroyed in the end: the
\* close is seen, the connection leaves the map and its channel the poller, once
\* and whatever calls are under way.
GoneIsDestroyed ==
  \A c \in Conn : (c \in made /\ peer[c] # "open") ~> Destroyed(c)

\* forceClose closes: after it has been called, or has been queued, the connection
\* callback says down, although forceClose itself has moved state_ on.
ForceCloseCloses ==
  \A c \in Conn :
    (Task("forceCloseInLoop", c) \in TasksOf(ioTasks)) ~> (downs[c] > 0)

\* A connection that was reported down says that it is disconnected
\* (TcpConnection.h:36-37).
DownIsDisconnected ==
  \A c \in Conn : downs[c] > 0 => state_[c] = "kDisconnected"

\* TcpConnection inherits enable_shared_from_this so that whoever still needs a
\* connection holds a shared_ptr to it (TcpConnection.h:15-18): no task is left
\* for a connection that is gone.
NoTaskOfDestroyed ==
  \A task \in TasksOf(ioTasks) : ~Destroyed(task.conn)

\* When the server is gone and had one loop, none of its connections still takes
\* itself for connected.  One that was already kDisconnecting is destroyed without
\* saying down: connectDestroyed reports only kConnected (TcpConnection.cc:126).
OneLoopStopsAll ==
  server = "gone" /\ usage.sameLoop => \A c \in Conn : state_[c] # "kConnected"

\* ~TcpServer destroys the connections (TcpServer.cc:45-52).
StopDestroysConnections ==
  server = "gone" => \A c \in Conn : state_[c] # "kConnected"
=============================================================================
