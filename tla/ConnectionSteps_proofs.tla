----------------------- MODULE ConnectionSteps_proofs -----------------------
(***************************************************************************)
(* The steps of ConnectionLifecycle one by one: what the operators of its  *)
(* poller, its task queues and TcpConnection do, that every step keeps the *)
(* types (Types), and what each step changes of the connection it is about *)
(* and that it changes nothing of the others (the lemmas ...Touches).      *)
(***************************************************************************)
EXTENDS ConnectionLifecycle, TLAPS

Facts == INSTANCE EPollPoller_proofs WITH
  Channel <- Conn, Fd <- Conn, NoChannel <- NoConn, FdOf <- [c \in Conn |-> c]

-----------------------------------------------------------------------------
(* The poller *)

kNew     == Poller!kNew
kAdded   == Poller!kAdded
kDeleted == Poller!kDeleted

\* A sound poller when every connection's descriptor is open.
Good(q) == Facts!Sound(q) /\ q.open = Conn

\* Of all channels, r differs from q in c's only.
OnlyOf(c, q, r) ==
  /\ Good(r)
  /\ \A d \in Conn \ {c} : r.index[d] = q.index[d] /\ r.events[d] = q.events[d]

\* The three values of index_ differ.
LEMMA Indices == kNew # kAdded /\ kNew # kDeleted /\ kAdded # kDeleted
BY DEF kNew, kAdded, kDeleted, Poller!kNew, Poller!kAdded, Poller!kDeleted

\* The two instances of EPollPoller have the same operators.
LEMMA SameIndices ==
  /\ Facts!kNew = kNew /\ Facts!kAdded = kAdded /\ Facts!kDeleted = kDeleted
  /\ Facts!Events = Poller!Events
  /\ Facts!Pollers = Poller!Pollers
BY DEF kNew, kAdded, kDeleted, Poller!kNew, Poller!kAdded, Poller!kDeleted,
       Facts!kNew, Facts!kAdded, Facts!kDeleted, Facts!Events, Poller!Events,
       Facts!Pollers, Poller!Pollers,
       Facts!EPOLL_CTL_ADD, Facts!EPOLL_CTL_MOD, Facts!EPOLL_CTL_DEL,
       Poller!EPOLL_CTL_ADD, Poller!EPOLL_CTL_MOD, Poller!EPOLL_CTL_DEL

\* Their update is the same,
LEMMA SameUpdate ==
  ASSUME NEW q, NEW op, NEW c
  PROVE  Facts!update(q, op, c) = Poller!update(q, op, c)
BY Zenon DEF Facts!update, Poller!update, Facts!WithEntry, Poller!WithEntry,
    Facts!WithoutEntry, Poller!WithoutEntry,
    Facts!EpollCtlSucceeds, Poller!EpollCtlSucceeds,
    Facts!EPOLL_CTL_ADD, Poller!EPOLL_CTL_ADD, Facts!EPOLL_CTL_DEL, Poller!EPOLL_CTL_DEL

\* and so are the changes of a channel's events,
LEMMA SameSetEvents ==
  ASSUME NEW q, NEW c, NEW E
  PROVE  Facts!setEvents(q, c, E) = Poller!setEvents(q, c, E)
<1> DEFINE s == [q EXCEPT !.events[c] = E]
<1>1. Facts!updateChannel(s, c) = Poller!updateChannel(s, c)
  BY SameUpdate, Zenon
  DEF Facts!updateChannel, Poller!updateChannel, Facts!set_index, Poller!set_index,
      Facts!kNew, Poller!kNew, Facts!kAdded, Poller!kAdded, Facts!kDeleted, Poller!kDeleted,
      Facts!EPOLL_CTL_ADD, Poller!EPOLL_CTL_ADD, Facts!EPOLL_CTL_DEL, Poller!EPOLL_CTL_DEL,
      Facts!EPOLL_CTL_MOD, Poller!EPOLL_CTL_MOD
<1> QED
  BY <1>1, Zenon DEF Facts!setEvents, Poller!setEvents

\* and removeChannel.
LEMMA SameRemoveChannel ==
  ASSUME NEW q, NEW c
  PROVE  Facts!removeChannel(q, c) = Poller!removeChannel(q, c)
<1> DEFINE e == [q EXCEPT !.channels_[[d \in Conn |-> d][c]] = NoConn]
<1>1. Facts!update(e, "del", c) = Poller!update(e, "del", c)
  BY SameUpdate
<1> DEFINE t == IF q.index[c] = Facts!kAdded THEN Facts!update(e, "del", c) ELSE e
           u == IF q.index[c] = Poller!kAdded THEN Poller!update(e, "del", c) ELSE e
<1>2. Facts!removeChannel(q, c) = [t EXCEPT !.index[c] = Facts!kNew]
  BY Zenon DEF Facts!removeChannel, Facts!set_index, Facts!EPOLL_CTL_DEL
<1>3. Poller!removeChannel(q, c) = [u EXCEPT !.index[c] = Poller!kNew]
  BY Zenon DEF Poller!removeChannel, Poller!set_index, Poller!EPOLL_CTL_DEL
<1> HIDE DEF e
<1>4. t = u
  <2>1. Facts!kAdded = Poller!kAdded
    BY SameIndices DEF kAdded
  <2> QED
    BY <1>1, <2>1, Zenon
<1> HIDE DEF t, u
<1> QED
  BY <1>2, <1>3, <1>4, SameIndices DEF kNew

\* What the lemmas about EPollPoller assume.
LEMMA FactsApply ==
  /\ Facts!PollerAssumption
  /\ \A q : Good(q) => \A c \in Conn : Facts!OwnsFd(q, c)
<1>1. Facts!PollerAssumption
  BY LifecycleAssumption DEF Facts!PollerAssumption
<1> QED
  BY <1>1 DEF Good, Facts!OwnsFd

\* In a sound poller the kernel has c's channel exactly when it is kAdded.
LEMMA GoodPoller ==
  ASSUME NEW q, Good(q)
  PROVE  /\ q \in Poller!Pollers /\ Poller!Consistent(q) /\ q.failed = {}
         /\ \A c \in Conn :
              /\ q.index[c] \in {kNew, kAdded, kDeleted}
              /\ q.events[c] \in SUBSET Poller!Events
              /\ q.index[c] = kAdded => q.ptr[c] = c /\ q.mask[c] = q.events[c]
              /\ q.index[c] # kAdded => q.ptr[c] # c /\ q.mask[c] = {}
<1>1. /\ q \in Poller!Pollers /\ q.failed = {}
      /\ Facts!Consistent(q)
      /\ \A c \in Conn : /\ q.ptr[c] # NoConn => q.ptr[c] = c
                         /\ q.ptr[c] = NoConn => q.mask[c] = {}
  <2>1. q \in Facts!Pollers /\ Facts!Consistent(q) /\ q.failed = {}
    BY DEF Good, Facts!Sound
  <2>2. ASSUME NEW c \in Conn
        PROVE  /\ q.ptr[c] # NoConn => [d \in Conn |-> d][q.ptr[c]] = c
               /\ q.ptr[c] = NoConn => q.mask[c] = {}
               /\ q.ptr[c] \in Conn \cup {NoConn}
    BY <2>1 DEF Good, Facts!Sound, Facts!Pollers
  <2> QED
    BY <2>1, <2>2, SameIndices
<1>2. Poller!Consistent(q)
  BY <1>1, Zenon DEF Facts!Consistent, Poller!Consistent, Facts!kNew, Poller!kNew, Facts!kAdded,
    Poller!kAdded
<1>3. ASSUME NEW c \in Conn
      PROVE  /\ q.index[c] = kAdded => q.ptr[c] = c /\ q.mask[c] = q.events[c]
             /\ q.index[c] # kAdded => q.ptr[c] # c /\ q.mask[c] = {}
  BY <1>1, <1>2, LifecycleAssumption DEF Poller!Consistent, kAdded
<1>4. ASSUME NEW c \in Conn
      PROVE  q.index[c] \in {kNew, kAdded, kDeleted} /\ q.events[c] \in SUBSET Poller!Events
  BY <1>1 DEF Poller!Pollers, kNew, kAdded, kDeleted
<1> QED
  BY <1>1, <1>2, <1>3, <1>4

\* A channel that sets its events is added to the interest list, or stays in it, or
\* leaves it when it asks for none.
LEMMA SetEvents ==
  ASSUME NEW q, Good(q), NEW c \in Conn, NEW E \in SUBSET Poller!Events,
         NEW r, r = Poller!setEvents(q, c, E)
  PROVE  /\ OnlyOf(c, q, r)
         /\ r.events[c] = E
         /\ r.index[c] = IF q.index[c] = kAdded /\ E = {} THEN kDeleted ELSE kAdded
<1>1. /\ Facts!Sound(q) /\ Facts!OwnsFd(q, c) /\ Facts!PollerAssumption
      /\ E \in SUBSET Facts!Events /\ r = Facts!setEvents(q, c, E)
  BY FactsApply, SameIndices, SameSetEvents DEF Good
<1>2. /\ Facts!Sound(r) /\ Facts!ChangesOnly(c, q, r)
      /\ \A d \in Conn : r.events[d] = IF d = c THEN E ELSE q.events[d]
      /\ r.index[c] = IF q.index[c] = Facts!kAdded /\ E = {} THEN Facts!kDeleted ELSE Facts!kAdded
  BY <1>1, Facts!SetEventsSound
<1> QED
  BY <1>2, SameIndices DEF Good, OnlyOf, Facts!ChangesOnly

\* disableAll of a channel that is kDeleted, or not in the poller, adds it.
LEMMA DisableAll ==
  ASSUME NEW q, Good(q), NEW c \in Conn,
         NEW r, r = Poller!disableAll(q, c)
  PROVE  /\ OnlyOf(c, q, r)
         /\ r.events[c] = {}
         /\ r.index[c] = IF q.index[c] = kAdded THEN kDeleted ELSE kAdded
<1>1. r = Poller!setEvents(q, c, {})
  BY DEF Poller!disableAll
<1> QED
  BY <1>1, SetEvents

\* A channel that asks for read events is in the interest list afterwards.
LEMMA EnableReading ==
  ASSUME NEW q, Good(q), NEW c \in Conn,
         NEW r, r = Poller!enableReading(q, c)
  PROVE  /\ OnlyOf(c, q, r)
         /\ r.events[c] = q.events[c] \cup {"read"}
         /\ r.index[c] = kAdded
<1> DEFINE E == q.events[c] \cup {"read"}
<1>1. E \in SUBSET Poller!Events /\ E # {}
  BY GoodPoller DEF Poller!Events
<1>2. r = Poller!setEvents(q, c, E)
  BY DEF Poller!enableReading
<1> QED
  BY <1>1, <1>2, SetEvents

\* A channel that asks for write events is in the interest list afterwards.
LEMMA EnableWriteing ==
  ASSUME NEW q, Good(q), NEW c \in Conn,
         NEW r, r = Poller!enableWriteing(q, c)
  PROVE  /\ OnlyOf(c, q, r)
         /\ r.events[c] = q.events[c] \cup {"write"}
         /\ r.index[c] = kAdded
<1> DEFINE E == q.events[c] \cup {"write"}
<1>1. E \in SUBSET Poller!Events /\ E # {}
  BY GoodPoller DEF Poller!Events
<1>2. r = Poller!setEvents(q, c, E)
  BY DEF Poller!enableWriteing
<1> QED
  BY <1>1, <1>2, SetEvents

\* removeChannel: the channel is out of the poller.
LEMMA RemoveChannel ==
  ASSUME NEW q, Good(q), NEW c \in Conn,
         NEW r, r = Poller!removeChannel(q, c)
  PROVE  OnlyOf(c, q, r) /\ r.index[c] = kNew /\ r.events[c] = q.events[c]
<1>1. /\ Facts!Sound(q) /\ Facts!OwnsFd(q, c) /\ Facts!PollerAssumption
      /\ r = Facts!removeChannel(q, c)
  BY FactsApply, SameRemoveChannel DEF Good
<1>2. /\ Facts!Sound(r) /\ Facts!ChangesOnly(c, q, r)
      /\ r.index[c] = Facts!kNew /\ r.events = q.events
  BY <1>1, Facts!RemoveSound
<1> QED
  BY <1>2, SameIndices DEF Good, OnlyOf, Facts!ChangesOnly

-----------------------------------------------------------------------------
(* Queues of tasks *)

\* s has x somewhere in front of y.
Before(s, x, y) == \E i, j \in DOMAIN s : i < j /\ s[i] = x /\ s[j] = y

\* A task that is appended comes behind all others.
LEMMA AppendTasks ==
  ASSUME NEW s \in Seq(Tasks), NEW t \in Tasks
  PROVE  /\ Append(s, t) \in Seq(Tasks)
         /\ Len(Append(s, t)) = Len(s) + 1
         /\ TasksOf(Append(s, t)) = TasksOf(s) \cup {t}
         /\ \A x, y : Before(Append(s, t), x, y) => Before(s, x, y) \/ (x \in TasksOf(s) /\ y = t)
<1>1. /\ Append(s, t) \in Seq(Tasks) /\ Len(Append(s, t)) = Len(s) + 1
      /\ DOMAIN s = 1..Len(s) /\ DOMAIN Append(s, t) = 1..(Len(s) + 1)
      /\ Append(s, t)[Len(s) + 1] = t
      /\ \A i \in 1..Len(s) : Append(s, t)[i] = s[i]
      /\ Len(s) \in Nat
  OBVIOUS
<1>2. TasksOf(Append(s, t)) = TasksOf(s) \cup {t}
  BY <1>1 DEF TasksOf
<1>3. ASSUME NEW x, NEW y, Before(Append(s, t), x, y)
      PROVE  Before(s, x, y) \/ (x \in TasksOf(s) /\ y = t)
  <2>1. PICK i, j \in 1..(Len(s) + 1) : i < j /\ Append(s, t)[i] = x /\ Append(s, t)[j] = y
    BY <1>1, <1>3 DEF Before
  <2>2. i \in 1..Len(s) /\ s[i] = x
    BY <1>1, <2>1
  <2>3. CASE j = Len(s) + 1
    BY <1>1, <2>1, <2>2, <2>3 DEF TasksOf
  <2>4. CASE j # Len(s) + 1
    <3>1. j \in 1..Len(s) /\ s[j] = y
      BY <1>1, <2>1, <2>4
    <3> QED
      BY <1>1, <2>1, <2>2, <3>1 DEF Before
  <2> QED
    BY <2>3, <2>4
<1> QED
  BY <1>1, <1>2, <1>3

\* A queue without its head has the tasks that came behind it.
LEMMA TailTasks ==
  ASSUME NEW s \in Seq(Tasks), s # <<>>
  PROVE  /\ Tail(s) \in Seq(Tasks) /\ Head(s) \in Tasks
         /\ Len(Tail(s)) = Len(s) - 1
         /\ TasksOf(s) = TasksOf(Tail(s)) \cup {Head(s)}
         /\ \A x, y : Before(Tail(s), x, y) => Before(s, x, y)
         /\ \A y \in TasksOf(Tail(s)) : Before(s, Head(s), y)
<1>1. /\ Tail(s) \in Seq(Tasks) /\ Head(s) \in Tasks /\ Len(Tail(s)) = Len(s) - 1
      /\ DOMAIN s = 1..Len(s) /\ DOMAIN Tail(s) = 1..(Len(s) - 1)
      /\ s[1] = Head(s)
      /\ \A i \in 1..(Len(s) - 1) : Tail(s)[i] = s[i + 1]
      /\ Len(s) \in Nat /\ Len(s) > 0
  OBVIOUS
<1>2. ASSUME NEW x \in TasksOf(s)
      PROVE  x \in TasksOf(Tail(s)) \cup {Head(s)}
  <2>1. PICK i \in 1..Len(s) : s[i] = x
    BY <1>1 DEF TasksOf
  <2>2. CASE i = 1
    BY <1>1, <2>1, <2>2
  <2>3. CASE i # 1
    <3>1. i - 1 \in 1..(Len(s) - 1) /\ Tail(s)[i - 1] = x
      BY <1>1, <2>1, <2>3
    <3> QED
      BY <1>1, <3>1 DEF TasksOf
  <2> QED
    BY <2>2, <2>3
<1>3. ASSUME NEW x \in TasksOf(Tail(s)) \cup {Head(s)}
      PROVE  x \in TasksOf(s)
  <2>1. CASE x = Head(s)
    BY <1>1, <2>1 DEF TasksOf
  <2>2. CASE x \in TasksOf(Tail(s))
    <3>1. PICK i \in 1..(Len(s) - 1) : Tail(s)[i] = x
      BY <1>1, <2>2 DEF TasksOf
    <3>2. i + 1 \in 1..Len(s) /\ s[i + 1] = x
      BY <1>1, <3>1
    <3> QED
      BY <1>1, <3>2 DEF TasksOf
  <2> QED
    BY <1>3, <2>1, <2>2
<1>4. ASSUME NEW x, NEW y, Before(Tail(s), x, y)
      PROVE  Before(s, x, y)
  <2>1. PICK i, j \in 1..(Len(s) - 1) : i < j /\ Tail(s)[i] = x /\ Tail(s)[j] = y
    BY <1>1, <1>4 DEF Before
  <2>2. i + 1 \in 1..Len(s) /\ j + 1 \in 1..Len(s) /\ i + 1 < j + 1
    BY <1>1, <2>1
  <2>3. s[i + 1] = x /\ s[j + 1] = y
    BY <1>1, <2>1
  <2> QED
    BY <1>1, <2>2, <2>3 DEF Before
<1>5. ASSUME NEW y \in TasksOf(Tail(s))
      PROVE  Before(s, Head(s), y)
  <2>1. PICK j \in 1..(Len(s) - 1) : Tail(s)[j] = y
    BY <1>1 DEF TasksOf
  <2>2. j + 1 \in 1..Len(s) /\ 1 \in 1..Len(s) /\ 1 < j + 1 /\ s[j + 1] = y
    BY <1>1, <2>1
  <2> QED
    BY <1>1, <2>2 DEF Before
<1> QED
  BY <1>1, <1>2, <1>3, <1>4, <1>5

\* An empty queue has no tasks.
LEMMA EmptyTasks == TasksOf(<<>>) = {} /\ \A x, y : ~Before(<<>>, x, y)
BY DEF TasksOf, Before

-----------------------------------------------------------------------------
(* What the operators of TcpConnection do *)

\* sendInLoop leaves the poller alone, or asks for write events.
LEMMA SendEffect ==
  ASSUME NEW q, Good(q), NEW c \in Conn, ~Destroyed(c), NEW st, NEW r \in sendInLoop(c, st, q)
  PROVE  /\ OnlyOf(c, q, r)
         /\ \/ r = q
            \/ /\ st # "kDisconnected" /\ peer[c] # "reset" /\ c \notin wrShut
               /\ r.index[c] = kAdded
               /\ r.events[c] = q.events[c] \cup {"write"}
<1>1. r = q \/ (/\ st # "kDisconnected" /\ peer[c] # "reset" /\ c \notin wrShut
                /\ r = Poller!enableWriteing(q, c))
  BY DEF sendInLoop, Kernel
<1>2. OnlyOf(c, q, q)
  BY DEF OnlyOf
<1> QED
  BY <1>1, <1>2, EnableWriteing

\* An epoll_ctl for a closed descriptor fails.
LEMMA FailedUpdate ==
  ASSUME NEW s \in Poller!Pollers, NEW c \in Conn, c \notin s.open, NEW op \in {"add", "mod"},
         NEW r, r = Poller!update(s, op, c)
  PROVE  /\ r \in Poller!Pollers /\ r.failed \cap {"add", "mod"} # {}
         /\ r.index = s.index /\ r.events = s.events
<1>1. r = [s EXCEPT !.failed = @ \cup {op}]
  BY DEF Poller!update, Poller!EpollCtlSucceeds
<1> QED
  BY <1>1 DEF Poller!Pollers, Poller!EPOLL_CTL_ADD, Poller!EPOLL_CTL_MOD

\* For a connection that is gone the epoll_ctl it asks for fails, which is fatal.
LEMMA LateSendEffect ==
  ASSUME NEW q, Good(q), NEW c \in Conn, Destroyed(c), NEW st, NEW r \in sendInLoop(c, st, q)
  PROVE  \/ r = q
         \/ /\ st # "kDisconnected" /\ peer[c] # "reset" /\ c \notin wrShut
            /\ r \in Poller!Pollers /\ r.failed \cap {"add", "mod"} # {}
            /\ r.index[c] = kAdded
            /\ r.events[c] = q.events[c] \cup {"write"}
            /\ \A d \in Conn \ {c} : r.index[d] = q.index[d] /\ r.events[d] = q.events[d]
<1> DEFINE closed == Poller!Close(q, c)
           asked == [closed EXCEPT !.events[c] = closed.events[c] \cup {"write"}]
<1>1. r = q \/ (/\ st # "kDisconnected" /\ peer[c] # "reset" /\ c \notin wrShut
                /\ r = Poller!enableWriteing(closed, c))
  BY DEF sendInLoop, Kernel
<1>2. q \in Poller!Pollers /\ q.index[c] \in {kNew, kAdded, kDeleted}
  BY GoodPoller
<1>3. /\ asked \in Poller!Pollers /\ c \notin asked.open
      /\ asked.index = q.index /\ asked.events = [q.events EXCEPT ![c] = @ \cup {"write"}]
  BY <1>2 DEF Poller!Close, Poller!WithoutEntry, Poller!Pollers, Poller!Events
<1>4. Poller!enableWriteing(closed, c) = Poller!updateChannel(asked, c)
  BY Zenon DEF Poller!enableWriteing, Poller!setEvents
<1> HIDE DEF asked
<1>5. asked.events[c] # {}
  BY <1>2, <1>3 DEF Poller!Pollers
<1>6. ASSUME NEW s \in Poller!Pollers, s.open = asked.open, s.events = asked.events,
             s.index = [asked.index EXCEPT ![c] = kAdded], NEW op \in {"add", "mod"},
             r = Poller!update(s, op, c)
      PROVE  /\ r \in Poller!Pollers /\ r.failed \cap {"add", "mod"} # {}
             /\ r.index[c] = kAdded /\ r.events = asked.events
             /\ \A d \in Conn \ {c} : r.index[d] = asked.index[d]
  <2>1. c \notin s.open
    BY <1>3, <1>6
  <2>2. /\ r \in Poller!Pollers /\ r.failed \cap {"add", "mod"} # {}
        /\ r.index = s.index /\ r.events = s.events
    BY <1>6, <2>1, FailedUpdate
  <2>3. asked.index \in [Conn -> {Poller!kNew, Poller!kAdded, Poller!kDeleted}]
    BY <1>3 DEF Poller!Pollers
  <2> QED
    BY <1>6, <2>2, <2>3
<1> DEFINE mapped == Poller!set_index([asked EXCEPT !.channels_[[d \in Conn |-> d][c]] = c], c,
                                      Poller!kAdded)
           again  == [asked EXCEPT !.index[c] = kAdded]
<1>7. /\ mapped \in Poller!Pollers /\ again \in Poller!Pollers
      /\ mapped.open = asked.open /\ mapped.events = asked.events
      /\ mapped.index = [asked.index EXCEPT ![c] = kAdded]
      /\ again.open = asked.open /\ again.events = asked.events
      /\ again.index = [asked.index EXCEPT ![c] = kAdded]
  BY <1>3 DEF Poller!Pollers, Poller!set_index, kAdded
<1>9. ASSUME r = Poller!updateChannel(asked, c)
      PROVE  /\ r \in Poller!Pollers /\ r.failed \cap {"add", "mod"} # {}
             /\ r.index[c] = kAdded /\ r.events = asked.events
             /\ \A d \in Conn \ {c} : r.index[d] = asked.index[d]
  <2>2. CASE asked.index[c] = kNew
    <3>1. Poller!updateChannel(asked, c) = Poller!update(mapped, "add", c)
      BY <2>2, Indices DEF Poller!updateChannel, Poller!EPOLL_CTL_ADD, kNew, kAdded, kDeleted
    <3> QED
      BY <1>6, <1>7, <1>9, <3>1
  <2>3. CASE asked.index[c] = kDeleted
    <3>1. Poller!updateChannel(asked, c) = Poller!update(again, "add", c)
      BY <2>3, Indices DEF Poller!updateChannel, Poller!set_index, Poller!EPOLL_CTL_ADD, kNew,
                           kAdded, kDeleted
    <3> QED
      BY <1>6, <1>7, <1>9, <3>1
  <2>4. CASE asked.index[c] = kAdded
    <3>1. Poller!updateChannel(asked, c) = Poller!update(asked, "mod", c)
      BY <1>5, <2>4, Indices DEF Poller!updateChannel, Poller!EPOLL_CTL_MOD, kNew, kAdded, kDeleted
    <3>2. asked.index = [asked.index EXCEPT ![c] = kAdded]
      BY <1>3, <2>4 DEF Poller!Pollers
    <3> QED
      BY <1>3, <1>6, <1>9, <3>1, <3>2
  <2> QED
    BY <1>2, <1>3, <2>2, <2>3, <2>4
<1>10. q.events \in [Conn -> SUBSET Poller!Events]
  BY <1>2 DEF Poller!Pollers
<1> QED
  BY <1>1, <1>3, <1>4, <1>9, <1>10

ForceTask(c) == Task("forceCloseInLoop", c)

\* A callback may leave the connection connected or take it to kDisconnecting,
\* ask for write events, shut the socket down and queue a forced close.
LEMMA CallbackEffect ==
  ASSUME NEW q, Good(q), NEW c \in Conn, ~Destroyed(c), NEW st \in States, NEW tasks,
         callback(c, st, q, tasks)
  PROVE  /\ OnlyOf(c, q, p')
         /\ \/ p' = q
            \/ /\ st = "kConnected" /\ peer[c] # "reset" /\ c \notin wrShut
               /\ p'.index[c] = kAdded
               /\ p'.events[c] = q.events[c] \cup {"write"}
         /\ \/ state_' = [state_ EXCEPT ![c] = st]
            \/ st \in {"kConnected", "kDisconnecting"} /\ state_' = [state_ EXCEPT ![c] = "kDisconnecting"]
         /\ \/ wrShut' = wrShut
            \/ wrShut' = wrShut \cup {c} /\ st = "kConnected" /\ ~Poller!isWriteing(q, c) /\ p' = q
         /\ \/ ioTasks' = tasks
            \/ /\ "forceClose" \in usage.local /\ st \in {"kConnected", "kDisconnecting"}
               /\ ioTasks' = Append(tasks, ForceTask(c))
<1>0. OnlyOf(c, q, q)
  BY DEF OnlyOf
<1>1. CASE /\ state_' = [state_ EXCEPT ![c] = st]
           /\ p' = q
           /\ ioTasks' = tasks
           /\ UNCHANGED wrShut
  BY <1>0, <1>1
<1>2. CASE /\ "send" \in usage.local /\ Runnable(c, "send", st)
           /\ p' \in sendInLoop(c, st, q)
           /\ state_' = [state_ EXCEPT ![c] = st]
           /\ ioTasks' = tasks
           /\ UNCHANGED wrShut
  BY <1>2, SendEffect DEF Runnable
<1>3. CASE /\ "shutdown" \in usage.local /\ Runnable(c, "shutdown", st)
           /\ state_' = [state_ EXCEPT ![c] = "kDisconnecting"]
           /\ wrShut' = shutdownInLoop(c, q)
           /\ p' = q
           /\ ioTasks' = tasks
  BY <1>0, <1>3 DEF Runnable, shutdownInLoop
<1>4. CASE /\ "forceClose" \in usage.local /\ Runnable(c, "forceClose", st)
           /\ Len(tasks) < MaxTasks
           /\ state_' = [state_ EXCEPT ![c] = "kDisconnecting"]
           /\ ioTasks' = Append(tasks, Task("forceCloseInLoop", c))
           /\ p' = q
           /\ UNCHANGED wrShut
  BY <1>0, <1>4 DEF Runnable, ForceTask
<1> QED
  BY <1>1, <1>2, <1>3, <1>4, Zenon DEF callback

\* handleEvent calls the callback only if the connection is still there.
LEMMA StaysEffect ==
  ASSUME Good(p), state_ \in [Conn -> States], NEW c \in Conn, handleEventStays(c)
  PROVE  /\ OnlyOf(c, p, p')
         /\ \/ p' = p
            \/ /\ state_[c] = "kConnected" /\ peer[c] # "reset" /\ c \notin wrShut
               /\ p'.index[c] = kAdded
               /\ p'.events[c] = p.events[c] \cup {"write"}
         /\ \/ state_' = state_
            \/ /\ state_[c] \in {"kConnected", "kDisconnecting"}
               /\ state_' = [state_ EXCEPT ![c] = "kDisconnecting"]
         /\ wrShut' = wrShut \/ (wrShut' = wrShut \cup {c} /\ state_[c] = "kConnected")
         /\ \/ ioTasks' = ioTasks
            \/ "forceClose" \in usage.local /\ ioTasks' = Append(ioTasks, ForceTask(c))
<1>1. CASE Destroyed(c)
  BY <1>1 DEF handleEventStays, OnlyOf
<1>2. CASE ~Destroyed(c)
  <2>1. callback(c, state_[c], p, ioTasks) /\ state_[c] \in States
    BY DEF handleEventStays
  <2>2. [state_ EXCEPT ![c] = state_[c]] = state_
    OBVIOUS
  <2> QED
    BY <1>2, <2>1, <2>2, CallbackEffect
<1> QED
  BY <1>1, <1>2

\* handleClose asks for no more events, which takes the channel out of the
\* interest list; TcpServer::removeConnection does or queues the rest.
LEMMA CloseEffect ==
  ASSUME Good(p), NEW c \in Conn, handleClose(c)
  PROVE  /\ OnlyOf(c, p, p')
         /\ p'.events[c] = {}
         /\ usage.sameLoop =>
              /\ p'.index[c] = kNew
              /\ connections_' = connections_ \ {c} /\ baseTasks' = baseTasks
         /\ ~usage.sameLoop =>
              /\ p'.index[c] = IF p.index[c] = kAdded THEN kDeleted ELSE kAdded
              /\ connections_' = connections_
              /\ baseTasks' = Append(baseTasks, Task("removeConnectionInLoop", c))
<1> DEFINE q == Poller!disableAll(p, c)
<1>1. closeCallback(c, q)
  BY DEF handleClose
<1>2. /\ OnlyOf(c, p, q) /\ q.events[c] = {}
      /\ q.index[c] = IF p.index[c] = kAdded THEN kDeleted ELSE kAdded
  BY DisableAll
<1> HIDE DEF q
<1>3. CASE usage.sameLoop
  <2>1. p' = Poller!removeChannel(q, c)
    BY <1>1, <1>3 DEF closeCallback
  <2>2. OnlyOf(c, q, p') /\ p'.index[c] = kNew /\ p'.events[c] = q.events[c]
    BY <1>2, <2>1, RemoveChannel DEF OnlyOf
  <2> QED
    BY <1>1, <1>2, <1>3, <2>2 DEF OnlyOf, closeCallback
<1>4. CASE ~usage.sameLoop
  BY <1>1, <1>2, <1>4 DEF closeCallback
<1> QED
  BY <1>3, <1>4

\* connectDestroyed takes the channel out of the poller.
LEMMA DestroyEffect ==
  ASSUME Good(p), NEW c \in Conn, connectDestroyed(c, p)
  PROVE  /\ OnlyOf(c, p, p') /\ p'.index[c] = kNew
         /\ p'.events[c] = IF state_[c] = "kConnected" THEN {} ELSE p.events[c]
<1>1. CASE state_[c] = "kConnected"
  <2> DEFINE q == Poller!disableAll(p, c)
  <2>1. OnlyOf(c, p, q) /\ q.events[c] = {}
    BY DisableAll
  <2>2. p' = Poller!removeChannel(q, c)
    BY <1>1 DEF connectDestroyed
  <2> HIDE DEF q
  <2>3. OnlyOf(c, q, p') /\ p'.index[c] = kNew /\ p'.events[c] = q.events[c]
    BY <2>1, <2>2, RemoveChannel DEF OnlyOf
  <2> QED
    BY <1>1, <2>1, <2>3 DEF OnlyOf
<1>2. CASE state_[c] # "kConnected"
  <2>1. p' = Poller!removeChannel(p, c)
    BY <1>2 DEF connectDestroyed
  <2> QED
    BY <1>2, <2>1, RemoveChannel
<1> QED
  BY <1>1, <1>2

\* The connection callback finds the connection up.
LEMMA EstablishEffect ==
  ASSUME Good(p), NEW c \in Conn, ~Destroyed(c), NEW tasks, connectEstablished(c, tasks)
  PROVE  /\ OnlyOf(c, p, p') /\ p'.index[c] = kAdded
         /\ \E w \in {"kConnected", "kDisconnecting"} : state_' = [state_ EXCEPT ![c] = w]
         /\ wrShut' \in {wrShut, wrShut \cup {c}}
         /\ \/ ioTasks' = tasks
            \/ "forceClose" \in usage.local /\ ioTasks' = Append(tasks, ForceTask(c))
<1> DEFINE q == Poller!enableReading(p, c)
<1>1. callback(c, "kConnected", q, tasks)
  BY DEF connectEstablished
<1>2. OnlyOf(c, p, q) /\ q.index[c] = kAdded
  BY EnableReading
<1> HIDE DEF q
<1>3. Good(q) /\ "kConnected" \in States
  BY <1>2 DEF OnlyOf, States
<1>4. /\ OnlyOf(c, q, p') /\ (p' = q \/ p'.index[c] = kAdded)
      /\ \/ state_' = [state_ EXCEPT ![c] = "kConnected"]
         \/ state_' = [state_ EXCEPT ![c] = "kDisconnecting"]
      /\ wrShut' \in {wrShut, wrShut \cup {c}}
      /\ \/ ioTasks' = tasks
         \/ "forceClose" \in usage.local /\ ioTasks' = Append(tasks, ForceTask(c))
  BY <1>1, <1>3, CallbackEffect
<1>5. OnlyOf(c, p, p') /\ p'.index[c] = kAdded
  BY <1>2, <1>4 DEF OnlyOf
<1> QED
  BY <1>4, <1>5

-----------------------------------------------------------------------------
(* Types, and who is where *)

Calls == [at : {"checked", "set"}, op : Operations, conn : Conn]

\* A channel in the poller is a connection's that has been made, and an active
\* one is in the kernel's interest list.
PollerTyped ==
  /\ Good(p)
  /\ \A c \in Conn : p.index[c] # kNew => c \in made
  /\ \A c \in active : p.index[c] = kAdded

\* Tasks are for connections that have been made, and each kind is in the queue
\* of its loop, if somebody queues that kind.
TasksTyped ==
  /\ \A t \in TasksOf(baseTasks) : t.op = "removeConnectionInLoop" /\ t.conn \in made
  /\ \A t \in TasksOf(ioTasks) :
       /\ t.op # "removeConnectionInLoop" /\ t.conn \in made
       /\ t.op = "sendInLoop" => "send" \in usage.remote
       /\ t.op = "forceCloseInLoop" => "forceClose" \in usage.remote \cup usage.local
       /\ usage.sameLoop => t.op \notin {"connectEstablished", "connectDestroyed"}
  /\ usage.sameLoop => baseTasks = <<>>

\* Users' threads are in calls only while the server is up.
CallsTyped ==
  \A u \in User :
    \/ call[u] = Idle
    \/ /\ call[u] \in Calls /\ call[u].op \in usage.remote
       /\ call[u].op = "send" => call[u].at = "set"
       /\ call[u].conn \in held[u]
       /\ server = "up"

\* The stages of the I/O loop and of the server's destructor.
Places ==
  /\ active # {} => stage = "dispatch"
  /\ batch # 0 => stage = "functors"
  /\ server # "up" /\ usage.sameLoop => stage = "functors" /\ batch = 0 /\ server # "quitting"
  /\ server \in {"quitting", "gone"} => connections_ = {}
  /\ server # "up" => usage.stops

Typed == TypeOK /\ TasksTyped /\ CallsTyped /\ Places

Types == Typed /\ PollerTyped

\* A send comes so late that its connection is gone, and asks for write events.
LateSend == \E c \in Conn : usage' = usage /\ runSendInLoop(c) /\ Destroyed(c) /\ p' # p

\* A task that the I/O loop starts leaves the queue.
LEMMA StartEffect ==
  ASSUME Types, NEW op, NEW c \in Conn, Starts(op, c)
  PROVE  /\ Task(op, c) \in TasksOf(ioTasks) /\ c \in made
         /\ Tail(ioTasks) \in Seq(Tasks)
         /\ Len(Tail(ioTasks)) = Len(ioTasks) - 1
         /\ batch' = batch - 1 /\ batch \in 1..Len(ioTasks)
         /\ TasksOf(ioTasks) = TasksOf(Tail(ioTasks)) \cup {Task(op, c)}
         /\ \A x, y : Before(Tail(ioTasks), x, y) => Before(ioTasks, x, y)
         /\ \A y \in TasksOf(Tail(ioTasks)) : Before(ioTasks, Task(op, c), y)
         /\ stage = "functors" /\ active = {}
         /\ Owns(Task(op, c)) => ~Destroyed(c)
<1>1. ioTasks \in Seq(Tasks) /\ batch > 0 /\ batch \in 0..Len(ioTasks)
  BY DEF Types, Typed, TypeOK, Starts
<1>2. ioTasks # <<>> /\ Len(ioTasks) \in Nat
  BY <1>1
<1>3. Head(ioTasks) = Task(op, c)
  BY DEF Starts
<1>4. Task(op, c) \in TasksOf(ioTasks)
  BY <1>1, <1>2, <1>3, TailTasks
<1>5. c \in made
  BY <1>4 DEF Types, Typed, TasksTyped, Task
<1>6. stage = "functors" /\ active = {}
  BY <1>1 DEF Types, Typed, Places
<1>7. batch' = batch - 1
  BY DEF Starts
<1>8. Owns(Task(op, c)) => ~Destroyed(c)
  BY <1>4 DEF Destroyed, Task
<1> QED
  BY <1>1, <1>2, <1>3, <1>4, <1>5, <1>6, <1>7, <1>8, TailTasks

\* The tasks there are.
LEMMA TaskTyped ==
  \A c \in Conn : /\ Task("connectEstablished", c) \in Tasks
                  /\ Task("connectDestroyed", c) \in Tasks
                  /\ Task("removeConnectionInLoop", c) \in Tasks
                  /\ Task("sendInLoop", c) \in Tasks
                  /\ Task("shutdownInLoop", c) \in Tasks
                  /\ Task("forceCloseInLoop", c) \in Tasks
BY DEF Task, Tasks

\* A poller that has no channel yet is sound.
LEMMA FirstPoller == Init => Good(p) /\ \A c \in Conn : p.index[c] = kNew /\ p.events[c] = {}
<1> SUFFICES ASSUME Init
             PROVE  Good(p) /\ \A c \in Conn : p.index[c] = kNew /\ p.events[c] = {}
  OBVIOUS
<1>1. /\ p.index = [c \in Conn |-> kNew] /\ p.events = [c \in Conn |-> {}]
      /\ p.channels_ = [c \in Conn |-> NoConn] /\ p.ptr = [c \in Conn |-> NoConn]
      /\ p.mask = [c \in Conn |-> {}] /\ p.failed = {} /\ p.open = Conn
      /\ p \in Poller!Pollers
  BY DEF Init, Poller!NewPoller, Poller!Pollers, kNew
<1>2. Facts!Consistent(p)
  BY <1>1, LifecycleAssumption, SameIndices, Indices, ZenonT(60) DEF Facts!Consistent
<1>3. Facts!Sound(p)
  BY <1>1, <1>2, SameIndices, LifecycleAssumption DEF Facts!Sound
<1> QED
  BY <1>1, <1>3 DEF Good

\* Counters of callbacks stay in their range.
LEMMA CountTyped == \A n \in 0..2 : Count(n) \in 0..2
BY DEF Count

\* A step that touches one channel, of a connection that is made, keeps the poller typed.
LEMMA PollerStep ==
  ASSUME PollerTyped, NEW c \in Conn, OnlyOf(c, p, p'),
         c \in made', made \subseteq made', active' \subseteq active, active \subseteq Conn,
         c \in active' => p'.index[c] = kAdded
  PROVE  PollerTyped'
BY DEF PollerTyped, OnlyOf

\* Every step keeps the types, except that the process exits when a send comes so late.
LEMMA TypesStep == Types /\ [Next]_vars => Typed' /\ (Types' \/ (LateSend /\ exited'))
<1> SUFFICES ASSUME Types, [Next]_vars
             PROVE  Typed' /\ (Types' \/ (LateSend /\ exited'))
  OBVIOUS
<1>0. /\ Good(p) /\ ioTasks \in Seq(Tasks) /\ baseTasks \in Seq(Tasks)
      /\ Len(ioTasks) \in Nat /\ made \subseteq Conn
  BY DEF Types, Typed, PollerTyped, TypeOK
<1>f. \A c \in Conn : ForceTask(c) \in Tasks
  BY TaskTyped DEF ForceTask
<1>g. \A q : Good(q) => q \in Poller!Pollers
  BY GoodPoller
<1> USE DEF Types, Typed, TypeOK, TasksTyped, CallsTyped, Places
<1>1. CASE usage' = usage /\ poll
  <2>1. \A c \in active' : p.index[c] = kAdded
    BY <1>0, <1>1, GoodPoller DEF poll, Ready
  <2>2. active' \subseteq made
    BY <1>1, <2>1, Indices DEF poll, PollerTyped
  <2> QED
    BY <1>1, <2>1, <2>2 DEF poll, PollerTyped
<1>2. CASE usage' = usage /\ swapFunctors
  BY <1>0, <1>2 DEF swapFunctors, PollerTyped
<1>3. CASE usage' = usage /\ loopPolls
  BY <1>3 DEF loopPolls, PollerTyped
<1>4. CASE usage' = usage /\ loopEnds
  <2>1. /\ ioTasks' = <<>> /\ batch' = 0 /\ ioTasks' \in Seq(Tasks) /\ batch' \in 0..Len(ioTasks')
        /\ TasksOf(ioTasks') = {}
    BY <1>4, EmptyTasks DEF loopEnds, loopVars
  <2>2. CallsTyped'
    BY <1>4 DEF loopEnds, loopVars
  <2> QED
    BY <1>4, <2>1, <2>2 DEF loopEnds, loopVars, PollerTyped
<1>5. ASSUME usage' = usage, NEW c \in Conn, handleEventStays(c)
      PROVE  Types'
  <2>1. c \in active /\ p.index[c] = kAdded /\ c \in made /\ state_[c] \in States
    BY <1>5 DEF handleEventStays, Handles, PollerTyped
  <2>3. OnlyOf(c, p, p')
    BY <1>0, <1>5, StaysEffect
  <2>4. \/ ioTasks' = ioTasks
        \/ "forceClose" \in usage.local /\ ioTasks' = Append(ioTasks, ForceTask(c))
    BY <1>0, <1>5, StaysEffect
  <2>5. PollerTyped'
    BY <1>0, <1>5, <2>1, <2>3, PollerStep DEF handleEventStays, Handles
  <2>6. ioTasks' \in Seq(Tasks) /\ batch \in 0..Len(ioTasks')
    <3>1. CASE ioTasks' = Append(ioTasks, ForceTask(c))
      <4>1. ioTasks' \in Seq(Tasks) /\ Len(ioTasks') = Len(ioTasks) + 1
        BY <1>0, <1>f, <3>1, AppendTasks
      <4> QED
        BY <1>0, <4>1
    <3> QED
      BY <1>0, <2>4, <3>1
  <2>7. TasksTyped'
    <3>1. TasksOf(ioTasks') \subseteq TasksOf(ioTasks) \cup {ForceTask(c)}
      <4>1. TasksOf(Append(ioTasks, ForceTask(c))) = TasksOf(ioTasks) \cup {ForceTask(c)}
        BY <1>0, <1>f, AppendTasks
      <4> QED
        BY <2>4, <4>1
    <3>2. CASE ioTasks' = ioTasks
      BY <1>5, <3>2 DEF handleEventStays
    <3>3. CASE "forceClose" \in usage.local
      BY <1>5, <2>1, <3>1, <3>3 DEF handleEventStays, ForceTask, Task
    <3> QED
      BY <2>4, <3>2, <3>3
  <2>8. state_' \in [Conn -> States] /\ wrShut' \subseteq made
    <3>1. /\ state_' = state_ \/ \E w \in States : state_' = [state_ EXCEPT ![c] = w]
          /\ wrShut' \in {wrShut, wrShut \cup {c}}
      BY <1>0, <1>5, <2>1, StaysEffect DEF States
    <3> QED
      BY <2>1, <3>1, ZenonT(60)
  <2> QED
    BY <1>5, <1>g, <2>5, <2>6, <2>7, <2>8 DEF handleEventStays, Handles, PollerTyped
<1>6. ASSUME usage' = usage, NEW c \in Conn, handleEventCloses(c)
      PROVE  Types'
  <2>1. c \in active /\ p.index[c] = kAdded /\ c \in made /\ state_[c] \in States
    BY <1>6 DEF handleEventCloses, Handles, PollerTyped
  <2>2. handleClose(c)
    BY <1>6 DEF handleEventCloses
  <2>5. PollerTyped'
    BY <1>0, <1>6, <2>1, <2>2, PollerStep, CloseEffect DEF handleEventCloses, Handles
  <2>6. TasksTyped' /\ baseTasks' \in Seq(Tasks) /\ connections_' \subseteq connections_
    <3>1. \/ usage.sameLoop /\ baseTasks' = baseTasks /\ connections_' \subseteq connections_
          \/ /\ ~usage.sameLoop /\ connections_' = connections_
             /\ baseTasks' = Append(baseTasks, Task("removeConnectionInLoop", c))
      BY <1>0, <2>2, CloseEffect
    <3>2. CASE baseTasks' = baseTasks
      BY <1>6, <3>1, <3>2 DEF handleEventCloses
    <3>3. CASE /\ ~usage.sameLoop
               /\ baseTasks' = Append(baseTasks, Task("removeConnectionInLoop", c))
      <4>1. /\ baseTasks' \in Seq(Tasks)
            /\ TasksOf(baseTasks') = TasksOf(baseTasks) \cup {Task("removeConnectionInLoop", c)}
        BY <1>0, <3>3, TaskTyped, AppendTasks
      <4> QED
        BY <1>6, <2>1, <3>1, <3>3, <4>1 DEF handleEventCloses, Task
    <3> QED
      BY <3>1, <3>2, <3>3
  <2> QED
    BY <1>6, <1>g, <2>2, <2>5, <2>6
    DEF handleEventCloses, handleClose, Handles, PollerTyped, States, Count
<1>7. ASSUME usage' = usage, NEW c \in Conn, runConnectEstablished(c)
      PROVE  Types'
  <2>1. Starts("connectEstablished", c) /\ connectEstablished(c, Tail(ioTasks))
    BY <1>7 DEF runConnectEstablished
  <2>2. /\ c \in made /\ active = {} /\ active' = active /\ stage' = stage
        /\ Tail(ioTasks) \in Seq(Tasks) /\ Len(Tail(ioTasks)) = Len(ioTasks) - 1
        /\ TasksOf(Tail(ioTasks)) \subseteq TasksOf(ioTasks)
        /\ batch' = batch - 1 /\ batch \in 1..Len(ioTasks)
    BY <2>1, StartEffect DEF Starts
  <2>d. ~Destroyed(c)
    BY <2>1, StartEffect DEF Owns, Task
  <2>3. /\ OnlyOf(c, p, p')
        /\ \E w \in {"kConnected", "kDisconnecting"} : state_' = [state_ EXCEPT ![c] = w]
        /\ wrShut' \in {wrShut, wrShut \cup {c}}
        /\ \/ ioTasks' = Tail(ioTasks)
           \/ "forceClose" \in usage.local /\ ioTasks' = Append(Tail(ioTasks), ForceTask(c))
    BY <1>0, <2>1, <2>d, EstablishEffect
  <2>4. PollerTyped'
    BY <1>0, <1>7, <2>2, <2>3, PollerStep DEF runConnectEstablished
  <2>5. /\ ioTasks' \in Seq(Tasks) /\ batch' \in 0..Len(ioTasks')
        /\ TasksOf(ioTasks') \subseteq
             TasksOf(ioTasks) \cup IF "forceClose" \in usage.local THEN {ForceTask(c)} ELSE {}
    <3>1. CASE ioTasks' = Tail(ioTasks)
      BY <1>0, <2>2, <3>1
    <3>2. CASE "forceClose" \in usage.local /\ ioTasks' = Append(Tail(ioTasks), ForceTask(c))
      <4>1. /\ ioTasks' \in Seq(Tasks) /\ Len(ioTasks') = Len(ioTasks)
            /\ TasksOf(ioTasks') = TasksOf(Tail(ioTasks)) \cup {ForceTask(c)}
        <5> DEFINE s == Tail(ioTasks)
        <5>1. s \in Seq(Tasks) /\ ForceTask(c) \in Tasks /\ Len(s) = Len(ioTasks) - 1
          BY <1>f, <2>2
        <5> HIDE DEF s
        <5>2. /\ Append(s, ForceTask(c)) \in Seq(Tasks) /\ Len(Append(s, ForceTask(c))) = Len(s) + 1
              /\ TasksOf(Append(s, ForceTask(c))) = TasksOf(s) \cup {ForceTask(c)}
          BY <5>1, AppendTasks
        <5>3. ioTasks' = Append(s, ForceTask(c))
          BY <3>2 DEF s
        <5>4. Len(s) + 1 = Len(ioTasks)
          BY <1>0, <5>1
        <5> QED
          BY <5>2, <5>3, <5>4 DEF s
      <4> QED
        BY <1>0, <2>2, <3>2, <4>1
    <3> QED
      BY <2>3, <3>1, <3>2
  <2>6. TasksTyped'
    BY <1>7, <2>2, <2>5 DEF runConnectEstablished, ForceTask, Task
  <2>7. state_' \in [Conn -> States] /\ wrShut' \subseteq made
    BY <2>2, <2>3 DEF States
  <2>8. ups' \in [Conn -> 0..2] /\ held' \in [User -> SUBSET made]
    BY <2>1, <2>2, CountTyped DEF connectEstablished
  <2>9. CallsTyped'
    BY <1>7, <2>1 DEF runConnectEstablished, connectEstablished
  <2>10. Places'
    BY <1>7, <2>2 DEF runConnectEstablished
  <2> QED
    BY <1>7, <1>g, <2>2, <2>4, <2>5, <2>6, <2>7, <2>8, <2>9, <2>10
    DEF runConnectEstablished, PollerTyped
<1>8. ASSUME usage' = usage, NEW c \in Conn, runConnectDestroyed(c)
      PROVE  Types'
  <2>1. Starts("connectDestroyed", c) /\ connectDestroyed(c, p)
    BY <1>8 DEF runConnectDestroyed
  <2>2. /\ c \in made /\ active = {} /\ active' = active /\ stage' = stage
        /\ ioTasks' \in Seq(Tasks) /\ Len(ioTasks') = Len(ioTasks) - 1
        /\ TasksOf(ioTasks') \subseteq TasksOf(ioTasks)
        /\ batch' = batch - 1 /\ batch \in 1..Len(ioTasks)
    BY <1>8, <2>1, StartEffect DEF Starts, runConnectDestroyed
  <2>3. PollerTyped'
    BY <1>0, <1>8, <2>1, <2>2, PollerStep, DestroyEffect DEF runConnectDestroyed
  <2>4. batch' \in 0..Len(ioTasks')
    BY <1>0, <2>2
  <2>5. state_' \in [Conn -> States] /\ downs' \in [Conn -> 0..2]
    <3>1. CASE state_[c] = "kConnected"
      BY <2>1, <3>1, CountTyped DEF connectDestroyed, States
    <3>2. CASE state_[c] # "kConnected"
      BY <2>1, <3>2 DEF connectDestroyed
    <3> QED
      BY <3>1, <3>2
  <2>6. Places' /\ TasksTyped' /\ CallsTyped'
    BY <1>8, <2>2 DEF runConnectDestroyed
  <2> QED
    BY <1>8, <1>g, <2>2, <2>3, <2>4, <2>5, <2>6 DEF runConnectDestroyed, PollerTyped
<1>9. ASSUME usage' = usage, NEW c \in Conn, runSendInLoop(c)
      PROVE  Typed' /\ (Types' \/ (LateSend /\ exited'))
  <2>1. Starts("sendInLoop", c) /\ p' \in sendInLoop(c, state_[c], p)
    BY <1>9 DEF runSendInLoop
  <2>2. /\ c \in made /\ active = {} /\ active' = active /\ stage' = stage
        /\ ioTasks' \in Seq(Tasks) /\ Len(ioTasks') = Len(ioTasks) - 1
        /\ TasksOf(ioTasks') \subseteq TasksOf(ioTasks)
        /\ batch' = batch - 1 /\ batch \in 1..Len(ioTasks)
    BY <1>9, <2>1, StartEffect DEF Starts, runSendInLoop
  <2>3. PollerTyped' \/ (LateSend /\ exited' /\ p' \in Poller!Pollers)
    <3>1. CASE ~Destroyed(c)
      BY <1>0, <1>9, <2>1, <2>2, <3>1, PollerStep, SendEffect DEF runSendInLoop
    <3>2. CASE Destroyed(c) /\ p' = p
      BY <1>9, <2>2, <3>2 DEF runSendInLoop, PollerTyped
    <3>3. CASE Destroyed(c) /\ p' # p
      <4>1. exited' /\ p' \in Poller!Pollers
        BY <1>0, <2>1, <3>3, LateSendEffect DEF exited, Poller!EPOLL_CTL_ADD, Poller!EPOLL_CTL_MOD
      <4>2. LateSend
        BY <1>9, <3>3 DEF LateSend
      <4> QED
        BY <4>1, <4>2
    <3> QED
      BY <3>1, <3>2, <3>3
  <2>4. batch' \in 0..Len(ioTasks')
    BY <1>0, <2>2
  <2>6. Places' /\ TasksTyped' /\ CallsTyped'
    BY <1>9, <2>2 DEF runSendInLoop
  <2>7. p' \in Poller!Pollers
    BY <1>g, <2>3 DEF PollerTyped
  <2>8. TypeOK'
    BY <1>9, <2>2, <2>4, <2>7 DEF runSendInLoop
  <2> QED
    BY <2>3, <2>6, <2>8
<1>10. ASSUME usage' = usage, NEW c \in Conn, runShutdownInLoop(c)
       PROVE  Types'
  <2>1. Starts("shutdownInLoop", c)
    BY <1>10 DEF runShutdownInLoop
  <2>2. /\ c \in made /\ active = {} /\ active' = active /\ stage' = stage
        /\ ioTasks' \in Seq(Tasks) /\ Len(ioTasks') = Len(ioTasks) - 1
        /\ TasksOf(ioTasks') \subseteq TasksOf(ioTasks)
        /\ batch' = batch - 1 /\ batch \in 1..Len(ioTasks)
    BY <1>10, <2>1, StartEffect DEF Starts, runShutdownInLoop
  <2>3. PollerTyped'
    BY <1>10, <2>2 DEF runShutdownInLoop, PollerTyped
  <2>4. batch' \in 0..Len(ioTasks') /\ wrShut' \subseteq made
    BY <1>0, <1>10, <2>2 DEF runShutdownInLoop, shutdownInLoop
  <2>6. Places' /\ TasksTyped' /\ CallsTyped'
    BY <1>10, <2>2 DEF runShutdownInLoop
  <2> QED
    BY <1>10, <1>g, <2>2, <2>3, <2>4, <2>6 DEF runShutdownInLoop, PollerTyped
<1>11. ASSUME usage' = usage, NEW c \in Conn, forceCloseInLoop(c)
       PROVE  Types'
  <2>1. Starts("forceCloseInLoop", c)
    BY <1>11 DEF forceCloseInLoop
  <2>2. /\ c \in made /\ active = {} /\ active' = active /\ stage' = stage
        /\ ioTasks' \in Seq(Tasks) /\ Len(ioTasks') = Len(ioTasks) - 1
        /\ TasksOf(ioTasks') \subseteq TasksOf(ioTasks)
        /\ batch' = batch - 1 /\ batch \in 1..Len(ioTasks)
    BY <1>11, <2>1, StartEffect DEF Starts, forceCloseInLoop
  <2>3. batch' \in 0..Len(ioTasks')
    BY <1>0, <2>2
  <2>4. CASE handleClose(c)
    <3>1. PollerTyped'
      BY <1>0, <1>11, <2>2, <2>4, PollerStep, CloseEffect DEF forceCloseInLoop
    <3>2. \/ usage.sameLoop /\ baseTasks' = baseTasks /\ connections_' \subseteq connections_
          \/ /\ ~usage.sameLoop /\ connections_' = connections_
             /\ baseTasks' \in Seq(Tasks)
             /\ TasksOf(baseTasks') = TasksOf(baseTasks) \cup {Task("removeConnectionInLoop", c)}
      <4>1. \/ usage.sameLoop /\ baseTasks' = baseTasks /\ connections_' = connections_ \ {c}
            \/ /\ ~usage.sameLoop /\ connections_' = connections_
               /\ baseTasks' = Append(baseTasks, Task("removeConnectionInLoop", c))
        BY <1>0, <2>4, CloseEffect
      <4>2. CASE usage.sameLoop
        BY <4>1, <4>2
      <4>3. CASE ~usage.sameLoop
        <5>1. /\ connections_' = connections_
              /\ baseTasks' = Append(baseTasks, Task("removeConnectionInLoop", c))
          BY <4>1, <4>3
        <5>2. /\ baseTasks' \in Seq(Tasks)
              /\ TasksOf(baseTasks') = TasksOf(baseTasks) \cup {Task("removeConnectionInLoop", c)}
          BY <1>0, <5>1, TaskTyped, AppendTasks
        <5> QED
          BY <4>3, <5>1, <5>2
      <4> QED
        BY <4>2, <4>3
    <3>3. TasksTyped' /\ baseTasks' \in Seq(Tasks) /\ connections_' \subseteq connections_
      BY <1>11, <2>2, <3>2 DEF forceCloseInLoop, Task
    <3>4. Places' /\ CallsTyped'
      BY <1>11, <2>2, <3>3 DEF forceCloseInLoop
    <3>5. state_' \in [Conn -> States] /\ downs' \in [Conn -> 0..2]
      BY <2>4, CountTyped DEF handleClose, States
    <3> QED
      BY <1>11, <1>g, <2>2, <2>3, <3>1, <3>3, <3>4, <3>5 DEF forceCloseInLoop, PollerTyped
  <2>5. CASE UNCHANGED <<state_, downs, connections_, p, baseTasks>>
    <3>1. PollerTyped' /\ TasksTyped' /\ CallsTyped' /\ Places'
      BY <1>11, <2>2, <2>5 DEF forceCloseInLoop, PollerTyped
    <3> QED
      BY <1>11, <1>g, <2>2, <2>3, <2>5, <3>1 DEF forceCloseInLoop, PollerTyped
  <2> QED
    BY <1>11, <2>4, <2>5 DEF forceCloseInLoop
<1>12. ASSUME usage' = usage, NEW c \in Conn, newConnection(c)
       PROVE  Types'
  <2>1. /\ c \notin made /\ made' = made \cup {c} /\ connections_' = connections_ \cup {c}
        /\ UNCHANGED <<server, baseTasks, stage, active, batch, peer, call, downs>>
        /\ server = "up" /\ c \notin active
    BY <1>12 DEF newConnection, loopVars
  <2>2. CASE usage.sameLoop
    <3>1. /\ OnlyOf(c, p, p')
          /\ \E w \in {"kConnected", "kDisconnecting"} : state_' = [state_ EXCEPT ![c] = w]
          /\ wrShut' \in {wrShut, wrShut \cup {c}}
          /\ \/ ioTasks' = ioTasks
             \/ "forceClose" \in usage.local /\ ioTasks' = Append(ioTasks, ForceTask(c))
      BY <1>0, <1>12, <2>1, <2>2, EstablishEffect DEF newConnection, Destroyed
    <3>2. PollerTyped'
      BY <1>0, <2>1, <3>1, PollerStep
    <3>3. ASSUME ioTasks' = ioTasks
          PROVE  TasksTyped' /\ batch' \in 0..Len(ioTasks') /\ ioTasks' \in Seq(Tasks)
      BY <1>0, <1>12, <2>1, <3>3
    <3>4. ASSUME "forceClose" \in usage.local, ioTasks' = Append(ioTasks, ForceTask(c))
          PROVE  TasksTyped' /\ batch' \in 0..Len(ioTasks') /\ ioTasks' \in Seq(Tasks)
      <4>1. /\ ioTasks' \in Seq(Tasks) /\ Len(ioTasks') = Len(ioTasks) + 1
            /\ TasksOf(ioTasks') = TasksOf(ioTasks) \cup {ForceTask(c)}
        BY <1>0, <1>f, <3>4, AppendTasks
      <4>2. TasksTyped'
        BY <1>12, <2>1, <3>4, <4>1 DEF ForceTask, Task
      <4> QED
        BY <1>0, <2>1, <4>1, <4>2
    <3>5. TasksTyped' /\ batch' \in 0..Len(ioTasks') /\ ioTasks' \in Seq(Tasks)
      BY <1>0, <2>1, <3>1, <3>3, <3>4
    <3>6. state_' \in [Conn -> States] /\ wrShut' \subseteq made'
      BY <2>1, <3>1 DEF States
    <3>7. ups' \in [Conn -> 0..2] /\ held' \in [User -> SUBSET made']
      BY <1>12, <2>1, <2>2, CountTyped DEF newConnection, connectEstablished
    <3>8. CallsTyped' /\ Places'
      BY <1>12, <2>1, <2>2 DEF newConnection, connectEstablished
    <3> QED
      BY <1>12, <1>g, <2>1, <3>2, <3>5, <3>6, <3>7, <3>8 DEF PollerTyped
  <2>3. CASE ~usage.sameLoop
    <3>1. /\ ioTasks' = Append(ioTasks, Task("connectEstablished", c))
          /\ UNCHANGED <<state_, p, wrShut, ups, held>>
      BY <1>12, <2>3 DEF newConnection
    <3>2. /\ ioTasks' \in Seq(Tasks) /\ Len(ioTasks') = Len(ioTasks) + 1
          /\ TasksOf(ioTasks') = TasksOf(ioTasks) \cup {Task("connectEstablished", c)}
      BY <1>0, <3>1, TaskTyped, AppendTasks
    <3>3. TasksTyped' /\ batch' \in 0..Len(ioTasks')
      BY <1>0, <1>12, <2>1, <2>3, <3>2 DEF Task
    <3>4. PollerTyped' /\ CallsTyped' /\ Places'
      BY <1>12, <2>1, <3>1 DEF PollerTyped
    <3> QED
      BY <1>12, <1>g, <2>1, <3>1, <3>2, <3>3, <3>4 DEF PollerTyped
  <2> QED
    BY <2>2, <2>3
<1>13. ASSUME usage' = usage, NEW c \in Conn, removeConnectionInLoop(c)
       PROVE  Types'
  <2>1. /\ baseTasks # <<>> /\ Head(baseTasks) = Task("removeConnectionInLoop", c)
        /\ baseTasks' = Tail(baseTasks) /\ connections_' \subseteq connections_
        /\ ioTasks' = Append(ioTasks, Task("connectDestroyed", c))
        /\ UNCHANGED <<server, made, state_, p, stage, active, batch, peer, wrShut, held, call, ups,
                       downs>>
    BY <1>13 DEF removeConnectionInLoop, loopVars
  <2>2. /\ baseTasks' \in Seq(Tasks)
        /\ TasksOf(baseTasks) = TasksOf(baseTasks') \cup {Task("removeConnectionInLoop", c)}
    BY <1>0, <2>1, TailTasks
  <2>3. c \in made /\ ~usage.sameLoop
    <3>1. Task("removeConnectionInLoop", c) \in TasksOf(baseTasks)
      BY <2>2
    <3>2. TasksTyped
      OBVIOUS
    <3>3. c \in made
      BY <3>1, <3>2 DEF Task
    <3>4. ~usage.sameLoop
      BY <2>1, <3>2
    <3> QED
      BY <3>3, <3>4
  <2>4. /\ ioTasks' \in Seq(Tasks) /\ Len(ioTasks') = Len(ioTasks) + 1
        /\ TasksOf(ioTasks') = TasksOf(ioTasks) \cup {Task("connectDestroyed", c)}
    BY <1>0, <2>1, <2>3, TaskTyped, AppendTasks
  <2>5. TasksTyped' /\ batch' \in 0..Len(ioTasks')
    BY <1>0, <1>13, <2>1, <2>2, <2>3, <2>4 DEF Task
  <2>6. PollerTyped' /\ CallsTyped' /\ Places'
    BY <1>13, <2>1 DEF PollerTyped
  <2> QED
    BY <1>13, <1>g, <2>1, <2>2, <2>4, <2>5, <2>6 DEF PollerTyped
<1>14. ASSUME usage' = usage, NEW c \in Conn, peerCloses(c)
       PROVE  Types'
  <2>1. peer' \in [Conn -> {"open", "closed", "reset"}]
    BY <1>14 DEF peerCloses
  <2> QED
    BY <1>14, <2>1 DEF peerCloses, PollerTyped, loopVars
<1>15. ASSUME usage' = usage, NEW u \in User, NEW c \in Conn, release(u, c)
       PROVE  Types'
  <2>1. held' \in [User -> SUBSET made] /\ CallsTyped'
    BY <1>15 DEF release
  <2> QED
    BY <1>15, <2>1 DEF release, PollerTyped, loopVars
<1>16. ASSUME usage' = usage, NEW u \in User, NEW c \in Conn, NEW op \in usage.remote,
              callChecks(u, c, op)
       PROVE  Types'
  <2>1. op \in Operations
    BY LifecycleAssumption
  <2>2. CallsTyped'
    BY <1>16, <2>1 DEF callChecks, Calls
  <2> QED
    BY <1>16, <2>2 DEF callChecks, PollerTyped, loopVars
<1>17. ASSUME usage' = usage, NEW u \in User, callSets(u)
       PROVE  Types'
  <2>1. state_' \in [Conn -> States]
    BY <1>17 DEF callSets, States
  <2>2. CallsTyped'
    BY <1>17 DEF callSets, Calls, Idle
  <2> QED
    BY <1>17, <2>1, <2>2 DEF callSets, PollerTyped, loopVars
<1>18. ASSUME usage' = usage, NEW u \in User, callQueues(u)
       PROVE  Types'
  <2> DEFINE d == call[u].conn
  <2>1. /\ call[u] \in Calls /\ call[u].op \in usage.remote /\ d \in held[u] /\ call[u].at = "set"
        /\ d \in made /\ d \in Conn
    BY <1>0, <1>18 DEF callQueues, Idle, Calls
  <2>2. PICK op \in {"sendInLoop", "shutdownInLoop", "forceCloseInLoop"} :
          /\ ioTasks' = Append(ioTasks, Task(op, d))
          /\ op = "sendInLoop" => "send" \in usage.remote
          /\ op = "forceCloseInLoop" => "forceClose" \in usage.remote
    <3>1. CASE call[u].op = "send"
      BY <1>18, <2>1, <3>1 DEF callQueues
    <3>2. CASE call[u].op = "shutdown"
      BY <1>18, <2>1, <3>2 DEF callQueues
    <3>3. CASE call[u].op = "forceClose"
      BY <1>18, <2>1, <3>3 DEF callQueues
    <3> QED
      BY <2>1, <3>1, <3>2, <3>3 DEF Calls, Operations
  <2>4. Task(op, d) \in Tasks
    BY <2>1, TaskTyped
  <2>5. /\ ioTasks' \in Seq(Tasks) /\ Len(ioTasks') = Len(ioTasks) + 1
        /\ TasksOf(ioTasks') = TasksOf(ioTasks) \cup {Task(op, d)}
    BY <1>0, <2>2, <2>4, AppendTasks
  <2>6. TasksTyped' /\ batch' \in 0..Len(ioTasks')
    <3>1. batch' = batch /\ baseTasks' = baseTasks /\ made' = made
      BY <1>18 DEF callQueues, loopVars
    <3>2. batch' \in 0..Len(ioTasks')
      BY <1>0, <2>5, <3>1
    <3>3. ASSUME NEW t \in TasksOf(ioTasks')
          PROVE  /\ t.op # "removeConnectionInLoop" /\ t.conn \in made
                 /\ t.op = "sendInLoop" => "send" \in usage.remote
                 /\ t.op = "forceCloseInLoop" => "forceClose" \in usage.remote \cup usage.local
                 /\ usage.sameLoop => t.op \notin {"connectEstablished", "connectDestroyed"}
      <4>1. CASE t \in TasksOf(ioTasks)
        BY <4>1
      <4>2. CASE t = Task(op, d)
        BY <2>1, <2>2, <4>2 DEF Task
      <4> QED
        BY <2>5, <4>1, <4>2
    <3> QED
      BY <1>18, <3>1, <3>2, <3>3
  <2>7. PollerTyped' /\ CallsTyped' /\ Places'
    BY <1>18 DEF callQueues, loopVars, PollerTyped
  <2> QED
    BY <1>18, <1>g, <2>5, <2>6, <2>7 DEF callQueues, loopVars, PollerTyped
<1>19. CASE usage' = usage /\ stopServer
  <2>1. CallsTyped' /\ Places'
    BY <1>19 DEF stopServer, loopVars
  <2> QED
    BY <1>19, <2>1 DEF stopServer, loopVars, PollerTyped
<1>20. CASE usage' = usage /\ quitLoops
  <2>1. CallsTyped' /\ Places'
    BY <1>20 DEF quitLoops, loopVars
  <2> QED
    BY <1>20, <2>1 DEF quitLoops, loopVars, PollerTyped
<1>21. ASSUME usage' = usage, NEW c \in Conn, stopConnection(c)
       PROVE  Types'
  <2>1. /\ server = "stopping" /\ c \in made /\ connections_' \subseteq connections_
        /\ UNCHANGED <<server, made, baseTasks, stage, active, batch, peer, wrShut, held, call, ups>>
    BY <1>21 DEF stopConnection, loopVars
  <2>2. CASE usage.sameLoop
    <3>1. connectDestroyed(c, p) /\ ioTasks' = ioTasks /\ active = {}
      BY <1>21, <2>1, <2>2 DEF stopConnection
    <3>2. PollerTyped'
      BY <1>0, <2>1, <3>1, PollerStep, DestroyEffect
    <3>3. state_' \in [Conn -> States] /\ downs' \in [Conn -> 0..2]
      <4>1. CASE state_[c] = "kConnected"
        BY <3>1, <4>1, CountTyped DEF connectDestroyed, States
      <4>2. CASE state_[c] # "kConnected"
        BY <3>1, <4>2 DEF connectDestroyed
      <4> QED
        BY <4>1, <4>2
    <3> QED
      BY <1>21, <1>g, <2>1, <3>1, <3>2, <3>3 DEF PollerTyped
  <2>3. CASE ~usage.sameLoop
    <3>1. /\ ioTasks' = Append(ioTasks, Task("connectDestroyed", c))
          /\ UNCHANGED <<state_, p, downs>>
      BY <1>21, <2>3 DEF stopConnection
    <3>2. /\ ioTasks' \in Seq(Tasks) /\ Len(ioTasks') = Len(ioTasks) + 1
          /\ TasksOf(ioTasks') = TasksOf(ioTasks) \cup {Task("connectDestroyed", c)}
      BY <1>0, <2>1, <3>1, TaskTyped, AppendTasks
    <3>3. TasksTyped' /\ batch' \in 0..Len(ioTasks')
      BY <1>0, <1>21, <2>1, <2>3, <3>2 DEF Task
    <3>4. PollerTyped' /\ CallsTyped' /\ Places'
      BY <1>21, <2>1, <3>1 DEF PollerTyped
    <3> QED
      BY <1>21, <1>g, <2>1, <3>1, <3>2, <3>3, <3>4 DEF PollerTyped
  <2> QED
    BY <2>2, <2>3
<1>22. CASE UNCHANGED vars
  BY <1>22 DEF vars, loopVars, PollerTyped
<1> QED
  BY <1>1, <1>2, <1>3, <1>4, <1>5, <1>6, <1>7, <1>8, <1>9, <1>10, <1>11, <1>12, <1>13, <1>14,
     <1>15, <1>16, <1>17, <1>18, <1>19, <1>20, <1>21, <1>22, ZenonT(60)
  DEF Next, Loop, IoLoop, Users, StopServer

\* Nothing happens once the process has exited.
LEMMA ExitedStays ==
  exited /\ [Next]_vars => UNCHANGED vars /\ exited' /\ (Typed => Typed')
<1> SUFFICES ASSUME exited, [Next]_vars
             PROVE  UNCHANGED vars /\ exited' /\ (Typed => Typed')
  OBVIOUS
<1>1. UNCHANGED vars
  BY DEF Next
<1>2. exited'
  BY <1>1 DEF vars, exited
<1>3. Typed => Typed'
  BY <1>1 DEF vars, loopVars, Typed, TypeOK, TasksTyped, CallsTyped, Places
<1> QED
  BY <1>1, <1>2, <1>3

\* The first states are typed.
LEMMA FirstTypes == Init => Types
<1> SUFFICES ASSUME Init
             PROVE  Types
  OBVIOUS
<1>1. /\ Good(p) /\ p \in Poller!Pollers
      /\ \A c \in Conn : p.index[c] = kNew
  BY FirstPoller, GoodPoller
<1>2. TypeOK
  BY <1>1 DEF Init, TypeOK, States
<1>3. PollerTyped /\ TasksTyped /\ CallsTyped /\ Places
  BY <1>1, EmptyTasks DEF Init, PollerTyped, TasksTyped, CallsTyped, Places
<1> QED
  BY <1>2, <1>3 DEF Types, Typed

\* All variables have their types in every reachable state, and the poller is sound
\* until the process exits.
LEMMA TypesHold == Spec => [](Typed /\ (exited \/ Types))
<1>1. Types => Typed
  BY DEF Types
<1> QED
  BY <1>1, FirstTypes, TypesStep, ExitedStays, PTL DEF Spec

-----------------------------------------------------------------------------
(* What each step does to the connection it is about, and to the others *)

\* The I/O loop's queue gets, or loses, a task for c.
Gains(op, c) ==
  /\ TasksOf(ioTasks') = TasksOf(ioTasks) \cup {Task(op, c)}
  /\ \A x, y : Before(ioTasks', x, y) =>
       Before(ioTasks, x, y) \/ (x \in TasksOf(ioTasks) /\ y = Task(op, c))

Loses(op, c, tasks) ==
  /\ TasksOf(ioTasks) = TasksOf(tasks) \cup {Task(op, c)}
  /\ \A x, y : Before(tasks, x, y) => Before(ioTasks, x, y)
  /\ \A y \in TasksOf(tasks) : Before(ioTasks, Task(op, c), y)

\* Nothing about d changes.
SameTasks(d) ==
  /\ \A op : Task(op, d) \in TasksOf(ioTasks') <=> Task(op, d) \in TasksOf(ioTasks)
  /\ \A x, y : Before(ioTasks', Task(x, d), Task(y, d)) => Before(ioTasks, Task(x, d), Task(y, d))

Untouched(d) ==
  /\ state_'[d] = state_[d] /\ ups'[d] = ups[d] /\ downs'[d] = downs[d] /\ peer'[d] = peer[d]
  /\ p'.index[d] = p.index[d] /\ p'.events[d] = p.events[d]
  /\ d \in made' <=> d \in made
  /\ d \in connections_' <=> d \in connections_
  /\ d \in wrShut' <=> d \in wrShut
  /\ \A u \in User : d \in held'[u] <=> d \in held[u]
  /\ \A u \in User : call'[u] # Idle /\ call'[u].conn = d => call[u] = call'[u]
  /\ Task("removeConnectionInLoop", d) \in TasksOf(baseTasks')
       <=> Task("removeConnectionInLoop", d) \in TasksOf(baseTasks)
  /\ SameTasks(d)

OthersUntouched(c) ==
  /\ usage' = usage /\ server' = server /\ made \subseteq made'
  /\ \A d \in Conn \ {c} : Untouched(d)

\* A task for c is none for d.
LEMMA OtherTasks ==
  ASSUME NEW c, NEW d, d # c, NEW op, Gains(op, c) \/ Loses(op, c, ioTasks')
  PROVE  SameTasks(d)
BY DEF Gains, Loses, SameTasks, Task

\* Appending a task for c.
LEMMA GainsByAppend ==
  ASSUME Types, NEW c \in Conn, NEW op, Task(op, c) \in Tasks,
         ioTasks' = Append(ioTasks, Task(op, c))
  PROVE  Gains(op, c)
<1>1. ioTasks \in Seq(Tasks)
  BY DEF Types, Typed, TypeOK
<1> QED
  BY <1>1, AppendTasks DEF Gains

\* handleClose of a channel: the connection is down and leaves the interest list,
\* or enters it if it was kDeleted or kNew.
ClosesIt(c) ==
  /\ state_'[c] = "kDisconnected" /\ downs'[c] = Count(downs[c])
  /\ p'.events[c] = {}
  /\ usage.sameLoop =>
       /\ p'.index[c] = kNew
       /\ connections_' = connections_ \ {c} /\ baseTasks' = baseTasks
  /\ ~usage.sameLoop =>
       /\ p'.index[c] = IF p.index[c] = kAdded THEN kDeleted ELSE kAdded
       /\ connections_' = connections_
       /\ TasksOf(baseTasks') = TasksOf(baseTasks) \cup {Task("removeConnectionInLoop", c)}

\* connectDestroyed: a connection that is still connected is reported down.
DestroysIt(c) ==
  /\ p'.index[c] = kNew
  /\ p'.events[c] = IF state_[c] = "kConnected" THEN {} ELSE p.events[c]
  /\ IF state_[c] = "kConnected"
       THEN state_'[c] = "kDisconnected" /\ downs'[c] = Count(downs[c])
       ELSE state_'[c] = state_[c] /\ downs'[c] = downs[c]

\* connectEstablished: the connection is reported up.
EstablishesIt(c) ==
  /\ state_'[c] \in {"kConnected", "kDisconnecting"} /\ ups'[c] = Count(ups[c])
  /\ p'.index[c] = kAdded
  /\ \A u \in User : c \in held'[u]

\* handleClose touches its own connection only.
LEMMA CloseTouches ==
  ASSUME Types, NEW c \in Conn, handleClose(c)
  PROVE  /\ ClosesIt(c)
         /\ \A d \in Conn \ {c} :
              /\ state_'[d] = state_[d] /\ downs'[d] = downs[d]
              /\ p'.index[d] = p.index[d] /\ p'.events[d] = p.events[d]
              /\ d \in connections_' <=> d \in connections_
              /\ Task("removeConnectionInLoop", d) \in TasksOf(baseTasks')
                   <=> Task("removeConnectionInLoop", d) \in TasksOf(baseTasks)
<1>1. /\ Good(p) /\ state_ \in [Conn -> States] /\ downs \in [Conn -> 0..2]
      /\ baseTasks \in Seq(Tasks)
  BY DEF Types, Typed, TypeOK, PollerTyped
<1>2. /\ state_' = [state_ EXCEPT ![c] = "kDisconnected"]
      /\ downs' = [downs EXCEPT ![c] = Count(@)]
  BY DEF handleClose
<1>3. /\ OnlyOf(c, p, p') /\ p'.events[c] = {}
      /\ usage.sameLoop =>
           /\ p'.index[c] = kNew
           /\ connections_' = connections_ \ {c} /\ baseTasks' = baseTasks
      /\ ~usage.sameLoop =>
           /\ p'.index[c] = IF p.index[c] = kAdded THEN kDeleted ELSE kAdded
           /\ connections_' = connections_
           /\ baseTasks' = Append(baseTasks, Task("removeConnectionInLoop", c))
  BY <1>1, CloseEffect
<1>4. TasksOf(Append(baseTasks, Task("removeConnectionInLoop", c)))
        = TasksOf(baseTasks) \cup {Task("removeConnectionInLoop", c)}
  BY <1>1, TaskTyped, AppendTasks
<1>5. ASSUME NEW d \in Conn \ {c}
      PROVE  /\ d \in connections_' <=> d \in connections_
             /\ Task("removeConnectionInLoop", d) \in TasksOf(baseTasks')
                   <=> Task("removeConnectionInLoop", d) \in TasksOf(baseTasks)
  <2>1. CASE usage.sameLoop
    BY <1>3, <2>1
  <2>2. CASE ~usage.sameLoop
    <3>1. Task("removeConnectionInLoop", d) # Task("removeConnectionInLoop", c)
      BY DEF Task
    <3> QED
      BY <1>3, <1>4, <2>2, <3>1
  <2> QED
    BY <2>1, <2>2
<1>6. ClosesIt(c)
  BY <1>1, <1>2, <1>3, <1>4 DEF ClosesIt
<1>7. \A d \in Conn \ {c} : /\ state_'[d] = state_[d] /\ downs'[d] = downs[d]
                           /\ p'.index[d] = p.index[d] /\ p'.events[d] = p.events[d]
  BY <1>1, <1>2, <1>3 DEF OnlyOf
<1> QED
  BY <1>5, <1>6, <1>7

\* connectDestroyed touches its own connection only.
LEMMA DestroyTouches ==
  ASSUME Types, NEW c \in Conn, connectDestroyed(c, p)
  PROVE  /\ DestroysIt(c)
         /\ \A d \in Conn \ {c} :
              /\ state_'[d] = state_[d] /\ downs'[d] = downs[d]
              /\ p'.index[d] = p.index[d] /\ p'.events[d] = p.events[d]
<1>1. Good(p) /\ state_ \in [Conn -> States] /\ downs \in [Conn -> 0..2]
  BY DEF Types, Typed, TypeOK, PollerTyped
<1>2. /\ OnlyOf(c, p, p') /\ p'.index[c] = kNew
      /\ p'.events[c] = IF state_[c] = "kConnected" THEN {} ELSE p.events[c]
  BY <1>1, DestroyEffect
<1>3. CASE state_[c] = "kConnected"
  BY <1>1, <1>2, <1>3 DEF connectDestroyed, DestroysIt, OnlyOf
<1>4. CASE state_[c] # "kConnected"
  BY <1>1, <1>2, <1>4 DEF connectDestroyed, DestroysIt, OnlyOf
<1> QED
  BY <1>3, <1>4

\* A step that leaves these variables alone touches no connection.
LEMMA Untouching ==
  ASSUME UNCHANGED <<made, state_, connections_, baseTasks, ioTasks, p, peer, wrShut, held, call,
                     ups, downs>>, NEW d \in Conn
  PROVE  Untouched(d)
BY DEF Untouched, SameTasks

\* Channel::handleEvent after which the connection stays.
LEMMA StaysTouches ==
  ASSUME Types, usage' = usage, NEW c \in Conn, handleEventStays(c)
  PROVE  /\ OthersUntouched(c)
         /\ c \in made /\ p.index[c] = kAdded /\ p'.index[c] = kAdded
         /\ \/ p'.events[c] = p.events[c]
            \/ /\ state_[c] = "kConnected" /\ peer[c] # "reset" /\ c \notin wrShut
               /\ p'.events[c] = p.events[c] \cup {"write"}
         /\ \/ state_'[c] = state_[c]
            \/ state_[c] \in {"kConnected", "kDisconnecting"} /\ state_'[c] = "kDisconnecting"
         /\ c \in wrShut' => c \in wrShut \/ state_[c] = "kConnected"
         /\ ioTasks' = ioTasks \/ ("forceClose" \in usage.local /\ Gains("forceCloseInLoop", c))
<1>1. /\ Good(p) /\ state_ \in [Conn -> States] /\ c \in made /\ p.index[c] = kAdded
  BY DEF Types, Typed, TypeOK, PollerTyped, handleEventStays, Handles
<1>3. /\ OnlyOf(c, p, p')
      /\ \/ p' = p
         \/ /\ state_[c] = "kConnected" /\ peer[c] # "reset" /\ c \notin wrShut
            /\ p'.index[c] = kAdded
            /\ p'.events[c] = p.events[c] \cup {"write"}
  BY <1>1, StaysEffect
<1>4. \/ state_' = state_
      \/ /\ state_[c] \in {"kConnected", "kDisconnecting"}
         /\ state_' = [state_ EXCEPT ![c] = "kDisconnecting"]
  BY <1>1, StaysEffect
<1>5. wrShut' = wrShut \/ (wrShut' = wrShut \cup {c} /\ state_[c] = "kConnected")
  BY <1>1, StaysEffect
<1>6. \/ ioTasks' = ioTasks
      \/ "forceClose" \in usage.local /\ ioTasks' = Append(ioTasks, ForceTask(c))
  BY <1>1, StaysEffect
<1>7. ioTasks' = ioTasks \/ ("forceClose" \in usage.local /\ Gains("forceCloseInLoop", c))
  BY <1>6, GainsByAppend, TaskTyped DEF ForceTask
<1>8. ASSUME NEW d \in Conn \ {c}
      PROVE  Untouched(d)
  <2>1. SameTasks(d)
    BY <1>7, OtherTasks DEF SameTasks
  <2>2. /\ p'.index[d] = p.index[d] /\ p'.events[d] = p.events[d]
        /\ state_'[d] = state_[d] /\ (d \in wrShut' <=> d \in wrShut)
    BY <1>1, <1>3, <1>4, <1>5 DEF OnlyOf
  <2> QED
    BY <2>1, <2>2 DEF Untouched, handleEventStays
<1>9. /\ p'.index[c] = kAdded
      /\ \/ p'.events[c] = p.events[c]
         \/ /\ state_[c] = "kConnected" /\ peer[c] # "reset" /\ c \notin wrShut
            /\ p'.events[c] = p.events[c] \cup {"write"}
  BY <1>1, <1>3
<1>10. \/ state_'[c] = state_[c]
       \/ state_[c] \in {"kConnected", "kDisconnecting"} /\ state_'[c] = "kDisconnecting"
  BY <1>1, <1>4
<1>s. server' = server /\ made' = made
  BY DEF handleEventStays
<1> QED
  BY <1>s, <1>1, <1>5, <1>7, <1>8, <1>9, <1>10 DEF OthersUntouched

\* Channel::handleEvent that ends in handleClose.
LEMMA ClosesTouches ==
  ASSUME Types, usage' = usage, NEW c \in Conn, handleEventCloses(c)
  PROVE  /\ OthersUntouched(c)
         /\ c \in made /\ p.index[c] = kAdded
         /\ IF "read" \in p.events[c] THEN peer[c] # "open" ELSE HungUp(c)
         /\ ClosesIt(c)
<1>1. /\ Good(p) /\ c \in made /\ p.index[c] = kAdded /\ handleClose(c)
      /\ IF "read" \in p.mask[c] THEN peer[c] # "open" ELSE HungUp(c)
  <2>1. c \in active /\ handleClose(c) /\ IF "read" \in p.mask[c] THEN peer[c] # "open" ELSE HungUp(c)
    BY Zenon DEF handleEventCloses, Handles
  <2> QED
    BY <2>1 DEF Types, Typed, TypeOK, PollerTyped
<1>2. p.mask[c] = p.events[c]
  BY <1>1, GoodPoller
<1>3. ASSUME NEW d \in Conn \ {c}
      PROVE  Untouched(d)
  BY <1>1, CloseTouches DEF Untouched, SameTasks, handleEventCloses
<1>s. server' = server /\ made' = made
  BY DEF handleEventCloses
<1> QED
  BY <1>s, <1>1, <1>2, <1>3, CloseTouches DEF OthersUntouched

\* The I/O loop runs connectEstablished.
LEMMA EstablishTouches ==
  ASSUME Types, usage' = usage, NEW c \in Conn, runConnectEstablished(c)
  PROVE  /\ OthersUntouched(c)
         /\ c \in made /\ ~usage.sameLoop
         /\ Task("connectEstablished", c) \in TasksOf(ioTasks)
         /\ EstablishesIt(c)
         /\ \E tasks :
              /\ Loses("connectEstablished", c, tasks)
              /\ \/ ioTasks' = tasks
                 \/ /\ "forceClose" \in usage.local
                    /\ TasksOf(ioTasks') = TasksOf(tasks) \cup {Task("forceCloseInLoop", c)}
                    /\ \A x, y : Before(ioTasks', x, y) =>
                         \/ Before(tasks, x, y)
                         \/ x \in TasksOf(tasks) /\ y = Task("forceCloseInLoop", c)
<1> DEFINE tasks == Tail(ioTasks)
<1>1. /\ Good(p) /\ state_ \in [Conn -> States] /\ ups \in [Conn -> 0..2]
      /\ Starts("connectEstablished", c) /\ connectEstablished(c, tasks)
  BY DEF Types, Typed, TypeOK, PollerTyped, runConnectEstablished
<1>2. /\ tasks \in Seq(Tasks) /\ Loses("connectEstablished", c, tasks) /\ c \in made
      /\ Task("connectEstablished", c) \in TasksOf(ioTasks)
  BY <1>1, StartEffect DEF Loses
<1>d. ~Destroyed(c)
  <2>1. Owns(Task("connectEstablished", c))
    BY DEF Owns, Task
  <2> QED
    BY <1>1, <2>1, StartEffect
<1>3. ~usage.sameLoop
  BY <1>2 DEF Types, Typed, TasksTyped, Task
<1> HIDE DEF tasks
<1>4. /\ OnlyOf(c, p, p') /\ p'.index[c] = kAdded
      /\ \E w \in {"kConnected", "kDisconnecting"} : state_' = [state_ EXCEPT ![c] = w]
      /\ wrShut' \in {wrShut, wrShut \cup {c}}
      /\ \/ ioTasks' = tasks
         \/ "forceClose" \in usage.local /\ ioTasks' = Append(tasks, ForceTask(c))
  BY <1>1, <1>d, EstablishEffect
<1>5. /\ ups' = [ups EXCEPT ![c] = Count(@)]
      /\ held' = [u \in User |-> held[u] \cup {c}]
  BY <1>1 DEF connectEstablished
<1>6. \/ ioTasks' = tasks
      \/ /\ "forceClose" \in usage.local
         /\ TasksOf(ioTasks') = TasksOf(tasks) \cup {Task("forceCloseInLoop", c)}
         /\ \A x, y : Before(ioTasks', x, y) =>
              \/ Before(tasks, x, y)
              \/ x \in TasksOf(tasks) /\ y = Task("forceCloseInLoop", c)
  BY <1>2, <1>4, AppendTasks, TaskTyped, ZenonT(60) DEF ForceTask
<1>7. EstablishesIt(c)
  BY <1>1, <1>4, <1>5 DEF EstablishesIt
<1>8. ASSUME NEW d \in Conn \ {c}
      PROVE  Untouched(d)
  <2>1. SameTasks(d)
    BY <1>2, <1>6 DEF SameTasks, Loses, Task
  <2>2. /\ p'.index[d] = p.index[d] /\ p'.events[d] = p.events[d]
        /\ state_'[d] = state_[d] /\ (d \in wrShut' <=> d \in wrShut)
    BY <1>1, <1>4 DEF OnlyOf
  <2>3. ups'[d] = ups[d] /\ \A u \in User : d \in held'[u] <=> d \in held[u]
    BY <1>1, <1>5
  <2> QED
    BY <2>1, <2>2, <2>3 DEF Untouched, runConnectEstablished
<1>s. server' = server /\ made' = made
  BY DEF runConnectEstablished
<1> QED
  BY <1>s, <1>2, <1>3, <1>6, <1>7, <1>8 DEF OthersUntouched

\* The I/O loop runs connectDestroyed.
LEMMA DestroyedTouches ==
  ASSUME Types, usage' = usage, NEW c \in Conn, runConnectDestroyed(c)
  PROVE  /\ OthersUntouched(c)
         /\ c \in made /\ ~usage.sameLoop
         /\ Task("connectDestroyed", c) \in TasksOf(ioTasks)
         /\ Loses("connectDestroyed", c, ioTasks')
         /\ DestroysIt(c)
<1>1. Starts("connectDestroyed", c) /\ connectDestroyed(c, p) /\ ioTasks' = Tail(ioTasks)
  BY DEF runConnectDestroyed
<1>2. /\ Loses("connectDestroyed", c, ioTasks') /\ c \in made
      /\ Task("connectDestroyed", c) \in TasksOf(ioTasks)
  BY <1>1, StartEffect DEF Loses
<1>3. ~usage.sameLoop
  BY <1>2 DEF Types, Typed, TasksTyped, Task
<1>4. ASSUME NEW d \in Conn \ {c}
      PROVE  Untouched(d)
  <2>1. SameTasks(d)
    BY <1>2, OtherTasks
  <2> QED
    BY <1>1, <2>1, DestroyTouches DEF Untouched, runConnectDestroyed
<1>s. server' = server /\ made' = made
  BY DEF runConnectDestroyed
<1> QED
  BY <1>s, <1>1, <1>2, <1>3, <1>4, DestroyTouches DEF OthersUntouched

\* The I/O loop runs sendInLoop.
LEMMA SendTouches ==
  ASSUME Types, usage' = usage, NEW c \in Conn, runSendInLoop(c)
  PROVE  /\ OthersUntouched(c)
         /\ c \in made
         /\ Task("sendInLoop", c) \in TasksOf(ioTasks)
         /\ Loses("sendInLoop", c, ioTasks')
         /\ \/ p'.index[c] = p.index[c] /\ p'.events[c] = p.events[c]
            \/ /\ state_[c] # "kDisconnected" /\ peer[c] # "reset" /\ c \notin wrShut
               /\ p'.index[c] = kAdded /\ p'.events[c] = p.events[c] \cup {"write"}
<1>1. /\ Good(p) /\ Starts("sendInLoop", c) /\ p' \in sendInLoop(c, state_[c], p)
      /\ ioTasks' = Tail(ioTasks)
  BY DEF Types, Typed, PollerTyped, runSendInLoop
<1>2. /\ Loses("sendInLoop", c, ioTasks') /\ c \in made
      /\ Task("sendInLoop", c) \in TasksOf(ioTasks)
  BY <1>1, StartEffect DEF Loses
<1>3. /\ \A d \in Conn \ {c} : p'.index[d] = p.index[d] /\ p'.events[d] = p.events[d]
      /\ \/ p' = p
         \/ /\ state_[c] # "kDisconnected" /\ peer[c] # "reset" /\ c \notin wrShut
            /\ p'.index[c] = kAdded /\ p'.events[c] = p.events[c] \cup {"write"}
  <2>1. CASE ~Destroyed(c)
    BY <1>1, <2>1, SendEffect DEF OnlyOf
  <2>2. CASE Destroyed(c)
    BY <1>1, <2>2, LateSendEffect
  <2> QED
    BY <2>1, <2>2
<1>4. ASSUME NEW d \in Conn \ {c}
      PROVE  Untouched(d)
  <2>1. SameTasks(d)
    BY <1>2, OtherTasks
  <2> QED
    BY <1>3, <2>1 DEF Untouched, runSendInLoop
<1>s. server' = server /\ made' = made
  BY DEF runSendInLoop
<1> QED
  BY <1>s, <1>2, <1>3, <1>4 DEF OthersUntouched

\* The I/O loop runs shutdownInLoop.
LEMMA ShutdownTouches ==
  ASSUME Types, usage' = usage, NEW c \in Conn, runShutdownInLoop(c)
  PROVE  /\ OthersUntouched(c)
         /\ c \in made
         /\ Task("shutdownInLoop", c) \in TasksOf(ioTasks)
         /\ Loses("shutdownInLoop", c, ioTasks')
         /\ c \in wrShut' => c \in wrShut \/ p.events[c] # {"write"}
<1>1. Starts("shutdownInLoop", c) /\ ioTasks' = Tail(ioTasks) /\ wrShut' = shutdownInLoop(c, p)
  BY DEF runShutdownInLoop
<1>2. /\ Loses("shutdownInLoop", c, ioTasks') /\ c \in made
      /\ Task("shutdownInLoop", c) \in TasksOf(ioTasks)
  BY <1>1, StartEffect DEF Loses
<1>3. ASSUME NEW d \in Conn \ {c}
      PROVE  Untouched(d)
  <2>1. SameTasks(d)
    BY <1>2, OtherTasks
  <2> QED
    BY <1>1, <2>1 DEF Untouched, runShutdownInLoop, shutdownInLoop
<1>s. server' = server /\ made' = made
  BY DEF runShutdownInLoop
<1> QED
  BY <1>s, <1>1, <1>2, <1>3 DEF OthersUntouched, shutdownInLoop, Poller!isWriteing

\* The I/O loop runs forceCloseInLoop.
LEMMA ForceTouches ==
  ASSUME Types, usage' = usage, NEW c \in Conn, forceCloseInLoop(c)
  PROVE  /\ OthersUntouched(c)
         /\ c \in made
         /\ Task("forceCloseInLoop", c) \in TasksOf(ioTasks)
         /\ Loses("forceCloseInLoop", c, ioTasks')
         /\ \/ state_[c] \in {"kConnected", "kDisconnecting"} /\ ClosesIt(c)
            \/ /\ state_[c] \in {"kConnecting", "kDisconnected"}
               /\ UNCHANGED <<state_, downs, connections_, p, baseTasks>>
<1>1. Starts("forceCloseInLoop", c) /\ ioTasks' = Tail(ioTasks) /\ state_[c] \in States
  BY DEF forceCloseInLoop, Types, Typed, TypeOK
<1>2. /\ Loses("forceCloseInLoop", c, ioTasks') /\ c \in made
      /\ Task("forceCloseInLoop", c) \in TasksOf(ioTasks)
  BY <1>1, StartEffect DEF Loses
<1>3. \/ state_[c] \in {"kConnected", "kDisconnecting"} /\ handleClose(c)
      \/ /\ state_[c] \in {"kConnecting", "kDisconnected"}
         /\ UNCHANGED <<state_, downs, connections_, p, baseTasks>>
  BY <1>1 DEF forceCloseInLoop, Runnable, States
<1>4. ASSUME NEW d \in Conn \ {c}
      PROVE  Untouched(d)
  <2>1. SameTasks(d)
    BY <1>2, OtherTasks
  <2>2. CASE handleClose(c)
    BY <2>1, <2>2, CloseTouches DEF Untouched, forceCloseInLoop
  <2>3. CASE UNCHANGED <<state_, downs, connections_, p, baseTasks>>
    BY <2>1, <2>3 DEF Untouched, forceCloseInLoop
  <2> QED
    BY <1>3, <2>2, <2>3
<1>s. server' = server /\ made' = made
  BY DEF forceCloseInLoop
<1> QED
  BY <1>s, <1>2, <1>3, <1>4, CloseTouches DEF OthersUntouched

\* newConnection.
LEMMA NewTouches ==
  ASSUME Types, usage' = usage, NEW c \in Conn, newConnection(c)
  PROVE  /\ OthersUntouched(c)
         /\ server = "up" /\ server' = server
         /\ c \notin made /\ c \in made' /\ c \in connections_'
         /\ baseTasks' = baseTasks /\ call' = call /\ peer' = peer /\ downs' = downs
         /\ usage.sameLoop =>
              /\ EstablishesIt(c)
              /\ \/ ioTasks' = ioTasks
                 \/ "forceClose" \in usage.local /\ Gains("forceCloseInLoop", c)
         /\ ~usage.sameLoop =>
              /\ UNCHANGED <<state_, p, wrShut, ups, held>>
              /\ Gains("connectEstablished", c)
<1>1. /\ Good(p) /\ state_ \in [Conn -> States] /\ ups \in [Conn -> 0..2]
      /\ server = "up" /\ server' = server
      /\ c \notin made /\ made' = made \cup {c} /\ connections_' = connections_ \cup {c}
      /\ baseTasks' = baseTasks /\ call' = call /\ peer' = peer /\ downs' = downs
  BY DEF Types, Typed, TypeOK, PollerTyped, newConnection
<1>2. CASE usage.sameLoop
  <2>1. connectEstablished(c, ioTasks)
    BY <1>2 DEF newConnection
  <2>2. /\ OnlyOf(c, p, p') /\ p'.index[c] = kAdded
        /\ \E w \in {"kConnected", "kDisconnecting"} : state_' = [state_ EXCEPT ![c] = w]
        /\ wrShut' \in {wrShut, wrShut \cup {c}}
        /\ \/ ioTasks' = ioTasks
           \/ "forceClose" \in usage.local /\ ioTasks' = Append(ioTasks, ForceTask(c))
    BY <1>1, <2>1, EstablishEffect DEF Destroyed
  <2>3. /\ ups' = [ups EXCEPT ![c] = Count(@)]
        /\ held' = [u \in User |-> held[u] \cup {c}]
    BY <2>1 DEF connectEstablished
  <2>4. EstablishesIt(c)
    BY <1>1, <2>2, <2>3 DEF EstablishesIt
  <2>5. \/ ioTasks' = ioTasks
        \/ "forceClose" \in usage.local /\ Gains("forceCloseInLoop", c)
    BY <2>2, GainsByAppend, TaskTyped DEF ForceTask
  <2>6. ASSUME NEW d \in Conn \ {c}
        PROVE  Untouched(d)
    <3>1. SameTasks(d)
      BY <2>5, OtherTasks DEF SameTasks
    <3>2. /\ p'.index[d] = p.index[d] /\ p'.events[d] = p.events[d]
          /\ state_'[d] = state_[d] /\ (d \in wrShut' <=> d \in wrShut)
      BY <1>1, <2>2 DEF OnlyOf
    <3>3. ups'[d] = ups[d] /\ \A u \in User : d \in held'[u] <=> d \in held[u]
      BY <1>1, <2>3
    <3> QED
      BY <1>1, <3>1, <3>2, <3>3 DEF Untouched
  <2> QED
    BY <1>1, <1>2, <2>4, <2>5, <2>6 DEF OthersUntouched
<1>3. CASE ~usage.sameLoop
  <2>1. UNCHANGED <<state_, p, wrShut, ups, held>> /\ Gains("connectEstablished", c)
    BY <1>3, GainsByAppend, TaskTyped DEF newConnection
  <2>2. ASSUME NEW d \in Conn \ {c}
        PROVE  Untouched(d)
    <3>1. SameTasks(d)
      BY <2>1, OtherTasks
    <3> QED
      BY <1>1, <2>1, <3>1 DEF Untouched
  <2> QED
    BY <1>1, <1>3, <2>1, <2>2 DEF OthersUntouched
<1> QED
  BY <1>2, <1>3

\* removeConnectionInLoop.
LEMMA RemoveTouches ==
  ASSUME Types, usage' = usage, NEW c \in Conn, removeConnectionInLoop(c)
  PROVE  /\ OthersUntouched(c)
         /\ c \in made /\ ~usage.sameLoop /\ server = "up"
         /\ Task("removeConnectionInLoop", c) \in TasksOf(baseTasks)
         /\ TasksOf(baseTasks') \subseteq TasksOf(baseTasks)
         /\ Gains("connectDestroyed", c)
<1>1. /\ baseTasks \in Seq(Tasks) /\ baseTasks # <<>> /\ server = "up"
      /\ Head(baseTasks) = Task("removeConnectionInLoop", c)
      /\ baseTasks' = Tail(baseTasks) /\ connections_' = connections_ \ {c}
      /\ ioTasks' = Append(ioTasks, Task("connectDestroyed", c))
  BY DEF Types, Typed, TypeOK, removeConnectionInLoop
<1>2. TasksOf(baseTasks) = TasksOf(baseTasks') \cup {Task("removeConnectionInLoop", c)}
  BY <1>1, TailTasks
<1>3. c \in made /\ ~usage.sameLoop
  BY <1>1, <1>2 DEF Types, Typed, TasksTyped, Task
<1>4. Gains("connectDestroyed", c)
  BY <1>1, GainsByAppend, TaskTyped
<1>5. ASSUME NEW d \in Conn \ {c}
      PROVE  Untouched(d)
  <2>1. SameTasks(d)
    BY <1>4, OtherTasks
  <2>2. Task("removeConnectionInLoop", d) \in TasksOf(baseTasks')
          <=> Task("removeConnectionInLoop", d) \in TasksOf(baseTasks)
    BY <1>2 DEF Task
  <2> QED
    BY <1>1, <2>1, <2>2 DEF Untouched, removeConnectionInLoop
<1>s. server' = server /\ made' = made
  BY DEF removeConnectionInLoop
<1> QED
  BY <1>s, <1>1, <1>2, <1>3, <1>4, <1>5 DEF OthersUntouched

\* A round of ~TcpServer.
LEMMA StopTouches ==
  ASSUME Types, usage' = usage, NEW c \in Conn, stopConnection(c)
  PROVE  /\ OthersUntouched(c)
         /\ c \in made /\ server = "stopping"
         /\ usage.sameLoop => DestroysIt(c) /\ ioTasks' = ioTasks
         /\ ~usage.sameLoop => Gains("connectDestroyed", c) /\ UNCHANGED <<state_, p, downs>>
<1>1. /\ server = "stopping" /\ c \in made /\ connections_' = connections_ \ {c}
  BY DEF Types, Typed, TypeOK, stopConnection
<1>2. usage.sameLoop => connectDestroyed(c, p) /\ ioTasks' = ioTasks
  BY DEF stopConnection
<1>3. ~usage.sameLoop => Gains("connectDestroyed", c) /\ UNCHANGED <<state_, p, downs>>
  BY GainsByAppend, TaskTyped DEF stopConnection
<1>4. ASSUME NEW d \in Conn \ {c}
      PROVE  Untouched(d)
  <2>1. CASE usage.sameLoop
    BY <1>1, <1>2, <2>1, DestroyTouches DEF Untouched, stopConnection, SameTasks
  <2>2. CASE ~usage.sameLoop
    <3>1. SameTasks(d)
      BY <1>3, <2>2, OtherTasks
    <3> QED
      BY <1>1, <1>3, <2>2, <3>1 DEF Untouched, stopConnection
  <2> QED
    BY <2>1, <2>2
<1>s. server' = server /\ made' = made
  BY DEF stopConnection
<1> QED
  BY <1>s, <1>1, <1>2, <1>3, <1>4, DestroyTouches DEF OthersUntouched

\* A user's thread has tested state_.
LEMMA ChecksTouches ==
  ASSUME Types, usage' = usage, NEW u \in User, NEW c \in Conn, NEW op \in usage.remote,
         callChecks(u, c, op)
  PROVE  /\ OthersUntouched(c)
         /\ server = "up" /\ c \in held[u] /\ Runnable(c, op, state_[c])
         /\ \A v \in User : call'[v] # Idle /\ v # u => call'[v] = call[v]
<1>1. /\ server = "up" /\ c \in held[u] /\ Runnable(c, op, state_[c])
      /\ \A v \in User : v # u => call'[v] = call[v]
      /\ call'[u] # Idle => call'[u].conn = c
  BY DEF callChecks
<1>2. ASSUME NEW d \in Conn \ {c}
      PROVE  Untouched(d)
  BY <1>1 DEF Untouched, SameTasks, callChecks
<1>s. server' = server /\ made' = made
  BY DEF callChecks
<1> QED
  BY <1>s, <1>1, <1>2 DEF OthersUntouched

\* A user's thread sets state_.
LEMMA SetsTouches ==
  ASSUME Types, usage' = usage, NEW u \in User, callSets(u)
  PROVE  \E c \in Conn :
           /\ OthersUntouched(c)
           /\ c \in made /\ c \in held[u] /\ server = "up"
           /\ call[u] # Idle /\ call[u].conn = c /\ call[u].op \in usage.remote \ {"send"}
           /\ state_'[c] = "kDisconnecting"
           /\ \A v \in User : call'[v] # Idle => call[v] # Idle /\ call'[v].conn = call[v].conn
<1> DEFINE c == call[u].conn
<1>1. /\ call[u] # Idle /\ call[u] \in Calls /\ call[u].op \in usage.remote \ {"send"}
      /\ c \in held[u] /\ server = "up" /\ call[u].at = "checked"
      /\ c \in made /\ c \in Conn
  BY DEF Types, Typed, TypeOK, CallsTyped, callSets, Idle, Calls
<1>2. /\ state_' = [state_ EXCEPT ![c] = "kDisconnecting"]
      /\ call' = [call EXCEPT ![u].at = "set"]
      /\ state_ \in [Conn -> States]
  BY DEF callSets, Types, Typed, TypeOK
<1>3. \A v \in User : call'[v] # Idle => call[v] # Idle /\ call'[v].conn = call[v].conn
  BY <1>1, <1>2 DEF Calls
<1>4. ASSUME NEW d \in Conn \ {c}
      PROVE  Untouched(d)
  <2>1. state_'[d] = state_[d]
    BY <1>1, <1>2
  <2>2. \A v \in User : call'[v] # Idle /\ call'[v].conn = d => call[v] = call'[v]
    BY <1>1, <1>2 DEF Calls
  <2> QED
    BY <2>1, <2>2 DEF Untouched, SameTasks, callSets
<1>s. server' = server /\ made' = made
  BY DEF callSets
<1> QED
  BY <1>s, <1>1, <1>2, <1>3, <1>4 DEF OthersUntouched

\* A user's thread queues its task.
LEMMA QueuesTouches ==
  ASSUME Types, usage' = usage, NEW u \in User, callQueues(u)
  PROVE  \E c \in Conn, op \in {"sendInLoop", "shutdownInLoop", "forceCloseInLoop"} :
           /\ OthersUntouched(c)
           /\ c \in made /\ c \in held[u] /\ server = "up"
           /\ call[u] # Idle /\ call[u].conn = c
           /\ op = "sendInLoop" => "send" \in usage.remote
           /\ Gains(op, c)
           /\ \A v \in User : call'[v] # Idle => call[v] # Idle /\ call'[v].conn = call[v].conn
  <1> DEFINE c == call[u].conn
  <1>1. /\ call[u] # Idle /\ call[u] \in Calls /\ call[u].op \in usage.remote
        /\ c \in held[u] /\ server = "up"
        /\ c \in made /\ c \in Conn
    BY DEF Types, Typed, TypeOK, CallsTyped, callQueues, Idle, Calls
  <1>2. PICK op \in {"sendInLoop", "shutdownInLoop", "forceCloseInLoop"} :
          /\ ioTasks' = Append(ioTasks, Task(op, c))
          /\ op = "sendInLoop" => "send" \in usage.remote
    <2>1. CASE call[u].op = "send"
      BY <1>1, <2>1 DEF callQueues
    <2>2. CASE call[u].op = "shutdown"
      BY <1>1, <2>2 DEF callQueues
    <2>3. CASE call[u].op = "forceClose"
      BY <1>1, <2>3 DEF callQueues
    <2> QED
      BY <1>1, <2>1, <2>2, <2>3 DEF Calls, Operations
  <1>3. Gains(op, c)
    BY <1>1, <1>2, GainsByAppend, TaskTyped
  <1>4. \A v \in User : /\ call'[v] # Idle => call[v] # Idle /\ call'[v].conn = call[v].conn
                        /\ call'[v] # Idle => call[v] = call'[v]
    BY <1>1 DEF callQueues
  <1>5. ASSUME NEW d \in Conn \ {c}
        PROVE  Untouched(d)
    <2>1. SameTasks(d)
      BY <1>3, OtherTasks
    <2> QED
      BY <1>4, <2>1 DEF Untouched, callQueues
  <1>s. server' = server /\ made' = made
    BY DEF callQueues
  <1> QED
    BY <1>s, <1>1, <1>2, <1>3, <1>4, <1>5 DEF OthersUntouched

\* A user's thread drops its shared_ptr.
LEMMA ReleaseTouches ==
  ASSUME Types, usage' = usage, NEW u \in User, NEW c \in Conn, release(u, c)
  PROVE  /\ OthersUntouched(c)
         /\ c \in held[u]
         /\ \A v \in User : c \in held'[v] => c \in held[v]
<1>1. c \in held[u] /\ held' = [held EXCEPT ![u] = @ \ {c}] /\ held \in [User -> SUBSET made]
  BY DEF release, Types, Typed, TypeOK
<1>2. ASSUME NEW d \in Conn \ {c}
      PROVE  Untouched(d)
  BY <1>1 DEF Untouched, SameTasks, release
<1>3. server' = server /\ made' = made
  BY DEF release
<1> QED
  BY <1>1, <1>2, <1>3 DEF OthersUntouched

\* The other end goes.
LEMMA PeerTouches ==
  ASSUME Types, usage' = usage, NEW c \in Conn, peerCloses(c)
  PROVE  /\ OthersUntouched(c)
         /\ c \in made /\ peer[c] = "open" /\ peer'[c] # "open"
<1>1. /\ c \in made /\ peer[c] = "open" /\ peer \in [Conn -> {"open", "closed", "reset"}]
      /\ \E how \in {"closed", "reset"} : peer' = [peer EXCEPT ![c] = how]
  BY DEF peerCloses, Types, Typed, TypeOK
<1>2. ASSUME NEW d \in Conn \ {c}
      PROVE  Untouched(d)
  BY <1>1 DEF Untouched, SameTasks, peerCloses
<1>3. server' = server /\ made' = made
  BY DEF peerCloses
<1> QED
  BY <1>1, <1>2, <1>3 DEF OthersUntouched
=============================================================================
