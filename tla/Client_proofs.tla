--------------------------- MODULE Client_proofs ----------------------------
(***************************************************************************)
(* Theorems about Client, for any number of attempts and users and any     *)
(* bound on the tasks.  Type correctness and StoppedAttemptEnds hold for   *)
(* any number of calls of connect, the others for one (a second call, made *)
(* while an attempt goes on, breaks them: the code has no guard there),    *)
(* and where no thread disconnects a client whose callbacks may call       *)
(* forceClose (a shutdown between handleClose and its callback would let   *)
(* the callback close the connection again).                               *)
(***************************************************************************)
EXTENDS Client, TLAPS

Channels == {"dial", "conn"} \X Attempt

Facts == INSTANCE EPollPoller_proofs WITH
  Channel <- Channels, Fd <- Attempt, FdOf <- [c \in Channels |-> c[2]]

-----------------------------------------------------------------------------
(* The poller *)

kNew     == Poller!kNew
kAdded   == Poller!kAdded
kDeleted == Poller!kDeleted

\* The three values of index_ differ.
LEMMA Indices == kNew # kAdded /\ kNew # kDeleted /\ kAdded # kDeleted
BY DEF kNew, kAdded, kDeleted, Poller!kNew, Poller!kAdded, Poller!kDeleted

\* The two instances of EPollPoller have the same operators.
LEMMA SameIndices ==
  /\ Facts!kNew = kNew /\ Facts!kAdded = kAdded /\ Facts!kDeleted = kDeleted
  /\ Facts!Events = Poller!Events
  /\ Facts!Pollers = Poller!Pollers
BY DEF kNew, kAdded, kDeleted, Poller!kNew, Poller!kAdded, Poller!kDeleted,
       Facts!kNew, Facts!kAdded, Facts!kDeleted, Facts!Events, Poller!Events,
       Facts!Pollers, Poller!Pollers, Channels,
       Facts!EPOLL_CTL_ADD, Facts!EPOLL_CTL_MOD, Facts!EPOLL_CTL_DEL,
       Poller!EPOLL_CTL_ADD, Poller!EPOLL_CTL_MOD, Poller!EPOLL_CTL_DEL

\* Their update is the same,
LEMMA SameUpdate ==
  ASSUME NEW q, NEW op, NEW c
  PROVE  Facts!update(q, op, c) = Poller!update(q, op, c)
BY Zenon DEF Facts!update, Poller!update, Facts!WithEntry, Poller!WithEntry,
    Facts!WithoutEntry, Poller!WithoutEntry, Channels,
    Facts!EpollCtlSucceeds, Poller!EpollCtlSucceeds,
    Facts!EPOLL_CTL_ADD, Poller!EPOLL_CTL_ADD, Facts!EPOLL_CTL_DEL, Poller!EPOLL_CTL_DEL

\* and so are the changes of a channel's events,
LEMMA SameSetEvents ==
  ASSUME NEW q, NEW c, NEW E
  PROVE  Facts!setEvents(q, c, E) = Poller!setEvents(q, c, E)
<1> DEFINE s == [q EXCEPT !.events[c] = E]
<1>1. Facts!updateChannel(s, c) = Poller!updateChannel(s, c)
  BY SameUpdate, Zenon
  DEF Facts!updateChannel, Poller!updateChannel, Facts!set_index, Poller!set_index, Channels,
      Facts!kNew, Poller!kNew, Facts!kAdded, Poller!kAdded, Facts!kDeleted, Poller!kDeleted,
      Facts!EPOLL_CTL_ADD, Poller!EPOLL_CTL_ADD, Facts!EPOLL_CTL_DEL, Poller!EPOLL_CTL_DEL,
      Facts!EPOLL_CTL_MOD, Poller!EPOLL_CTL_MOD
<1> QED
  BY <1>1, Zenon DEF Facts!setEvents, Poller!setEvents

\* removeChannel,
LEMMA SameRemoveChannel ==
  ASSUME NEW q, NEW c
  PROVE  Facts!removeChannel(q, c) = Poller!removeChannel(q, c)
<1> DEFINE e == [q EXCEPT !.channels_[[d \in Channels |-> d[2]][c]] = NoChannel]
<1>1. Facts!update(e, "del", c) = Poller!update(e, "del", c)
  BY SameUpdate
<1> DEFINE t == IF q.index[c] = Facts!kAdded THEN Facts!update(e, "del", c) ELSE e
           u == IF q.index[c] = Poller!kAdded THEN Poller!update(e, "del", c) ELSE e
<1>2. Facts!removeChannel(q, c) = [t EXCEPT !.index[c] = Facts!kNew]
  BY Zenon DEF Facts!removeChannel, Facts!set_index, Facts!EPOLL_CTL_DEL
<1>3. Poller!removeChannel(q, c) = [u EXCEPT !.index[c] = Poller!kNew]
  BY Zenon DEF Poller!removeChannel, Poller!set_index, Poller!EPOLL_CTL_DEL, Channels
<1> HIDE DEF e
<1>4. t = u
  <2>1. Facts!kAdded = Poller!kAdded
    BY SameIndices DEF kAdded
  <2> QED
    BY <1>1, <2>1, Zenon
<1> HIDE DEF t, u
<1> QED
  BY <1>2, <1>3, <1>4, SameIndices DEF kNew

\* and the closing of a descriptor.
LEMMA SameClose ==
  ASSUME NEW q, NEW fd
  PROVE  Facts!Close(q, fd) = Poller!Close(q, fd)
BY Zenon DEF Facts!Close, Poller!Close, Facts!WithoutEntry, Poller!WithoutEntry

\* What the lemmas about EPollPoller assume.
LEMMA FactsApply ==
  /\ Facts!PollerAssumption
  /\ \A k \in Attempt : Dial(k) \in Channels /\ Conn(k) \in Channels
  /\ \A k \in Attempt : /\ [c \in Channels |-> c[2]][Dial(k)] = k
                        /\ [c \in Channels |-> c[2]][Conn(k)] = k
<1>1. NoChannel \notin Channels
  BY DEF NoChannel, Channels
<1>2. [c \in Channels |-> c[2]] \in [Channels -> Attempt]
  BY DEF Channels
<1> QED
  BY <1>1, <1>2 DEF Facts!PollerAssumption, Dial, Conn, Channels

\* r is a poller, and has no entry that q has not but c's.
Enters(c, q, r) ==
  /\ r \in Poller!Pollers
  /\ \A g \in Attempt : r.ptr[g] \in {q.ptr[g], NoChannel} \/ (g = c[2] /\ r.ptr[g] = c)

\* Whether epoll_ctl succeeds or not, an operation concerns one descriptor.
LEMMA OperationsTyped ==
  ASSUME NEW q \in Poller!Pollers, NEW k \in Attempt, NEW c \in {Dial(k), Conn(k)}
  PROVE  /\ Enters(c, q, Poller!enableReading(q, c))
         /\ Enters(c, q, Poller!enableWriteing(q, c))
         /\ Enters(c, q, Poller!disableAll(q, c))
         /\ Enters(c, q, Poller!removeChannel(q, c))
         /\ Enters(c, q, Poller!Close(q, k))
         /\ Enters(c, q, [q EXCEPT !.open = @ \cup {k}])
<1>1. /\ q \in Facts!Pollers /\ c \in Channels /\ [d \in Channels |-> d[2]][c] = c[2]
      /\ Facts!PollerAssumption /\ Facts!Pollers = Poller!Pollers
      /\ Facts!Events = Poller!Events
  BY FactsApply, SameIndices DEF Channels
<1>2. ASSUME NEW E \in SUBSET Poller!Events
      PROVE  Enters(c, q, Poller!setEvents(q, c, E))
  <2>1. Facts!EntersOnly(c, q, Facts!setEvents(q, c, E))
    BY <1>1, Facts!SetEventsTyped
  <2> QED
    BY <1>1, <2>1, SameSetEvents DEF Facts!EntersOnly, Enters
<1>3. q.events[c] \in SUBSET Poller!Events
  BY <1>1 DEF Poller!Pollers, Channels
<1>4. /\ q.events[c] \cup {"read"} \in SUBSET Poller!Events
      /\ q.events[c] \cup {"write"} \in SUBSET Poller!Events
      /\ {} \in SUBSET Poller!Events
  BY <1>3 DEF Poller!Events
<1>5. Enters(c, q, Poller!removeChannel(q, c))
  <2>1. Facts!EntersOnly(c, q, Facts!removeChannel(q, c))
    BY <1>1, Facts!RemoveTyped
  <2> QED
    BY <1>1, <2>1, SameRemoveChannel DEF Facts!EntersOnly, Enters
<1>6. Enters(c, q, Poller!Close(q, k)) /\ Enters(c, q, [q EXCEPT !.open = @ \cup {k}])
  <2>1. /\ Facts!EntersOnly(c, q, Facts!Close(q, k))
        /\ Facts!EntersOnly(c, q, [q EXCEPT !.open = @ \cup {k}])
    BY <1>1, Facts!OpenTyped
  <2> QED
    BY <1>1, <2>1, SameClose DEF Facts!EntersOnly, Enters
<1>7. /\ Poller!enableReading(q, c) = Poller!setEvents(q, c, q.events[c] \cup {"read"})
      /\ Poller!enableWriteing(q, c) = Poller!setEvents(q, c, q.events[c] \cup {"write"})
      /\ Poller!disableAll(q, c) = Poller!setEvents(q, c, {})
  BY DEF Poller!enableReading, Poller!enableWriteing, Poller!disableAll
<1> QED
  BY <1>2, <1>4, <1>5, <1>6, <1>7

\* r is sound, and differs from q in the index_ of c's channel only.
OnlyOf(c, q, r) ==
  /\ Facts!Sound(r)
  /\ r.open = q.open
  /\ \A d \in Channels \ {c} : r.index[d] = q.index[d]

\* A channel alone on its open descriptor.
Alone(q, c, k) ==
  /\ k \in Attempt /\ k \in q.open
  /\ \/ c = Dial(k) /\ q.index[Conn(k)] = kNew
     \/ c = Conn(k) /\ q.index[Dial(k)] = kNew

\* Two channels only can have a descriptor.
LEMMA AloneOwns ==
  ASSUME NEW q, NEW c, NEW k, Alone(q, c, k)
  PROVE  c \in Channels /\ Facts!OwnsFd(q, c)
<1>1. c \in Channels /\ [d \in Channels |-> d[2]][c] = k /\ k \in q.open
  BY FactsApply DEF Alone
<1>2. ASSUME NEW d \in Channels, d # c, [e \in Channels |-> e[2]][d] = k
      PROVE  q.index[d] = kNew
  <2>1. d = Dial(k) \/ d = Conn(k)
    BY <1>2 DEF Channels, Dial, Conn
  <2> QED
    BY <1>2, <2>1 DEF Alone
<1> QED
  BY <1>1, <1>2, SameIndices DEF Facts!OwnsFd

\* A channel alone on its descriptor that sets its events is added to the interest
\* list, or stays in it, or leaves it when it asks for none.
LEMMA SetEvents ==
  ASSUME NEW q, Facts!Sound(q), NEW c, NEW k, Alone(q, c, k),
         NEW E \in SUBSET Poller!Events,
         NEW r, r = Poller!setEvents(q, c, E)
  PROVE  /\ OnlyOf(c, q, r)
         /\ r.index[c] = IF q.index[c] = kAdded /\ E = {} THEN kDeleted ELSE kAdded
<1>1. /\ c \in Channels /\ Facts!OwnsFd(q, c) /\ Facts!PollerAssumption
      /\ E \in SUBSET Facts!Events /\ r = Facts!setEvents(q, c, E)
  BY AloneOwns, FactsApply, SameIndices, SameSetEvents
<1>2. /\ Facts!Sound(r) /\ Facts!ChangesOnly(c, q, r)
      /\ r.index[c] = IF q.index[c] = Facts!kAdded /\ E = {} THEN Facts!kDeleted ELSE Facts!kAdded
  BY <1>1, Facts!SetEventsSound
<1> QED
  BY <1>2, SameIndices DEF OnlyOf, Facts!ChangesOnly

\* A sound poller has the facts that Client's properties speak of, and the kernel
\* has a channel exactly when it is kAdded.
LEMMA SoundPoller ==
  ASSUME NEW q, Facts!Sound(q)
  PROVE  /\ q \in Poller!Pollers /\ Poller!Consistent(q) /\ q.failed = {}
         /\ \A c \in Channels : /\ q.events[c] \in SUBSET Poller!Events
                                /\ q.index[c] = kAdded <=> q.ptr[c[2]] = c
<1>1. q \in Poller!Pollers /\ q.failed = {} /\ Facts!Consistent(q)
  BY SameIndices DEF Facts!Sound
<1>2. Poller!Consistent(q)
  BY <1>1, Zenon DEF Facts!Consistent, Poller!Consistent, Facts!kNew, Poller!kNew, Facts!kAdded,
    Poller!kAdded, Channels
<1>3. ASSUME NEW c \in Channels
      PROVE  q.events[c] \in SUBSET Poller!Events /\ (q.index[c] = kAdded <=> q.ptr[c[2]] = c)
  <2>1. q.index[c] = Poller!kAdded <=> q.ptr[[d \in Channels |-> d[2]][c]] = c
    BY <1>2 DEF Poller!Consistent, Channels
  <2>2. q.events[c] \in SUBSET Poller!Events
    BY <1>1 DEF Poller!Pollers, Channels
  <2> QED
    BY <2>1, <2>2 DEF kAdded
<1> QED
  BY <1>1, <1>2, <1>3

\* enableReading and enableWriteing leave a channel in the interest list,
LEMMA EnableEvents ==
  ASSUME NEW q, Facts!Sound(q), NEW c, NEW k, Alone(q, c, k),
         NEW r, r = Poller!enableReading(q, c) \/ r = Poller!enableWriteing(q, c)
  PROVE  OnlyOf(c, q, r) /\ r.index[c] = kAdded
<1>1. q.events[c] \in SUBSET Poller!Events
  BY AloneOwns, SoundPoller
<1>2. PICK E \in SUBSET Poller!Events : E # {} /\ r = Poller!setEvents(q, c, E)
  BY <1>1 DEF Poller!enableReading, Poller!enableWriteing, Poller!Events
<1> QED
  BY <1>2, SetEvents

\* disableAll takes it out,
LEMMA DisableAll ==
  ASSUME NEW q, Facts!Sound(q), NEW c, NEW k, Alone(q, c, k),
         NEW r, r = Poller!disableAll(q, c)
  PROVE  /\ OnlyOf(c, q, r)
         /\ r.index[c] = IF q.index[c] = kAdded THEN kDeleted ELSE kAdded
<1>1. r = Poller!setEvents(q, c, {}) /\ {} \in SUBSET Poller!Events
  BY DEF Poller!disableAll
<1> QED
  BY <1>1, SetEvents

\* and removeChannel out of the poller,
LEMMA RemoveChannel ==
  ASSUME NEW q, Facts!Sound(q), NEW c, NEW k, Alone(q, c, k),
         NEW r, r = Poller!removeChannel(q, c)
  PROVE  OnlyOf(c, q, r) /\ r.index[c] = kNew
<1>1. /\ c \in Channels /\ Facts!OwnsFd(q, c) /\ Facts!PollerAssumption
      /\ r = Facts!removeChannel(q, c)
  BY AloneOwns, FactsApply, SameRemoveChannel
<1>2. Facts!Sound(r) /\ Facts!ChangesOnly(c, q, r) /\ r.index[c] = Facts!kNew
  BY <1>1, Facts!RemoveSound
<1> QED
  BY <1>2, SameIndices DEF OnlyOf, Facts!ChangesOnly

\* as removeAndResetChannel does with the Connector's.
LEMMA DialRemoved ==
  ASSUME Facts!Sound(p), NEW k, connector.channel_ = k, Alone(p, Dial(k), k)
  PROVE  OnlyOf(Dial(k), p, removeAndResetChannel) /\ removeAndResetChannel.index[Dial(k)] = kNew
<1> DEFINE s == Poller!disableAll(p, Dial(k))
           r == Poller!removeChannel(s, Dial(k))
<1>1. k \in Attempt /\ k # NoAttempt /\ Conn(k) \in Channels /\ Conn(k) # Dial(k)
  <2>1. k \in Attempt /\ k # NoAttempt
    BY ClientAssumption DEF Alone, Attempt, NoAttempt
  <2>2. Conn(k) # Dial(k)
    BY DEF Dial, Conn
  <2> QED
    BY <2>1, <2>2, FactsApply
<1>2. removeAndResetChannel = r
  BY <1>1 DEF removeAndResetChannel
<1>3. OnlyOf(Dial(k), p, s)
  BY DisableAll
<1> HIDE DEF s
<1>4. Alone(s, Dial(k), k)
  BY <1>1, <1>3 DEF Alone, OnlyOf, Dial
<1>5. OnlyOf(Dial(k), s, r) /\ r.index[Dial(k)] = kNew
  BY <1>3, <1>4, RemoveChannel DEF OnlyOf
<1> HIDE DEF r
<1> QED
  BY <1>2, <1>3, <1>5 DEF OnlyOf

\* A descriptor of which no channel is in the poller can be closed.
LEMMA CloseFd ==
  ASSUME NEW q, Facts!Sound(q), NEW k \in Attempt,
         q.index[Dial(k)] = kNew, q.index[Conn(k)] = kNew,
         NEW r, r = Poller!Close(q, k)
  PROVE  Facts!Sound(r) /\ r.index = q.index /\ r.open = q.open \ {k}
<1>1. ASSUME NEW c \in Channels, [d \in Channels |-> d[2]][c] = k
      PROVE  q.index[c] = Facts!kNew
  <2>1. c = Dial(k) \/ c = Conn(k)
    BY <1>1 DEF Channels, Dial, Conn
  <2> QED
    BY <2>1, SameIndices
<1>2. r = Facts!Close(q, k) /\ Facts!PollerAssumption
  BY SameClose, FactsApply
<1> QED
  BY <1>1, <1>2, Facts!CloseSound

\* The socket of a new attempt has a descriptor no channel has been registered for.
LEMMA OpenFd ==
  ASSUME NEW q, Facts!Sound(q), NEW k \in Attempt,
         NEW r, r = [q EXCEPT !.open = @ \cup {k}]
  PROVE  Facts!Sound(r) /\ r.index = q.index /\ r.open = q.open \cup {k}
<1>1. r = [q EXCEPT !.open = q.open \cup {k}] /\ Facts!PollerAssumption
  BY FactsApply
<1> QED
  BY <1>1, Facts!OpenSound

-----------------------------------------------------------------------------
(* The queue of tasks *)

TaskType == [
  op : {"startInLoop", "stopInLoop", "resetChannel",
        "shutdownInLoop", "forceCloseInLoop", "connectDestroyed"},
  k  : 0..MaxAttempts]

SetOf(s) == {s[i] : i \in DOMAIN s}

\* s has x once at most; x among its first n only; a y behind every x; all y behind x.
Once(s, x)        == \A i, j \in DOMAIN s : s[i] = x /\ s[j] = x => i = j
Within(s, n, x)   == \A i \in DOMAIN s : s[i] = x => i <= n
Follows(s, x, y)  == \A i \in DOMAIN s : s[i] = x => \E j \in DOMAIN s : i < j /\ s[j] = y
Precedes(s, x, y) == \A i, j \in DOMAIN s : s[i] = x /\ s[j] = y => i < j

\* All of this holds of a task that is not there.
LEMMA AbsentTask ==
  ASSUME NEW s, NEW x, x \notin SetOf(s)
  PROVE  /\ Once(s, x)
         /\ \A n : Within(s, n, x)
         /\ \A y : Follows(s, x, y) /\ Precedes(s, x, y) /\ Precedes(s, y, x)
BY DEF SetOf, Once, Within, Follows, Precedes

\* A task that is appended comes behind all others.
LEMMA AppendTask ==
  ASSUME NEW s \in Seq(TaskType), NEW t \in TaskType, NEW q, q = Append(s, t)
  PROVE  /\ q \in Seq(TaskType) /\ Len(q) = Len(s) + 1 /\ SetOf(q) = SetOf(s) \cup {t}
         /\ \A x : Once(s, x) /\ (x # t \/ x \notin SetOf(s)) => Once(q, x)
         /\ \A x, n : Within(s, n, x) /\ x # t => Within(q, n, x)
         /\ \A x : x # t => Follows(q, x, t) /\ \A y : Follows(s, x, y) => Follows(q, x, y)
         /\ \A x, y : Precedes(s, x, y) /\ x # t => Precedes(q, x, y)
<1>1. /\ q \in Seq(TaskType) /\ Len(q) = Len(s) + 1
      /\ DOMAIN s = 1..Len(s) /\ DOMAIN q = 1..(Len(s) + 1)
      /\ q[Len(s) + 1] = t
      /\ \A i \in 1..Len(s) : q[i] = s[i]
      /\ Len(s) \in Nat
  OBVIOUS
<1>a. /\ DOMAIN q = DOMAIN s \cup {Len(s) + 1}
      /\ \A i \in DOMAIN s : q[i] = s[i] /\ i < Len(s) + 1 /\ i \in Nat
      /\ q[Len(s) + 1] = t /\ Len(s) + 1 \in Nat
  BY <1>1
<1> HIDE <1>1
<1>2. SetOf(q) = SetOf(s) \cup {t}
  BY <1>a DEF SetOf
<1>3. ASSUME NEW x, Once(s, x), x # t \/ x \notin SetOf(s)
      PROVE  Once(q, x)
  <2>1. CASE x # t
    BY <1>a, <1>3, <2>1 DEF Once
  <2>2. CASE x \notin SetOf(s)
    <3>1. \A i \in DOMAIN q : q[i] = x => i = Len(s) + 1
      BY <1>a, <2>2 DEF SetOf
    <3> QED
      BY <3>1 DEF Once
  <2> QED
    BY <1>3, <2>1, <2>2
<1>4. ASSUME NEW x, NEW n, Within(s, n, x), x # t
      PROVE  Within(q, n, x)
  BY <1>a, <1>4 DEF Within
<1>5. ASSUME NEW x, x # t
      PROVE  Follows(q, x, t) /\ \A y : Follows(s, x, y) => Follows(q, x, y)
  BY <1>a, <1>5 DEF Follows
<1>6. ASSUME NEW x, NEW y, Precedes(s, x, y), x # t
      PROVE  Precedes(q, x, y)
  BY <1>a, <1>6 DEF Precedes
<1> QED
  BY <1>1, <1>2, <1>3, <1>4, <1>5, <1>6

\* A queue without its head has the tasks that came behind it.
LEMMA TailTask ==
  ASSUME NEW s \in Seq(TaskType), s # <<>>, NEW q, q = Tail(s)
  PROVE  /\ q \in Seq(TaskType) /\ Head(s) \in TaskType /\ Len(q) = Len(s) - 1
         /\ SetOf(s) = SetOf(q) \cup {Head(s)}
         /\ \A x : Once(s, x) => Once(q, x)
         /\ Once(s, Head(s)) => Head(s) \notin SetOf(q)
         /\ \A x : \A n \in Nat : Within(s, n, x) => Within(q, n - 1, x)
         /\ \A x, y : Follows(s, x, y) => Follows(q, x, y)
         /\ \A x, y : Precedes(s, x, y) => Precedes(q, x, y)
         /\ \A x : Precedes(s, x, Head(s)) => x \notin SetOf(s)
<1>1. /\ q \in Seq(TaskType) /\ Head(s) \in TaskType /\ Len(q) = Len(s) - 1
      /\ DOMAIN s = 1..Len(s) /\ DOMAIN q = 1..(Len(s) - 1)
      /\ s[1] = Head(s)
      /\ \A i \in 1..(Len(s) - 1) : q[i] = s[i + 1]
      /\ Len(s) \in Nat /\ Len(s) > 0
  OBVIOUS
<1>a. /\ \A i \in DOMAIN q : i \in Nat /\ i + 1 \in DOMAIN s /\ q[i] = s[i + 1]
      /\ \A i \in DOMAIN s : i \in Nat /\ i >= 1
      /\ \A i \in DOMAIN s \ {1} : i - 1 \in DOMAIN q /\ q[i - 1] = s[i]
      /\ 1 \in DOMAIN s /\ s[1] = Head(s)
  BY <1>1
<1> HIDE <1>1
<1>2. SetOf(s) = SetOf(q) \cup {Head(s)}
  <2>1. ASSUME NEW i \in DOMAIN s
        PROVE  s[i] \in SetOf(q) \cup {Head(s)}
    BY <1>a DEF SetOf
  <2>2. ASSUME NEW i \in DOMAIN q
        PROVE  q[i] \in SetOf(s)
    BY <1>a DEF SetOf
  <2>3. Head(s) \in SetOf(s)
    BY <1>a DEF SetOf
  <2> QED
    BY <2>1, <2>2, <2>3 DEF SetOf
<1>3. ASSUME NEW x, Once(s, x)
      PROVE  Once(q, x)
  <2> SUFFICES ASSUME NEW i \in DOMAIN q, NEW j \in DOMAIN q, q[i] = x, q[j] = x
               PROVE  i = j
    BY DEF Once
  <2>1. i + 1 = j + 1
    BY <1>a, <1>3 DEF Once
  <2> QED
    BY <1>a, <2>1
<1>4. ASSUME Once(s, Head(s))
      PROVE  Head(s) \notin SetOf(q)
  BY <1>a, <1>4 DEF Once, SetOf
<1>5. ASSUME NEW x, NEW n \in Nat, Within(s, n, x)
      PROVE  Within(q, n - 1, x)
  <2> SUFFICES ASSUME NEW i \in DOMAIN q, q[i] = x
               PROVE  i <= n - 1
    BY DEF Within
  <2>1. i + 1 <= n /\ i \in Nat
    BY <1>a, <1>5 DEF Within
  <2> QED
    BY <2>1
<1>6. ASSUME NEW x, NEW y, Follows(s, x, y)
      PROVE  Follows(q, x, y)
  <2> SUFFICES ASSUME NEW i \in DOMAIN q, q[i] = x
               PROVE  \E j \in DOMAIN q : i < j /\ q[j] = y
    BY DEF Follows
  <2>1. PICK j \in DOMAIN s : i + 1 < j /\ s[j] = y
    BY <1>a, <1>6 DEF Follows
  <2>2. i \in Nat /\ j \in Nat
    BY <1>a
  <2>3. j # 1 /\ i < j - 1
    BY <2>1, <2>2
  <2> QED
    BY <1>a, <2>1, <2>3
<1>7. ASSUME NEW x, NEW y, Precedes(s, x, y)
      PROVE  Precedes(q, x, y)
  <2> SUFFICES ASSUME NEW i \in DOMAIN q, NEW j \in DOMAIN q, q[i] = x, q[j] = y
               PROVE  i < j
    BY DEF Precedes
  <2>1. i + 1 < j + 1
    BY <1>a, <1>7 DEF Precedes
  <2> QED
    BY <1>a, <2>1
<1>8. ASSUME NEW x, Precedes(s, x, Head(s))
      PROVE  x \notin SetOf(s)
  <2> SUFFICES ASSUME NEW i \in DOMAIN s, s[i] = x
               PROVE  FALSE
    BY DEF SetOf
  <2>1. i < 1
    BY <1>a, <1>8 DEF Precedes
  <2> QED
    BY <1>a, <2>1
<1> QED
  BY <1>1, <1>2, <1>3, <1>4, <1>5, <1>6, <1>7, <1>8

\* A queue whose first n tasks are all of it, and one of which the first 0 are all.
LEMMA WithinBounds ==
  ASSUME NEW s \in Seq(TaskType), NEW x
  PROVE  /\ Within(s, Len(s), x)
         /\ Within(s, 0, x) => x \notin SetOf(s)
<1>1. DOMAIN s = 1..Len(s) /\ Len(s) \in Nat
  OBVIOUS
<1> QED
  BY <1>1 DEF Within, SetOf

\* An empty queue has no tasks.
LEMMA EmptyQueue == SetOf(<<>>) = {} /\ <<>> \in Seq(TaskType) /\ Len(<<>>) = 0
BY DEF SetOf

-----------------------------------------------------------------------------
(* Types *)

R    == Task("resetChannel", NoAttempt)
St   == Task("startInLoop", NoAttempt)
F(k) == Task("forceCloseInLoop", k)
D(k) == Task("connectDestroyed", k)
S(k) == Task("shutdownInLoop", k)

CallPlaces == {"idle", "connect", "disconnect", "stop", "startInLoop", "stopInLoop",
               "checked", "shutdownInLoop"}

AtPlaces == {"idle", "establishing", "up", "down", "closing", "restarting"}

\* The connections whose connectEstablished has run.
Begun == ups \cup {k \in Attempt : at = At("up", k)}

ConnectorType == [connect_ : BOOLEAN, channel_ : 0..attempts,
                  state_ : {"kDisconnected", "kConnecting", "kConnected"}]

ClientTypes ==
  /\ usage \in Usages
  /\ client \in {"alive", "gone"}
  /\ connect_ \in BOOLEAN
  /\ connection_ \in 0..attempts
  /\ connector \in ConnectorType
  /\ attempts \in 0..MaxAttempts
  /\ net \in [Attempt -> {"none", "dialing", "open", "refused", "closed", "reset"}]

LoopTypes ==
  /\ tasks \in Seq(TaskType)
  /\ batch \in 0..Len(tasks)
  /\ at \in [place : AtPlaces, k : 0..attempts]
  /\ at.place \in {"establishing", "up", "down", "closing"} => at.k # 0
  /\ at.place \in {"down", "closing"} => at.k \in ups
  /\ at.place = "restarting" => attempts > 0
  /\ erring \subseteq Attempt

ConnTypes ==
  /\ state_ \in [Attempt -> {"kConnecting", "kConnected", "kDisconnecting", "kDisconnected"}]
  /\ ups \subseteq 1..attempts
  /\ wrShut \subseteq ups
  /\ downs \in [Attempt -> 0..2]
  /\ \A k \in Attempt : state_[k] # "kConnecting" => k \in Begun
  /\ \A k \in Attempt : S(k) \in TaskSet \/ F(k) \in TaskSet \/ D(k) \in TaskSet => k \in Begun

UserTypes ==
  /\ connects \in 0..MaxConnects
  /\ call \in [User -> [place : CallPlaces, k : 0..MaxAttempts]]
  /\ \A u \in User : call[u].place \in {"checked", "shutdownInLoop"} => call[u].k \in Begun
  /\ \A u \in User : call[u].place \in {"startInLoop", "stopInLoop"} => call[u].k = NoAttempt

\* q has entries for the first n attempts only, and of those that are in us for
\* their connections.
UpTo(n, us, q) ==
  /\ q \in Poller!Pollers
  /\ \A g \in Attempt : /\ q.ptr[g] # NoChannel => g <= n
                        /\ \A k \in Attempt : q.ptr[g] = Conn(k) => k \in us

PollerTypes ==
  /\ UpTo(attempts, Begun, p)
  /\ active \subseteq Channels
  /\ \A c \in active : c[2] <= attempts
  /\ \A k \in Attempt : Conn(k) \in active => k \in ups

\* What the types of the variables rest on: an attempt that has a connection, an
\* entry or a task has been made.
Types == ClientTypes /\ LoopTypes /\ ConnTypes /\ UserTypes /\ PollerTypes

\* One operation on a channel of an attempt that was made.
LEMMA StaysUpTo ==
  ASSUME NEW n \in Nat, NEW us, NEW k \in Attempt, k <= n,
         NEW c, c = Dial(k) \/ (c = Conn(k) /\ k \in us),
         NEW q, UpTo(n, us, q), NEW r, Enters(c, q, r)
  PROVE  UpTo(n, us, r)
<1>1. c[2] = k /\ NoChannel # c /\ \A j : NoChannel # Conn(j) /\ (c = Conn(j) => j \in us)
  BY DEF Dial, Conn, NoChannel
<1> QED
  BY <1>1 DEF UpTo, Enters

\* What holds of the first n attempts holds of the first m.
LEMMA UpToMore ==
  ASSUME NEW n \in Nat, NEW m \in Nat, n <= m, NEW us, NEW vs, us \subseteq vs,
         NEW q, UpTo(n, us, q)
  PROVE  UpTo(m, vs, q)
BY ClientAssumption DEF UpTo, Attempt

\* A channel's attempt.
LEMMA ChannelAttempts == \A k : Dial(k)[2] = k /\ Conn(k)[2] = k
BY DEF Dial, Conn

\* removeAndResetChannel keeps the poller's type.
LEMMA RemoveAndResetTyped ==
  ASSUME ClientTypes, PollerTypes
  PROVE  UpTo(attempts, Begun, removeAndResetChannel)
<1> DEFINE k == connector.channel_
           s == Poller!disableAll(p, Dial(k))
           r == Poller!removeChannel(s, Dial(k))
<1>1. UpTo(attempts, Begun, p) /\ attempts \in Nat /\ k \in 0..attempts /\ attempts <= MaxAttempts
  BY ClientAssumption DEF ClientTypes, PollerTypes, ConnectorType
<1>2. CASE k = NoAttempt
  BY <1>1, <1>2 DEF removeAndResetChannel
<1>3. CASE k # NoAttempt
  <2>1. k \in Attempt /\ k <= attempts
    BY <1>1, <1>3, ClientAssumption DEF Attempt, NoAttempt
  <2>2. Enters(Dial(k), p, s)
    BY <1>1, <2>1, OperationsTyped DEF UpTo
  <2>3. removeAndResetChannel = r
    BY <1>3 DEF removeAndResetChannel
  <2> HIDE DEF s, k
  <2>4. UpTo(attempts, Begun, s)
    BY <1>1, <2>1, <2>2, StaysUpTo
  <2>5. Enters(Dial(k), s, r)
    BY <2>1, <2>4, OperationsTyped DEF UpTo
  <2> HIDE DEF r
  <2> QED
    BY <1>1, <2>1, <2>3, <2>4, <2>5, StaysUpTo
<1> QED
  BY <1>2, <1>3

\* startInLoop makes a further attempt, or none.
LEMMA StartTyped ==
  ASSUME ClientTypes, PollerTypes, NEW conr \in ConnectorType, startInLoop(conr)
  PROVE  /\ UNCHANGED <<usage, client, connect_, connection_>> => ClientTypes'
         /\ UpTo(attempts', Begun, p')
         /\ attempts' \in {attempts, attempts + 1}
         /\ attempts' \in 0..MaxAttempts /\ attempts \in Nat
<1> DEFINE k == attempts + 1
           q == [p EXCEPT !.open = @ \cup {k}]
<1>0. /\ UpTo(attempts, Begun, p) /\ attempts \in 0..MaxAttempts /\ attempts \in Nat
      /\ connection_ \in 0..attempts
      /\ net \in [Attempt -> {"none", "dialing", "open", "refused", "closed", "reset"}]
  BY ClientAssumption DEF ClientTypes, PollerTypes
<1>1. CASE connector' = conr /\ UNCHANGED <<attempts, net, p>>
  <2>1. connector' \in ConnectorType' /\ attempts' = attempts /\ net' = net /\ p' = p
    BY <1>1 DEF ConnectorType
  <2> QED
    BY <1>0, <2>1 DEF ClientTypes
<1>2. CASE /\ attempts < MaxAttempts /\ attempts' = k
           /\ net' = [net EXCEPT ![k] = "dialing"]
           /\ connector' = [conr EXCEPT !.state_ = "kConnecting", !.channel_ = k]
           /\ p' = Poller!enableWriteing(q, Dial(k))
  <2>1. k \in Attempt /\ k \in 1..MaxAttempts /\ k \in Nat /\ attempts <= k
    BY <1>0, <1>2, ClientAssumption DEF Attempt
  <2>2. UpTo(k, Begun, p)
    BY <1>0, <2>1, UpToMore
  <2>3. Enters(Dial(k), p, q)
    BY <1>0, <2>1, OperationsTyped DEF UpTo
  <2> HIDE DEF q
  <2>4. UpTo(k, Begun, q)
    BY <2>1, <2>2, <2>3, StaysUpTo
  <2>5. Enters(Dial(k), q, p')
    BY <1>2, <2>1, <2>4, OperationsTyped DEF UpTo
  <2>6. UpTo(k, Begun, p')
    BY <2>1, <2>4, <2>5, StaysUpTo
  <2>7. connector' \in ConnectorType'
    <3>1. connector' = [connect_ |-> conr.connect_, channel_ |-> k, state_ |-> "kConnecting"]
      BY <1>2 DEF ConnectorType
    <3>2. conr.connect_ \in BOOLEAN /\ k \in 0..k
      BY <2>1 DEF ConnectorType
    <3> QED
      BY <1>2, <3>1, <3>2 DEF ConnectorType
  <2>8. net' \in [Attempt -> {"none", "dialing", "open", "refused", "closed", "reset"}]
    BY <1>0, <1>2
  <2>9. /\ attempts' \in 0..MaxAttempts
        /\ connection_ \in 0..attempts'
    BY <1>0, <1>2, <2>1
  <2> QED
    BY <1>0, <1>2, <2>6, <2>7, <2>8, <2>9 DEF ClientTypes
<1> QED
  BY <1>1, <1>2 DEF startInLoop, connect

\* A task that is run is the head of the queue, and one of the batch.
LEMMA TaskRuns ==
  ASSUME LoopTypes, NEW op, NEW k, Starts(op, k)
  PROVE  /\ tasks # <<>> /\ Head(tasks) = Task(op, k)
         /\ Tail(tasks) \in Seq(TaskType)
         /\ TaskSet = SetOf(Tail(tasks)) \cup {Task(op, k)}
         /\ at = Idle /\ batch \in Nat /\ batch > 0 /\ batch' = batch - 1
         /\ batch' \in 0..Len(Tail(tasks)) /\ Len(Tail(tasks)) \in Nat
<1>1. tasks \in Seq(TaskType) /\ batch \in 0..Len(tasks) /\ batch > 0 /\ batch' = batch - 1
  BY DEF LoopTypes, Starts
<1>2. Len(tasks) \in Nat /\ Len(tasks) # 0
  BY <1>1
<1>3. tasks # <<>>
  BY <1>2, EmptyQueue
<1>4. /\ Tail(tasks) \in Seq(TaskType) /\ Len(Tail(tasks)) = Len(tasks) - 1
      /\ SetOf(tasks) = SetOf(Tail(tasks)) \cup {Head(tasks)}
  BY <1>1, <1>3, TailTask
<1>5. /\ batch \in Nat /\ batch' \in 0..Len(Tail(tasks)) /\ Len(Tail(tasks)) \in Nat
  BY <1>1, <1>2, <1>4
<1> QED
  BY <1>1, <1>3, <1>4, <1>5 DEF Starts, SetOf, TaskSet

\* The tasks that are queued.
LEMMA TaskTypes ==
  /\ R \in TaskType /\ St \in TaskType
  /\ \A k \in Attempt : /\ F(k) \in TaskType /\ D(k) \in TaskType /\ S(k) \in TaskType
                        /\ \A j : S(j) # F(k) /\ S(j) # D(k) /\ F(j) # D(k)
  /\ \A k : R # S(k) /\ R # F(k) /\ R # D(k) /\ St # S(k) /\ St # F(k) /\ St # D(k)
  /\ \A j, k : /\ S(j) = S(k) => j = k
               /\ F(j) = F(k) => j = k
               /\ D(j) = D(k) => j = k
  /\ R # St
BY ClientAssumption DEF R, St, F, D, S, Task, TaskType, NoAttempt, Attempt

\* A task of the Connector, or of a connection in us.
Known(t, us) ==
  /\ t \in TaskType
  /\ \A k \in Attempt : t = S(k) \/ t = F(k) \/ t = D(k) => k \in us

\* The tasks that the loop queues,
LEMMA KnownTasks ==
  /\ \A us : Known(R, us)
  /\ \A us : \A k \in Attempt : k \in us => Known(F(k), us) /\ Known(D(k), us)
BY TaskTypes DEF Known

\* which leave tasks of connections that have begun only.
LEMMA StayKnown ==
  ASSUME Types, NEW t, TaskSet' \subseteq TaskSet \cup {t}, Begun \subseteq Begun',
         Known(t, Begun')
  PROVE  \A k \in Attempt : S(k) \in TaskSet' \/ F(k) \in TaskSet' \/ D(k) \in TaskSet' => k \in Begun'
<1> SUFFICES ASSUME NEW k \in Attempt, NEW x \in {S(k), F(k), D(k)}, x \in TaskSet'
             PROVE  k \in Begun'
  OBVIOUS
<1>1. CASE x = t
  BY <1>1 DEF Known
<1>2. CASE x \in TaskSet
  BY <1>2 DEF Types, ConnTypes
<1> QED
  BY <1>1, <1>2

\* A task that is queued, or none.
LEMMA Queued ==
  ASSUME Types, NEW t \in TaskType, tasks' = tasks \/ tasks' = Append(tasks, t)
  PROVE  /\ tasks' \in Seq(TaskType) /\ batch \in 0..Len(tasks')
         /\ TaskSet' \subseteq TaskSet \cup {t}
<1>1. /\ tasks \in Seq(TaskType) /\ Len(tasks) \in Nat /\ batch \in 0..Len(tasks)
  BY DEF Types, LoopTypes
<1>2. /\ tasks' \in Seq(TaskType) /\ Len(tasks') >= Len(tasks) /\ Len(tasks') \in Nat
      /\ SetOf(tasks') \subseteq SetOf(tasks) \cup {t}
  BY <1>1, AppendTask
<1>3. batch \in 0..Len(tasks')
  BY <1>1, <1>2
<1> QED
  BY <1>2, <1>3 DEF TaskSet, SetOf

\* A connection begins when the loop goes on to say so.
LEMMA BegunKept ==
  ASSUME ups' = ups, at' = at \/ (at.place # "up" /\ at'.place # "up")
  PROVE  Begun' = Begun
BY DEF Begun, At

\* Between two callbacks, it has been reported up.
LEMMA BegunIdle ==
  ASSUME at = Idle
  PROVE  Begun = ups
BY DEF Begun, At, Idle

\* Steps of the loop that leave the connections alone.
LEMMA ConnTypesKept ==
  ASSUME Types, UNCHANGED <<connVars, userVars>>, Begun' = Begun,
         attempts' \in {attempts, attempts + 1}, attempts' \in 0..MaxAttempts,
         NEW t, TaskSet' \subseteq TaskSet \cup {t}, Known(t, Begun)
  PROVE  ConnTypes' /\ UserTypes'
<1>1. /\ state_' = state_ /\ ups' = ups /\ wrShut' = wrShut /\ downs' = downs
  BY DEF connVars
<1>2. ups \subseteq 1..attempts'
  BY DEF Types, ConnTypes, ClientTypes
<1>3. ConnTypes'
  BY <1>1, <1>2, StayKnown DEF Types, ConnTypes
<1>4. UserTypes'
  BY <1>1 DEF Types, UserTypes, userVars
<1> QED
  BY <1>3, <1>4

\* Steps of the loop that leave Begun as it was, or add to it.
LEMMA UserTypesKept ==
  ASSUME Types, UNCHANGED userVars, Begun \subseteq Begun'
  PROVE  UserTypes'
BY DEF Types, UserTypes, userVars

\* Steps that leave the poller alone.
LEMMA PollerTypesKept ==
  ASSUME Types, UNCHANGED <<p, attempts, ups>>, Begun' = Begun, active' \subseteq active
  PROVE  PollerTypes'
BY DEF Types, PollerTypes

\* Steps that add a task, or none, and leave what the loop is in the middle of.
LEMMA LoopTypesKept ==
  ASSUME Types, UNCHANGED <<at, batch, erring>>, attempts' \in {attempts, attempts + 1}, ups \subseteq ups',
         NEW t \in TaskType, tasks' = tasks \/ tasks' = Append(tasks, t)
  PROVE  /\ LoopTypes'
         /\ TaskSet' \subseteq TaskSet \cup {t}
<1>1. attempts \in Nat
  BY DEF Types, ClientTypes
<1>2. /\ tasks' \in Seq(TaskType) /\ batch' \in 0..Len(tasks')
      /\ TaskSet' \subseteq TaskSet \cup {t}
  BY Queued
<1>4. 0..attempts \subseteq 0..attempts' /\ (attempts > 0 => attempts' > 0)
  BY <1>1
<1>5. /\ at' \in [place : AtPlaces, k : 0..attempts'] /\ at' = at
      /\ at.place \in {"establishing", "up", "down", "closing"} => at.k # 0
      /\ at.place \in {"down", "closing"} => at.k \in ups'
      /\ at.place = "restarting" => attempts' > 0
  BY <1>4 DEF Types, LoopTypes
<1>6. LoopTypes'
  BY <1>2, <1>5 DEF Types, LoopTypes
<1> QED
  BY <1>2, <1>6

\* Steps that run a task and leave the loop in the middle of nothing.
LEMMA TaskTypesKept ==
  ASSUME Types, NEW op, NEW k, Starts(op, k), UNCHANGED at,
         attempts' \in {attempts, attempts + 1},
         NEW t \in TaskType, tasks' = Tail(tasks) \/ tasks' = Append(Tail(tasks), t)
  PROVE  /\ LoopTypes'
         /\ TaskSet' \subseteq TaskSet \cup {t}
         /\ Task(op, k) \in TaskSet
         /\ active' = active
<1>1. /\ Tail(tasks) \in Seq(TaskType) /\ Len(Tail(tasks)) \in Nat
      /\ batch' \in 0..Len(Tail(tasks)) /\ at = Idle
      /\ TaskSet = SetOf(Tail(tasks)) \cup {Task(op, k)}
      /\ attempts \in Nat
  BY TaskRuns DEF Types, ClientTypes
<1> DEFINE q == Tail(tasks)
<1>2. /\ tasks' \in Seq(TaskType) /\ Len(tasks') >= Len(q) /\ Len(tasks') \in Nat
      /\ SetOf(tasks') \subseteq SetOf(q) \cup {t}
  <2>1. q \in Seq(TaskType) /\ Len(q) \in Nat /\ (tasks' = q \/ tasks' = Append(q, t))
    BY <1>1
  <2> HIDE DEF q
  <2> QED
    BY <2>1, AppendTask
<1>3. batch' \in 0..Len(tasks')
  BY <1>1, <1>2
<1>4. at' \in [place : AtPlaces, k : 0..attempts'] /\ at'.place = "idle"
  BY <1>1 DEF Idle, At, AtPlaces, NoAttempt
<1>5. erring' \subseteq Attempt
  BY DEF Types, LoopTypes, Starts
<1> QED
  BY <1>1, <1>2, <1>3, <1>4, <1>5 DEF LoopTypes, TaskSet, SetOf, Starts

\* handleClose, in the middle of an event or a task.
LEMMA CloseTypesKept ==
  ASSUME Types, usage' = usage, at = Idle, NEW k \in Attempt, k \in ups, handleClose(k),
         UNCHANGED <<clientVars, wrShut, ups, downs>>,
         tasks' \in Seq(TaskType), batch' \in 0..Len(tasks'), TaskSet' \subseteq TaskSet,
         active' \subseteq active, UNCHANGED <<userVars, net, erring>>
  PROVE  Types'
<1>1. ups \subseteq 1..attempts /\ attempts \in Nat /\ UpTo(attempts, Begun, p)
      /\ k \in 1..attempts /\ k # 0
  BY DEF Types, ClientTypes, ConnTypes, PollerTypes
<1>2. attempts' = attempts /\ ups' = ups /\ wrShut' = wrShut /\ at' = At("down", k)
  BY DEF clientVars, handleClose
<1>b. Begun' = Begun /\ k \in Begun
  <2>1. at.place # "up" /\ at'.place # "up"
    BY <1>2 DEF Idle, At
  <2> QED
    BY <1>2, <2>1, BegunKept DEF Begun
<1>3. ClientTypes'
  BY DEF Types, ClientTypes, ConnectorType, clientVars
<1>4. LoopTypes'
  BY <1>1, <1>2 DEF LoopTypes, Types, At, AtPlaces
<1>5. UserTypes'
  BY <1>b, UserTypesKept
<1>6. PollerTypes'
  <2>1. Enters(Conn(k), p, p')
    BY <1>1, OperationsTyped DEF UpTo, handleClose
  <2>2. UpTo(attempts, Begun, p')
    BY <1>1, <1>b, <2>1, StaysUpTo
  <2> QED
    BY <1>2, <1>b, <2>2 DEF Types, PollerTypes
<1>7. ConnTypes'
  <2>1. /\ state_' \in [Attempt -> {"kConnecting", "kConnected", "kDisconnecting", "kDisconnected"}]
        /\ \A j \in Attempt : state_'[j] # "kConnecting" => state_[j] # "kConnecting" \/ j = k
    BY DEF handleClose, Types, ConnTypes
  <2> QED
    BY <1>2, <1>b, <2>1 DEF Types, ConnTypes
<1> QED
  BY <1>3, <1>4, <1>5, <1>6, <1>7 DEF Types

\* A user's callback.
LEMMA CallbackTyped ==
  ASSUME Types, NEW k \in Attempt, callback(k)
  PROVE  /\ state_' \in [Attempt -> {"kConnecting", "kConnected", "kDisconnecting", "kDisconnected"}]
         /\ \A j \in Attempt : state_'[j] # "kConnecting" => state_[j] # "kConnecting" \/ j = k
         /\ tasks' = tasks \/ tasks' = Append(tasks, F(k))
BY DEF callback, Types, ConnTypes, F

\* The steps that call it.
LEMMA CallbackTypesKept ==
  ASSUME Types, usage' = usage, NEW k \in Attempt, callback(k), k \in Begun,
         UNCHANGED <<clientVars, wrShut, userVars, net, p, batch, erring>>, active' \subseteq active,
         UNCHANGED at \/ at' = Idle \/ (at' = At("closing", k) /\ k \in ups),
         Begun' = Begun, ups \subseteq ups', ups' \subseteq Begun, downs' \in [Attempt -> 0..2]
  PROVE  Types'
<1>0. /\ attempts \in Nat /\ attempts' = attempts /\ F(k) \in TaskType /\ Begun \subseteq 1..attempts
      /\ 0 \in 0..attempts
  <2>1. attempts \in Nat /\ attempts' = attempts /\ F(k) \in TaskType
    BY TaskTypes DEF Types, ClientTypes, clientVars
  <2>2. ASSUME NEW j \in Attempt, at = At("up", j)
        PROVE  j \in 1..attempts
    <3>1. at.k = j /\ at.k \in 0..attempts /\ at.k # 0
      BY <2>2 DEF Types, LoopTypes, At
    <3> QED
      BY <2>1, <3>1
  <2>3. ups \subseteq 1..attempts
    BY DEF Types, ConnTypes
  <2>4. Begun \subseteq 1..attempts
    BY <2>2, <2>3 DEF Begun
  <2> QED
    BY <2>1, <2>4
<1>1. /\ state_' \in [Attempt -> {"kConnecting", "kConnected", "kDisconnecting", "kDisconnected"}]
      /\ \A j \in Attempt : state_'[j] # "kConnecting" => state_[j] # "kConnecting" \/ j = k
      /\ tasks' = tasks \/ tasks' = Append(tasks, F(k))
  BY CallbackTyped
<1>2. tasks' \in Seq(TaskType) /\ batch' \in 0..Len(tasks') /\ TaskSet' \subseteq TaskSet \cup {F(k)}
  BY <1>0, <1>1, Queued
<1>3. LoopTypes'
  <2>1. CASE at' = at
    BY <1>0, <1>2, <2>1 DEF Types, LoopTypes
  <2>2. CASE at' = Idle
    BY <1>0, <1>2, <2>2 DEF Types, LoopTypes, Idle, At, AtPlaces, NoAttempt
  <2>3. CASE at' = At("closing", k) /\ k \in ups
    <3>1. k \in 1..attempts
      BY <1>0
    <3> QED
      BY <1>0, <1>2, <2>3, <3>1 DEF Types, LoopTypes, At, AtPlaces
  <2> QED
    BY <2>1, <2>2, <2>3
<1>4. ConnTypes'
  <2>1. \A j \in Attempt : S(j) \in TaskSet' \/ F(j) \in TaskSet' \/ D(j) \in TaskSet' => j \in Begun'
    BY <1>2, KnownTasks, StayKnown
  <2> QED
    BY <1>0, <1>1, <2>1 DEF Types, ConnTypes
<1>5. UserTypes' /\ ClientTypes'
  BY UserTypesKept DEF Types, ClientTypes, clientVars, ConnectorType
<1>6. PollerTypes'
  BY <1>0 DEF Types, PollerTypes
<1> QED
  BY <1>3, <1>4, <1>5, <1>6 DEF Types

\* Every step keeps the types.
LEMMA TypesStep ==
  ASSUME Types, [Next]_vars
  PROVE  Types'
<1>0. /\ attempts \in Nat /\ attempts \in 0..MaxAttempts /\ UpTo(attempts, Begun, p)
      /\ \A k \in 1..attempts : k \in Attempt /\ k # 0 /\ k \in 0..attempts
      /\ ups \subseteq 1..attempts
  BY ClientAssumption DEF Types, ClientTypes, PollerTypes, ConnTypes, Attempt
<1>t. /\ R \in TaskType /\ \A k \in Attempt : F(k) \in TaskType /\ D(k) \in TaskType /\ S(k) \in TaskType
      /\ \A j, k :
           /\ F(j) # S(k) /\ D(j) # S(k) /\ F(j) # D(k)
           /\ R # S(k) /\ R # F(k) /\ R # D(k)
           /\ F(j) = F(k) => j = k
           /\ D(j) = D(k) => j = k
  BY TaskTypes DEF R, St, F, D, S, Task
<1>z. usage' = usage
  BY DEF Next, vars
<1>a. ASSUME NEW k \in Attempt, Handles(Dial(k)) \/ Handles(Conn(k))
      PROVE  /\ k \in 1..attempts /\ active' \subseteq active /\ UNCHANGED <<dispatching, batch, erring>>
             /\ at = Idle
             /\ Handles(Conn(k)) => k \in ups
  BY <1>a, ChannelAttempts, <1>0 DEF Handles, Types, PollerTypes, Attempt
<1>1. CASE UNCHANGED vars
  BY <1>1 DEF Types, ClientTypes, LoopTypes, ConnTypes, UserTypes, PollerTypes, UpTo, vars,
    clientVars, connVars, userVars, loopVars, ConnectorType, TaskSet, Begun
<1>2. CASE poll
  <2>1. /\ active' \subseteq Channels /\ \A c \in active' : c[2] <= attempts
        /\ \A k \in Attempt : Conn(k) \in active' => k \in ups
    <3> SUFFICES ASSUME NEW c \in active'
                 PROVE  c \in Channels /\ c[2] <= attempts /\ \A k \in Attempt : c = Conn(k) => k \in ups
      OBVIOUS
    <3>1. c \in Channels /\ Ready(c)
      BY <1>2 DEF poll, Channels
    <3>2. c # NoChannel /\ c[2] \in Attempt
      BY <3>1 DEF Channels, NoChannel
    <3>3. Begun = ups
      BY <1>2, BegunIdle DEF poll
    <3> QED
      BY <1>0, <3>1, <3>2, <3>3 DEF Ready, UpTo
  <2>2. erring' \subseteq Attempt
    BY <1>2 DEF poll
  <2> QED
    BY <1>2, <1>z, <2>1, <2>2 DEF poll, Types, ClientTypes, LoopTypes, ConnTypes, UserTypes, PollerTypes,
      clientVars, connVars, userVars, ConnectorType, TaskSet, Begun
<1>3. CASE swapFunctors
  <2>1. Len(tasks) \in 0..Len(tasks)
    BY DEF Types, LoopTypes
  <2> QED
    BY <1>3, <1>z, <2>1 DEF swapFunctors, Types, ClientTypes, LoopTypes, ConnTypes, UserTypes,
      PollerTypes, clientVars, connVars, userVars, ConnectorType, TaskSet, Begun
<1>4. ASSUME NEW k \in Attempt, handleError(k)
      PROVE  Types'
  BY <1>4, <1>a, <1>z DEF handleError, Types, ClientTypes, LoopTypes, ConnTypes, UserTypes, PollerTypes,
    clientVars, connVars, userVars, ConnectorType, TaskSet, Begun
<1>5. ASSUME NEW k \in Attempt, handleWrite(k) \/ handleWriteFails(k)
      PROVE  Types'
  <2>1. /\ k \in 1..attempts /\ active' \subseteq active /\ batch' = batch /\ attempts' = attempts
        /\ client' = client /\ connect_' = connect_ /\ net' = net /\ erring' = erring /\ at = Idle
        /\ UNCHANGED <<connVars, userVars>> /\ ups' = ups
    BY <1>5, <1>a DEF handleWrite, handleWriteFails, connVars, clientVars
  <2>2. \/ tasks' = tasks /\ UNCHANGED <<connector, p, connection_, at>>
        \/ /\ tasks' = Append(tasks, R)
           /\ connector' \in {connector, [connector EXCEPT !.state_ = "kConnected"]}
           /\ \/ p' = removeAndResetChannel /\ connection_' = k /\ at' = At("establishing", k)
              \/ /\ p' \in {removeAndResetChannel, Poller!Close(removeAndResetChannel, k)}
                 /\ UNCHANGED <<connection_, at>>
    BY <1>5 DEF handleWrite, handleWriteFails, resetLater, R, clientVars
  <2>b. Begun' = Begun
    <3>1. at' = at \/ (at.place # "up" /\ at'.place # "up")
      BY <2>1, <2>2 DEF Idle, At
    <3> QED
      BY <2>1, <3>1, BegunKept
  <2>3. ClientTypes'
    <3>1. connection_' \in 0..attempts
      BY <1>0, <2>1, <2>2 DEF Types, ClientTypes
    <3>2. connector' \in ConnectorType
      BY <2>2 DEF Types, ClientTypes, ConnectorType
    <3> QED
      BY <1>z, <2>1, <3>1, <3>2 DEF Types, ClientTypes, ConnectorType
  <2>4. /\ tasks' \in Seq(TaskType) /\ batch' \in 0..Len(tasks') /\ TaskSet' \subseteq TaskSet \cup {R}
    BY <1>t, <2>1, <2>2, Queued DEF loopVars
  <2>5. LoopTypes'
    <3>1. CASE at' = at
      BY <2>1, <2>4, <3>1 DEF Types, LoopTypes
    <3>2. CASE at' = At("establishing", k)
      BY <1>0, <2>1, <2>4, <3>2 DEF Types, LoopTypes, At, AtPlaces
    <3> QED
      BY <2>2, <3>1, <3>2
  <2>6. ConnTypes' /\ UserTypes'
    BY <1>0, <1>t, <2>1, <2>4, <2>b, KnownTasks, ConnTypesKept
  <2>7. PollerTypes'
    <3> DEFINE q == removeAndResetChannel
    <3>1. UpTo(attempts, Begun, q)
      BY RemoveAndResetTyped DEF Types
    <3> HIDE DEF q
    <3>2. Enters(Dial(k), q, Poller!Close(q, k))
      BY <3>1, OperationsTyped DEF UpTo
    <3>3. k <= attempts /\ attempts \in Nat
      BY <1>0, <2>1
    <3>4. UpTo(attempts, Begun, p')
      BY <1>0, <2>2, <3>1, <3>2, <3>3, StaysUpTo DEF q
    <3> QED
      BY <2>1, <2>b, <3>4 DEF Types, PollerTypes
  <2> QED
    BY <2>3, <2>5, <2>6, <2>7 DEF Types
<1>6. ASSUME NEW k \in Attempt, handleEventStays(k)
      PROVE  Types'
  <2>1. /\ callback(k) /\ UNCHANGED <<clientVars, wrShut, ups, downs, userVars, net, at, p, batch, erring>>
        /\ active' \subseteq active /\ ups' = ups /\ k \in ups /\ at = Idle
    BY <1>6, <1>a DEF handleEventStays, clientVars
  <2>2. Begun = ups /\ Begun' = Begun
    BY <2>1, BegunIdle, BegunKept
  <2>3. downs' \in [Attempt -> 0..2]
    BY <2>1 DEF Types, ConnTypes
  <2> QED
    BY <1>z, <2>1, <2>2, <2>3, CallbackTypesKept
<1>7. ASSUME NEW k \in Attempt, handleEventCloses(k)
      PROVE  Types'
  <2>1. tasks \in Seq(TaskType) /\ batch \in 0..Len(tasks)
    BY DEF Types, LoopTypes
  <2>2. /\ handleClose(k) /\ UNCHANGED <<clientVars, wrShut, ups, downs, userVars, net, tasks, batch, erring>>
        /\ active' \subseteq active /\ TaskSet' = TaskSet /\ k \in ups /\ at = Idle
    BY <1>7, <1>a DEF handleEventCloses, TaskSet
  <2> QED
    BY <1>z, <2>1, <2>2, CloseTypesKept
<1>8. CASE restart
  <2>1. [connector EXCEPT !.state_ = "kDisconnected", !.connect_ = TRUE] \in ConnectorType
    BY DEF Types, ClientTypes, ConnectorType
  <2> DEFINE conr == [connector EXCEPT !.state_ = "kDisconnected", !.connect_ = TRUE]
  <2>2. /\ startInLoop(conr) /\ at' = Idle
        /\ UNCHANGED <<client, connect_, connection_, connVars, userVars, tasks, loopVars>>
    BY <1>8 DEF restart
  <2> HIDE DEF conr
  <2>3. /\ ClientTypes' /\ UpTo(attempts', Begun, p') /\ attempts' \in {attempts, attempts + 1}
        /\ attempts' \in 0..MaxAttempts
    BY <1>z, <2>1, <2>2, StartTyped DEF Types, conr
  <2>4. /\ TaskSet' = TaskSet /\ batch' = batch /\ active' = active /\ tasks' = tasks /\ ups' = ups
        /\ erring' = erring /\ Begun' = Begun
    <3>1. at.place # "up" /\ at'.place # "up" /\ ups' = ups
      BY <1>8, <2>2 DEF restart, Idle, At, connVars
    <3> QED
      BY <2>2, <3>1, BegunKept DEF TaskSet, loopVars, connVars
  <2>5. LoopTypes'
    BY <2>2, <2>3, <2>4 DEF Types, LoopTypes, Idle, At, AtPlaces, NoAttempt
  <2>6. ConnTypes' /\ UserTypes'
    BY <2>2, <2>3, <2>4, KnownTasks, ConnTypesKept
  <2>7. PollerTypes'
    <3>1. \A c \in active : c[2] \in Attempt /\ c[2] <= attempts'
      BY <1>0, <2>3 DEF Types, PollerTypes, Channels, Attempt
    <3> QED
      BY <2>3, <2>4, <3>1 DEF Types, PollerTypes
  <2> QED
    BY <2>3, <2>5, <2>6, <2>7 DEF Types
<1>9. ASSUME NEW k \in Attempt, connectEstablished(k)
      PROVE  Types'
  <2>1. /\ k \in 1..attempts /\ at' = At("up", k) /\ ups' = ups /\ k \in Attempt /\ k # 0
        /\ p' = Poller!enableReading(p, Conn(k)) /\ state_' = [state_ EXCEPT ![k] = "kConnected"]
        /\ UNCHANGED <<clientVars, wrShut, downs, userVars, net, tasks, erring>>
        /\ batch' = batch /\ active' = active /\ attempts' = attempts
    BY <1>0, <1>9 DEF connectEstablished, Types, LoopTypes, At, Attempt, loopVars, clientVars
  <2>2. Begun \subseteq Begun' /\ k \in Begun' /\ TaskSet' = TaskSet
    <3>1. Begun = ups
      BY <1>9 DEF connectEstablished, Begun, At
    <3> QED
      BY <2>1, <3>1 DEF Begun, TaskSet
  <2>4. LoopTypes'
    BY <1>0, <2>1 DEF Types, LoopTypes, At, AtPlaces
  <2>5. ConnTypes'
    BY <2>1, <2>2 DEF Types, ConnTypes
  <2>6. UserTypes'
    BY <2>1, <2>2, UserTypesKept
  <2>7. PollerTypes'
    <3>1. Enters(Conn(k), p, p') /\ k <= attempts /\ k \in Begun' /\ k \in Attempt
      <4>1. Enters(Conn(k), p, Poller!enableReading(p, Conn(k)))
        BY <1>0, <1>9, OperationsTyped DEF UpTo
      <4> QED
        BY <1>0, <1>9, <2>1, <2>2, <4>1
    <3>2. UpTo(attempts, Begun', p)
      BY <1>0, <2>2, UpToMore
    <3>3. UpTo(attempts, Begun', p')
      BY <1>0, <3>1, <3>2, StaysUpTo
    <3> QED
      BY <2>1, <3>3 DEF Types, PollerTypes
  <2>8. ClientTypes'
    BY <1>z, <2>1 DEF Types, ClientTypes, clientVars, ConnectorType
  <2> QED
    BY <2>4, <2>5, <2>6, <2>7, <2>8 DEF Types
<1>24. ASSUME NEW k \in Attempt, saysUp(k)
       PROVE  Types'
  <2>1. /\ at = At("up", k) /\ at' = Idle /\ ups' = ups \cup {k} /\ callback(k) /\ downs' = downs
        /\ UNCHANGED <<clientVars, wrShut, userVars, net, p, batch, erring>> /\ active' = active
    BY <1>24 DEF saysUp, loopVars
  <2>2. Begun = ups \cup {k} /\ Begun' = ups'
    <3>1. \A j \in Attempt : at = At("up", j) <=> j = k
      BY <2>1 DEF At
    <3>2. \A j \in Attempt : at' # At("up", j)
      BY <2>1 DEF Idle, At
    <3> QED
      BY <2>1, <3>1, <3>2 DEF Begun
  <2>3. downs' \in [Attempt -> 0..2]
    BY <2>1 DEF Types, ConnTypes
  <2> QED
    BY <1>z, <2>1, <2>2, <2>3, CallbackTypesKept
<1>25. ASSUME NEW k \in Attempt, saysDown(k)
       PROVE  Types'
  <2>1. /\ at = At("down", k) /\ at' = At("closing", k) /\ ups' = ups /\ callback(k)
        /\ downs' = [downs EXCEPT ![k] = Count(@)]
        /\ UNCHANGED <<clientVars, wrShut, userVars, net, p, batch, erring>> /\ active' = active
    BY <1>25 DEF saysDown, loopVars
  <2>2. Begun = ups /\ Begun' = Begun /\ k \in ups
    <3>1. at.place # "up" /\ at'.place # "up" /\ k \in ups
      BY <2>1 DEF At, Types, LoopTypes
    <3> QED
      BY <2>1, <3>1, BegunKept DEF Begun, At
  <2>3. downs' \in [Attempt -> 0..2]
    <3>1. \A j \in 0..2 : Count(j) \in 0..2
      BY DEF Count
    <3> QED
      BY <2>1, <3>1 DEF Types, ConnTypes
  <2> QED
    BY <1>z, <2>1, <2>2, <2>3, CallbackTypesKept
<1>10. ASSUME NEW k \in Attempt, removeConnection(k)
       PROVE  Types'
  <2>1. /\ tasks' = Append(tasks, D(k)) /\ connection_' = NoAttempt /\ k \in 1..attempts
        /\ at' \in {At("restarting", NoAttempt), Idle}
        /\ UNCHANGED <<client, connect_, connector, attempts, connVars, userVars, net, p, loopVars>>
        /\ ups' = ups /\ active' = active /\ batch' = batch /\ k \in ups /\ erring' = erring
    BY <1>0, <1>10 DEF removeConnection, D, Types, LoopTypes, At, Attempt, connVars, loopVars
  <2>b. Begun' = Begun /\ k \in Begun
    <3>1. at.place # "up" /\ at'.place # "up"
      BY <1>10, <2>1 DEF removeConnection, Idle, At
    <3> QED
      BY <2>1, <3>1, BegunKept DEF Begun
  <2>2. tasks' \in Seq(TaskType) /\ batch' \in 0..Len(tasks') /\ TaskSet' \subseteq TaskSet \cup {D(k)}
    BY <1>t, <2>1, Queued DEF loopVars
  <2>3. LoopTypes'
    <3>1. attempts > 0 /\ attempts' = attempts
      BY <1>0, <2>1
    <3> QED
      BY <1>0, <2>1, <2>2, <3>1 DEF Types, LoopTypes, Idle, At, AtPlaces, NoAttempt
  <2>4. ConnTypes' /\ UserTypes'
    BY <1>0, <1>t, <2>1, <2>2, <2>b, KnownTasks, ConnTypesKept
  <2>5. PollerTypes'
    BY <2>1, <2>b, PollerTypesKept DEF loopVars
  <2>6. ClientTypes'
    BY <1>0, <1>z, <2>1 DEF Types, ClientTypes, ConnectorType, NoAttempt
  <2> QED
    BY <2>3, <2>4, <2>5, <2>6 DEF Types
<1>11. CASE runStartInLoop
  <2>1. /\ startInLoop(connector) /\ Starts("startInLoop", NoAttempt) /\ tasks' = Tail(tasks)
        /\ UNCHANGED <<client, connect_, connection_, connVars, userVars, at>> /\ ups' = ups
        /\ Begun' = Begun
    BY <1>11, BegunKept DEF runStartInLoop, connVars
  <2>2. /\ ClientTypes' /\ UpTo(attempts', Begun, p') /\ attempts' \in {attempts, attempts + 1}
        /\ attempts' \in 0..MaxAttempts
    BY <1>z, <2>1, StartTyped DEF Types, ClientTypes
  <2>3. LoopTypes' /\ TaskSet' \subseteq TaskSet \cup {R} /\ active' = active
    BY <1>t, <2>1, <2>2, TaskTypesKept
  <2>4. ConnTypes' /\ UserTypes'
    BY <1>t, <2>1, <2>2, <2>3, KnownTasks, ConnTypesKept
  <2>5. PollerTypes'
    <3>1. \A c \in active : c[2] \in Attempt /\ c[2] <= attempts'
      BY <1>0, <2>2 DEF Types, PollerTypes, Channels, Attempt
    <3> QED
      BY <2>1, <2>2, <2>3, <3>1 DEF Types, PollerTypes
  <2> QED
    BY <2>2, <2>3, <2>4, <2>5 DEF Types
<1>12. CASE stopInLoop
  <2>1. /\ Starts("stopInLoop", NoAttempt)
        /\ UNCHANGED <<client, connect_, connection_, attempts, connVars, userVars, net, at>> /\ ups' = ups
        /\ tasks' = Tail(tasks) \/ tasks' = Append(Tail(tasks), R)
        /\ connector' = connector \/ connector' = [connector EXCEPT !.state_ = "kDisconnected"]
        /\ p' = p \/ p' = removeAndResetChannel
        /\ Begun' = Begun
    BY <1>12, BegunKept DEF stopInLoop, resetLater, R, connVars
  <2>2. LoopTypes' /\ TaskSet' \subseteq TaskSet \cup {R} /\ active' = active
    BY <1>t, <2>1, TaskTypesKept
  <2>3. ConnTypes' /\ UserTypes'
    BY <1>0, <1>t, <2>1, <2>2, KnownTasks, ConnTypesKept
  <2>4. PollerTypes'
    BY <2>1, <2>2, RemoveAndResetTyped DEF Types, PollerTypes
  <2>5. ClientTypes'
    BY <1>z, <2>1 DEF Types, ClientTypes, ConnectorType
  <2> QED
    BY <2>2, <2>3, <2>4, <2>5 DEF Types
<1>13. CASE resetChannel
  <2>1. /\ Starts("resetChannel", NoAttempt)
        /\ UNCHANGED <<client, connect_, connection_, attempts, connVars, userVars, net, at, p>> /\ ups' = ups
        /\ tasks' = Tail(tasks)
        /\ connector' = [connector EXCEPT !.channel_ = NoAttempt]
        /\ Begun' = Begun
    BY <1>13, BegunKept DEF resetChannel, connVars
  <2>2. LoopTypes' /\ TaskSet' \subseteq TaskSet \cup {R} /\ active' = active
    BY <1>t, <2>1, TaskTypesKept
  <2>3. ConnTypes' /\ UserTypes'
    BY <1>0, <1>t, <2>1, <2>2, KnownTasks, ConnTypesKept
  <2>4. PollerTypes'
    BY <2>1, <2>2, PollerTypesKept
  <2>5. ClientTypes'
    <3>1. NoAttempt \in 0..attempts
      BY <1>0 DEF NoAttempt
    <3> QED
      BY <1>z, <2>1, <3>1 DEF Types, ClientTypes, ConnectorType
  <2> QED
    BY <2>2, <2>3, <2>4, <2>5 DEF Types
<1>14. ASSUME NEW k \in Attempt, shutdownInLoop(k)
       PROVE  Types'
  <2>1. /\ Starts("shutdownInLoop", k) /\ tasks' = Tail(tasks) /\ wrShut' = wrShut \cup {k}
        /\ UNCHANGED <<clientVars, state_, ups, downs, userVars, net, at, p>> /\ attempts' = attempts
        /\ Begun' = Begun /\ Begun = ups
    BY <1>14, BegunKept, BegunIdle DEF shutdownInLoop, clientVars, Starts
  <2>2. /\ LoopTypes' /\ TaskSet' \subseteq TaskSet \cup {R} /\ active' = active
        /\ S(k) \in TaskSet
    BY <1>t, <2>1, TaskTypesKept DEF S
  <2>3. ConnTypes'
    <3>1. \A j \in Attempt : S(j) \in TaskSet' \/ F(j) \in TaskSet' \/ D(j) \in TaskSet' => j \in Begun'
      BY <2>1, <2>2, KnownTasks, StayKnown
    <3> QED
      BY <2>1, <2>2, <3>1 DEF Types, ConnTypes
  <2>4. UserTypes' /\ PollerTypes' /\ ClientTypes'
    BY <1>z, <2>1, <2>2, UserTypesKept, PollerTypesKept DEF Types, ClientTypes, clientVars, ConnectorType
  <2> QED
    BY <2>2, <2>3, <2>4 DEF Types
<1>15. ASSUME NEW k \in Attempt, forceCloseInLoop(k)
       PROVE  Types'
  <2>1. /\ Starts("forceCloseInLoop", k) /\ tasks' = Tail(tasks)
        /\ UNCHANGED <<clientVars, wrShut, ups, downs, userVars, net, erring>> /\ attempts' = attempts
        /\ ups' = ups /\ at = Idle /\ Begun = ups
    BY <1>15, BegunIdle DEF forceCloseInLoop, clientVars, Starts
  <2>2. CASE handleClose(k)
    <3>1. /\ Tail(tasks) \in Seq(TaskType) /\ batch' \in 0..Len(Tail(tasks))
          /\ SetOf(Tail(tasks)) \subseteq TaskSet /\ F(k) \in TaskSet
      BY <2>1, TaskRuns DEF Types, F
    <3>2. TaskSet' \subseteq TaskSet /\ active' = active
      BY <2>1, <3>1 DEF TaskSet, SetOf, Starts
    <3>3. k \in ups /\ tasks' \in Seq(TaskType) /\ batch' \in 0..Len(tasks')
      BY <2>1, <3>1 DEF Types, ConnTypes
    <3> QED
      BY <1>z, <2>1, <2>2, <3>2, <3>3, CloseTypesKept
  <2>3. CASE UNCHANGED <<state_, p, at>>
    <3>b. Begun' = Begun
      BY <2>1, <2>3, BegunKept
    <3>1. LoopTypes' /\ TaskSet' \subseteq TaskSet \cup {R} /\ active' = active
      BY <1>t, <2>1, <2>3, TaskTypesKept
    <3>2. ConnTypes' /\ UserTypes'
      BY <1>0, <1>t, <2>1, <2>3, <3>1, <3>b, KnownTasks, ConnTypesKept DEF connVars
    <3>3. PollerTypes' /\ ClientTypes'
      BY <1>z, <2>1, <2>3, <3>1, <3>b, PollerTypesKept DEF Types, ClientTypes, clientVars, ConnectorType
    <3> QED
      BY <3>1, <3>2, <3>3 DEF Types
  <2> QED
    BY <1>15, <2>2, <2>3 DEF forceCloseInLoop
<1>16. ASSUME NEW k \in Attempt, connectDestroyed(k)
       PROVE  Types'
  <2>1. /\ Starts("connectDestroyed", k) /\ tasks' = Tail(tasks)
        /\ UNCHANGED <<clientVars, wrShut, ups, userVars, net, at>> /\ attempts' = attempts /\ ups' = ups
        /\ Begun' = Begun /\ Begun = ups
    BY <1>16, BegunKept, BegunIdle DEF connectDestroyed, clientVars, Starts
  <2>2. LoopTypes' /\ TaskSet' \subseteq TaskSet \cup {R} /\ active' = active /\ D(k) \in TaskSet
    BY <1>t, <2>1, TaskTypesKept DEF D
  <2>3. k \in ups /\ k \in 1..attempts /\ k <= attempts
    <3>1. k \in ups
      BY <2>1, <2>2 DEF Types, ConnTypes
    <3> QED
      BY <1>0, <3>1
  <2> DEFINE s == Poller!disableAll(p, Conn(k))
  <2>4. Enters(Conn(k), p, s) /\ Enters(Conn(k), p, Poller!removeChannel(p, Conn(k)))
    BY <1>0, OperationsTyped DEF UpTo
  <2>5. /\ p' \in {Poller!removeChannel(s, Conn(k)), Poller!removeChannel(p, Conn(k))}
        /\ state_' \in {state_, [state_ EXCEPT ![k] = "kDisconnected"]}
        /\ downs' \in {downs, [downs EXCEPT ![k] = Count(@)]}
    BY <1>16 DEF connectDestroyed
  <2> HIDE DEF s
  <2>6. UpTo(attempts, Begun, s)
    BY <1>0, <2>1, <2>3, <2>4, StaysUpTo
  <2>7. Enters(Conn(k), s, Poller!removeChannel(s, Conn(k)))
    BY <2>6, OperationsTyped DEF UpTo
  <2>8. UpTo(attempts, Begun, p')
    BY <1>0, <2>1, <2>3, <2>4, <2>5, <2>6, <2>7, StaysUpTo
  <2>9. ConnTypes'
    <3>1. \A j \in 0..2 : Count(j) \in 0..2
      BY DEF Count
    <3>2. downs' \in [Attempt -> 0..2]
      BY <2>5, <3>1 DEF Types, ConnTypes
    <3>3. \A j \in Attempt : S(j) \in TaskSet' \/ F(j) \in TaskSet' \/ D(j) \in TaskSet' => j \in Begun'
      BY <2>1, <2>2, KnownTasks, StayKnown
    <3> QED
      BY <2>1, <2>3, <2>5, <3>2, <3>3 DEF Types, ConnTypes
  <2>10. UserTypes' /\ ClientTypes' /\ PollerTypes'
    BY <1>z, <2>1, <2>2, <2>8, UserTypesKept DEF Types, ClientTypes, clientVars, ConnectorType,
      PollerTypes
  <2> QED
    BY <2>2, <2>9, <2>10 DEF Types
<1>17. ASSUME NEW k \in Attempt, network(k)
       PROVE  Types'
  <2>1. net' \in [Attempt -> {"none", "dialing", "open", "refused", "closed", "reset"}]
    BY <1>17 DEF network, Types, ClientTypes
  <2> QED
    BY <1>17, <1>z, <2>1 DEF network, Types, ClientTypes, LoopTypes, ConnTypes, UserTypes, PollerTypes,
      clientVars, connVars, userVars, loopVars, ConnectorType, TaskSet, Begun
<1>u. ASSUME NEW u \in User, NEW places, NEW next \in [place : CallPlaces, k : 0..MaxAttempts],
             Continues(u, places, next)
      PROVE  call' \in [User -> [place : CallPlaces, k : 0..MaxAttempts]]
  BY <1>u DEF Continues, Types, UserTypes
<1>n. NoAttempt \in 0..MaxAttempts /\ \A k \in Attempt : k \in 0..MaxAttempts
  BY ClientAssumption DEF NoAttempt, Attempt
<1>18. ASSUME NEW u \in User, setsConnectorConnect(u)
       PROVE  Types'
  <2>1. PICK next \in {At("startInLoop", NoAttempt), At("stopInLoop", NoAttempt)} :
          Continues(u, {"connect", "stop"}, next)
    BY <1>18 DEF setsConnectorConnect
  <2>2. next \in [place : CallPlaces, k : 0..MaxAttempts]
        /\ next.place \notin {"checked", "shutdownInLoop"} /\ next.k = NoAttempt
    BY <1>n, <2>1 DEF At, CallPlaces
  <2>3. call' \in [User -> [place : CallPlaces, k : 0..MaxAttempts]]
    BY <1>u, <2>1, <2>2
  <2>4. /\ UNCHANGED <<client, connect_, connection_, attempts, connVars, connects, net, tasks, at, p, loopVars>>
        /\ connector' = [connector EXCEPT !.connect_ = (call[u].place = "connect")]
    BY <1>18 DEF setsConnectorConnect
  <2>5. UserTypes'
    <3>1. \A v \in User : call'[v] = IF v = u THEN next ELSE call[v]
      BY <2>1 DEF Continues, Types, UserTypes
    <3> QED
      BY <2>2, <2>3, <2>4, <3>1 DEF Types, UserTypes, connVars, Begun
  <2>6. connector' \in ConnectorType
    BY <2>4 DEF Types, ClientTypes, ConnectorType
  <2>7. ClientTypes'
    BY <1>z, <2>4, <2>6 DEF Types, ClientTypes, ConnectorType
  <2>8. LoopTypes' /\ ConnTypes' /\ PollerTypes'
    BY <2>4 DEF Types, LoopTypes, ConnTypes, PollerTypes, connVars, loopVars, TaskSet, Begun
  <2> QED
    BY <2>5, <2>7, <2>8 DEF Types
<1>19. ASSUME NEW u \in User, disconnectLocks(u)
       PROVE  Types'
  <2>1. PICK next \in {At("checked", connection_), Idle} :
          /\ Continues(u, {"disconnect"}, next)
          /\ next # Idle => connection_ # NoAttempt /\ state_[connection_] = "kConnected"
    BY <1>19 DEF disconnectLocks, Runnable
  <2>2. /\ next \in [place : CallPlaces, k : 0..MaxAttempts]
        /\ next.place \in {"checked", "shutdownInLoop"} => next.k \in Begun
        /\ next.place \notin {"startInLoop", "stopInLoop"}
    <3>1. connection_ \in 0..MaxAttempts /\ (connection_ # NoAttempt => connection_ \in Attempt)
      BY <1>0, ClientAssumption DEF Types, ClientTypes, Attempt, NoAttempt
    <3> QED
      BY <1>n, <2>1, <3>1 DEF At, Idle, CallPlaces, Types, ConnTypes
  <2>3. call' \in [User -> [place : CallPlaces, k : 0..MaxAttempts]]
    BY <1>u, <2>1, <2>2
  <2>4. UNCHANGED <<clientVars, connVars, connects, net, tasks, at, p, loopVars>>
    BY <1>19 DEF disconnectLocks
  <2>5. UserTypes'
    <3>1. \A v \in User : call'[v] = IF v = u THEN next ELSE call[v]
      BY <2>1 DEF Continues, Types, UserTypes
    <3> QED
      BY <2>2, <2>3, <2>4, <3>1 DEF Types, UserTypes, connVars, Begun
  <2>6. ClientTypes' /\ LoopTypes' /\ ConnTypes' /\ PollerTypes'
    BY <1>z, <2>4 DEF Types, LoopTypes, ConnTypes, PollerTypes, connVars, loopVars, TaskSet, clientVars,
      ClientTypes, ConnectorType, Begun
  <2> QED
    BY <2>5, <2>6 DEF Types
<1>20. ASSUME NEW u \in User, shutdownSets(u)
       PROVE  Types'
  <2> DEFINE next == At("shutdownInLoop", call[u].k)
  <2>1. /\ Continues(u, {"checked"}, next)
        /\ call[u].k \in Begun /\ call[u].k \in 0..MaxAttempts
    BY <1>20 DEF shutdownSets, Continues, Types, UserTypes
  <2>2. next \in [place : CallPlaces, k : 0..MaxAttempts] /\ next.k \in Begun /\ next.place = "shutdownInLoop"
    BY <2>1 DEF At, CallPlaces
  <2>3. call' \in [User -> [place : CallPlaces, k : 0..MaxAttempts]]
    BY <1>u, <2>1, <2>2
  <2>4. /\ UNCHANGED <<clientVars, wrShut, ups, downs, connects, net, tasks, at, p, loopVars>>
        /\ state_' = [state_ EXCEPT ![call[u].k] = "kDisconnecting"]
    BY <1>20 DEF shutdownSets
  <2>5. UserTypes'
    <3>1. \A v \in User : call'[v] = IF v = u THEN next ELSE call[v]
      BY <2>1 DEF Continues, Types, UserTypes
    <3> HIDE DEF next
    <3> QED
      BY <2>2, <2>3, <2>4, <3>1 DEF Types, UserTypes, Begun
  <2>6. ClientTypes' /\ LoopTypes' /\ PollerTypes'
    BY <1>z, <2>4 DEF Types, LoopTypes, PollerTypes, loopVars, TaskSet, clientVars, ClientTypes,
      ConnectorType, Begun
  <2>7. ConnTypes'
    <3>1. /\ TaskSet' = TaskSet /\ wrShut' = wrShut /\ ups' = ups /\ downs' = downs /\ attempts' = attempts
          /\ Begun' = Begun
      BY <2>4 DEF TaskSet, clientVars, Begun
    <3> QED
      BY <2>1, <2>4, <3>1 DEF Types, ConnTypes
  <2> QED
    BY <2>5, <2>6, <2>7 DEF Types
<1>21. ASSUME NEW u \in User, queues(u)
       PROVE  Types'
  <2> DEFINE t == Task(call[u].place, call[u].k)
  <2>1. /\ Continues(u, {"startInLoop", "stopInLoop", "shutdownInLoop"}, Idle) /\ tasks' = Append(tasks, t)
        /\ UNCHANGED <<clientVars, connVars, connects, net, at, p, loopVars>>
        /\ ups' = ups /\ batch' = batch /\ attempts' = attempts /\ active' = active /\ erring' = erring
        /\ Begun' = Begun
    BY <1>21, BegunKept DEF queues, connVars, loopVars, clientVars
  <2>2. Idle \in [place : CallPlaces, k : 0..MaxAttempts] /\ Idle.place = "idle"
    BY <1>n DEF Idle, At, CallPlaces
  <2>3. call' \in [User -> [place : CallPlaces, k : 0..MaxAttempts]]
    BY <1>u, <2>1, <2>2
  <2>4. /\ call[u].place \in {"startInLoop", "stopInLoop", "shutdownInLoop"}
        /\ call[u].k \in 0..MaxAttempts
        /\ call[u].place = "shutdownInLoop" => call[u].k \in Begun
    BY <2>1 DEF Continues, Types, UserTypes
  <2>5. Known(t, Begun')
    BY <2>1, <2>4 DEF Known, Task, TaskType, S, F, D
  <2> HIDE DEF t
  <2>6. LoopTypes' /\ TaskSet' \subseteq TaskSet \cup {t}
    BY <2>1, <2>5, LoopTypesKept DEF Known
  <2>7. UserTypes'
    <3>1. \A v \in User : call'[v] = IF v = u THEN Idle ELSE call[v]
      BY <2>1 DEF Continues, Types, UserTypes
    <3> QED
      BY <2>1, <2>2, <2>3, <3>1 DEF Types, UserTypes
  <2>8. ConnTypes'
    <3>1. \A j \in Attempt : S(j) \in TaskSet' \/ F(j) \in TaskSet' \/ D(j) \in TaskSet' => j \in Begun'
      BY <2>1, <2>5, <2>6, StayKnown
    <3> QED
      BY <2>1, <3>1 DEF Types, ConnTypes, connVars
  <2>9. ClientTypes' /\ PollerTypes'
    BY <1>z, <2>1, PollerTypesKept DEF Types, ClientTypes, clientVars, ConnectorType
  <2> QED
    BY <2>6, <2>7, <2>8, <2>9 DEF Types
<1>22. ASSUME NEW u \in User, NEW op \in usage.remote, setsConnect(u, op)
       PROVE  Types'
  <2> DEFINE next == At(op, NoAttempt)
  <2>1. next \in [place : CallPlaces, k : 0..MaxAttempts]
        /\ next.place \notin {"checked", "shutdownInLoop"} /\ next.k = NoAttempt
    <3>1. op \in {"connect", "disconnect", "stop"}
      BY ClientAssumption DEF Types, ClientTypes
    <3> QED
      BY <1>n, <3>1 DEF At, CallPlaces
  <2>2. /\ Continues(u, {"idle"}, next)
        /\ UNCHANGED <<client, connection_, connector, attempts, connVars, net, tasks, at, p, loopVars>>
        /\ connects' = connects + (IF op = "connect" THEN 1 ELSE 0) /\ connects' <= MaxConnects
        /\ connect_' = (op = "connect")
    BY <1>22 DEF setsConnect
  <2> HIDE DEF next
  <2>3. connects' \in 0..MaxConnects
    <3>1. connects \in Nat
      BY DEF Types, UserTypes
    <3>2. connects' \in Nat
      BY <2>2, <3>1
    <3> QED
      BY <2>2, <3>2, ClientAssumption
  <2>4. call' \in [User -> [place : CallPlaces, k : 0..MaxAttempts]]
    BY <1>u, <2>1, <2>2
  <2>5. UserTypes'
    <3>1. \A v \in User : call'[v] = IF v = u THEN next ELSE call[v]
      BY <2>2 DEF Continues, Types, UserTypes
    <3> QED
      BY <2>1, <2>2, <2>3, <2>4, <3>1 DEF Types, UserTypes, connVars, Begun
  <2>6. ClientTypes' /\ LoopTypes' /\ ConnTypes' /\ PollerTypes'
    BY <1>z, <2>2 DEF Types, LoopTypes, ConnTypes, PollerTypes, connVars, loopVars, TaskSet, clientVars,
      ClientTypes, ConnectorType, Begun
  <2> QED
    BY <2>5, <2>6 DEF Types
<1>23. CASE destroyClient
  <2> DEFINE k == connection_
  <2>1. /\ client' = "gone" /\ connection_' = NoAttempt /\ k # NoAttempt
        /\ UNCHANGED <<connect_, connector, attempts, wrShut, ups, downs, userVars, net, at, p, loopVars>>
        /\ \/ UNCHANGED <<state_, tasks>>
           \/ /\ Runnable("forceClose", state_[k])
              /\ state_' = [state_ EXCEPT ![k] = "kDisconnecting"]
              /\ tasks' = Append(tasks, F(k))
    BY <1>23 DEF destroyClient, F
  <2>2. /\ batch' = batch /\ active' = active /\ k \in Attempt /\ attempts' = attempts /\ ups' = ups
        /\ erring' = erring /\ Begun' = Begun
    BY <1>0, <2>1, ClientAssumption, BegunKept DEF loopVars, Types, ClientTypes, Attempt, NoAttempt
  <2>3. CASE UNCHANGED <<state_, tasks>>
    BY <1>0, <1>z, <2>1, <2>2, <2>3 DEF Types, LoopTypes, ConnTypes, PollerTypes, TaskSet, NoAttempt,
      ClientTypes, ConnectorType, UserTypes, userVars
  <2>4. CASE /\ Runnable("forceClose", state_[k])
             /\ state_' = [state_ EXCEPT ![k] = "kDisconnecting"]
             /\ tasks' = Append(tasks, F(k))
    <3>1. k \in Begun
      BY <2>2, <2>4 DEF Runnable, Types, ConnTypes
    <3>2. F(k) \in TaskType /\ Known(F(k), Begun')
      BY <1>t, <2>2, <3>1, KnownTasks
    <3>3. LoopTypes' /\ TaskSet' \subseteq TaskSet \cup {F(k)}
      BY <2>1, <2>2, <2>4, <3>2, LoopTypesKept
    <3>4. ConnTypes'
      <4>1. \A j \in Attempt : S(j) \in TaskSet' \/ F(j) \in TaskSet' \/ D(j) \in TaskSet' => j \in Begun'
        BY <2>2, <3>2, <3>3, StayKnown
      <4> QED
        BY <2>1, <2>2, <2>4, <3>1, <4>1 DEF Types, ConnTypes
    <3>5. UserTypes' /\ ClientTypes' /\ PollerTypes'
      BY <1>0, <1>z, <2>1, <2>2, UserTypesKept, PollerTypesKept DEF Types, ClientTypes, ConnectorType,
        NoAttempt
    <3> QED
      BY <3>3, <3>4, <3>5 DEF Types
  <2> QED
    BY <2>1, <2>3, <2>4
<1> QED
  BY <1>1, <1>2, <1>3, <1>4, <1>5, <1>6, <1>7, <1>8, <1>9, <1>10, <1>11, <1>12, <1>13, <1>14, <1>15,
     <1>16, <1>17, <1>18, <1>19, <1>20, <1>21, <1>22, <1>23, <1>24, <1>25
  DEF Next, Loop, Continue, Tasks, UserContinues

\* Initially every variable has its type.
LEMMA TypesInit ==
  ASSUME Init
  PROVE  Types
<1>1. ClientTypes /\ UserTypes
  BY ClientAssumption DEF Init, ClientTypes, ConnectorType, UserTypes, NoAttempt, Idle, At,
    CallPlaces
<1>2. TaskSet = {} /\ LoopTypes /\ ConnTypes
  BY EmptyQueue, ClientAssumption DEF Init, LoopTypes, ConnTypes, TaskSet, SetOf, Idle, At,
    AtPlaces, NoAttempt
<1>3. PollerTypes
  <2>1. p = Poller!NewPoller /\ active = {}
    BY DEF Init
  <2>2. p \in Poller!Pollers
    BY <2>1 DEF Poller!NewPoller, Poller!Pollers
  <2>3. \A g \in Attempt : p.ptr[g] = NoChannel
    BY <2>1 DEF Poller!NewPoller
  <2> QED
    BY <2>1, <2>2, <2>3 DEF PollerTypes, UpTo, NoChannel, Conn
<1> QED
  BY <1>1, <1>2, <1>3 DEF Types

\* Types hold in every state.
LEMMA TypesHold == Spec => []Types
BY TypesInit, TypesStep, PTL DEF Spec

\* Every variable has its type.
THEOREM TypeCorrect == Spec => []TypeOK
<1>1. Types => TypeOK
  BY DEF Types, ClientTypes, LoopTypes, ConnTypes, UserTypes, PollerTypes, UpTo, TypeOK,
    ConnectorType, Channels
<1> QED
  BY <1>1, TypesHold, PTL

-----------------------------------------------------------------------------
(* A stop is not lost *)

\* Steps that leave the Connector and the users' calls alone, and run another task.
LEMMA StopKept ==
  ASSUME StoppedAttemptEnds, UNCHANGED <<connector, call>>,
         Task("stopInLoop", NoAttempt) \in TaskSet => Task("stopInLoop", NoAttempt) \in TaskSet'
  PROVE  StoppedAttemptEnds'
BY DEF StoppedAttemptEnds

\* A task that is appended leaves the others where they are.
LEMMA TasksStay ==
  ASSUME Types, NEW t \in TaskType, tasks' = tasks \/ tasks' = Append(tasks, t)
  PROVE  TaskSet \subseteq TaskSet'
<1>1. SetOf(tasks) \subseteq SetOf(tasks')
  BY AppendTask DEF Types, LoopTypes
<1> QED
  BY <1>1 DEF TaskSet, SetOf

\* A task that is run leaves the others.
LEMMA OtherTasksStay ==
  ASSUME Types, NEW op, NEW k, Starts(op, k),
         NEW t \in TaskType, tasks' = Tail(tasks) \/ tasks' = Append(Tail(tasks), t)
  PROVE  TaskSet \subseteq TaskSet' \cup {Task(op, k)}
<1> DEFINE q == Tail(tasks)
<1>1. q \in Seq(TaskType) /\ TaskSet = SetOf(q) \cup {Task(op, k)}
  BY TaskRuns DEF Types
<1>2. tasks' = q \/ tasks' = Append(q, t)
  OBVIOUS
<1> HIDE DEF q
<1>3. SetOf(q) \subseteq SetOf(tasks')
  BY <1>1, <1>2, AppendTask
<1> QED
  BY <1>1, <1>3 DEF TaskSet, SetOf

\* An attempt that is no longer wanted has a stop in front of it, after every step.
LEMMA StopStep ==
  ASSUME Types, [Next]_vars, StoppedAttemptEnds
  PROVE  StoppedAttemptEnds'
<1> DEFINE Stop == Task("stopInLoop", NoAttempt)
<1>0. /\ R \in TaskType /\ \A k \in Attempt : F(k) \in TaskType /\ D(k) \in TaskType
  BY TaskTypes
<1>c. connector \in ConnectorType
  BY DEF Types, ClientTypes
<1>1. CASE UNCHANGED <<connector, call, tasks>>
  BY <1>1, StopKept DEF TaskSet
<1>2. ASSUME NEW t \in TaskType, UNCHANGED <<connector, call>>,
             tasks' = tasks \/ tasks' = Append(tasks, t)
      PROVE  StoppedAttemptEnds'
  BY <1>2, StopKept, TasksStay
<1>3. ASSUME NEW op, NEW k, Starts(op, k), op # "stopInLoop", tasks' = Tail(tasks),
             UNCHANGED call,
             \/ connector' = connector
             \/ connector'.state_ = connector.state_ /\ connector'.connect_ = connector.connect_
      PROVE  StoppedAttemptEnds'
  <2>1. Stop \in TaskSet => Stop \in TaskSet'
    BY <1>0, <1>3, OtherTasksStay DEF Task
  <2> QED
    BY <1>3, <2>1 DEF StoppedAttemptEnds
<1>4. ASSUME NEW conr \in ConnectorType, startInLoop(conr), UNCHANGED call,
             conr.state_ = "kConnecting" => conr = connector,
             Stop \in TaskSet => Stop \in TaskSet'
      PROVE  StoppedAttemptEnds'
  <2>1. \/ connector' = conr
        \/ connector' = [conr EXCEPT !.state_ = "kConnecting", !.channel_ = attempts + 1] /\ conr.connect_
    BY <1>4 DEF startInLoop, connect
  <2>2. CASE connector' = conr
    BY <1>4, <2>2 DEF StoppedAttemptEnds
  <2>3. CASE connector' = [conr EXCEPT !.state_ = "kConnecting", !.channel_ = attempts + 1] /\ conr.connect_
    <3>1. connector'.connect_ = conr.connect_
      BY <2>3 DEF ConnectorType
    <3> QED
      BY <2>3, <3>1 DEF StoppedAttemptEnds
  <2> QED
    BY <2>1, <2>2, <2>3
<1>5. ASSUME NEW k \in Attempt, handleWrite(k)
      PROVE  StoppedAttemptEnds'
  <2>1. CASE connector' = connector /\ tasks' = tasks
    BY <1>5, <2>1, <1>1 DEF handleWrite, userVars
  <2>2. CASE connector' = [connector EXCEPT !.state_ = "kConnected"]
    BY <1>c, <2>2 DEF StoppedAttemptEnds, ConnectorType
  <2> QED
    BY <1>5, <2>1, <2>2 DEF handleWrite
<1>6. CASE restart
  <2> DEFINE conr == [connector EXCEPT !.state_ = "kDisconnected", !.connect_ = TRUE]
  <2>1. /\ conr \in ConnectorType /\ conr.state_ = "kDisconnected"
        /\ startInLoop(conr) /\ UNCHANGED <<call, tasks>>
    BY <1>6, <1>c DEF restart, ConnectorType, userVars
  <2> HIDE DEF conr
  <2>2. TaskSet' = TaskSet
    BY <2>1 DEF TaskSet
  <2> QED
    BY <1>4, <2>1, <2>2
<1>7. CASE runStartInLoop
  <2>1. /\ Starts("startInLoop", NoAttempt) /\ tasks' = Tail(tasks) /\ startInLoop(connector)
        /\ UNCHANGED call
    BY <1>7 DEF runStartInLoop, userVars
  <2>2. Stop \in TaskSet => Stop \in TaskSet'
    BY <1>0, <2>1, OtherTasksStay DEF Task
  <2> QED
    BY <1>4, <1>c, <2>1, <2>2
<1>8. CASE stopInLoop
  <2>1. connector'.state_ # "kConnecting"
    BY <1>8, <1>c DEF stopInLoop, ConnectorType
  <2> QED
    BY <2>1 DEF StoppedAttemptEnds
<1>9. CASE resetChannel
  BY <1>3, <1>9, <1>c DEF resetChannel, ConnectorType, userVars
<1>10. ASSUME NEW k \in Attempt, shutdownInLoop(k) \/ forceCloseInLoop(k) \/ connectDestroyed(k)
       PROVE  StoppedAttemptEnds'
  BY <1>3, <1>10 DEF shutdownInLoop, forceCloseInLoop, connectDestroyed, clientVars, userVars
<1>11. ASSUME NEW k \in Attempt,
              \/ connectEstablished(k) \/ saysUp(k) \/ handleEventStays(k) \/ handleEventCloses(k)
              \/ saysDown(k) \/ removeConnection(k)
              \/ handleError(k) \/ handleWriteFails(k) \/ network(k)
       PROVE  StoppedAttemptEnds'
  <2>1. UNCHANGED <<connector, call>>
    BY <1>11 DEF connectEstablished, saysUp, handleEventStays, handleEventCloses, saysDown,
      removeConnection, clientVars, userVars, handleError, handleWriteFails, network
  <2>2. \E t \in TaskType : tasks' = tasks \/ tasks' = Append(tasks, t)
    BY <1>0, <1>11 DEF connectEstablished, saysUp, handleEventStays, handleEventCloses, saysDown,
      removeConnection, callback, F, D, R, handleError, handleWriteFails, resetLater, network
  <2> QED
    BY <1>2, <2>1, <2>2
<1>12. CASE poll \/ swapFunctors
  BY <1>1, <1>12 DEF poll, swapFunctors, clientVars, userVars
<1>13. CASE destroyClient
  <2>1. connection_ # NoAttempt => connection_ \in Attempt
    BY ClientAssumption DEF Types, ClientTypes, Attempt, NoAttempt
  <2>2. connector' = connector /\ call' = call /\ \E t \in TaskType : tasks' = tasks \/ tasks' = Append(tasks, t)
    BY <1>0, <1>13, <2>1 DEF destroyClient, userVars, F
  <2> QED
    BY <1>2, <2>2
<1>p. call \in [User -> [place : CallPlaces, k : 0..MaxAttempts]]
  BY DEF Types, UserTypes
<1>14. ASSUME NEW u \in User, setsConnectorConnect(u)
       PROVE  StoppedAttemptEnds'
  <2>1. /\ call[u].place \in {"connect", "stop"}
        /\ connector'.connect_ = (call[u].place = "connect")
        /\ call[u].place = "stop" => call'[u].place = "stopInLoop"
    BY <1>14, <1>c, <1>p DEF setsConnectorConnect, Continues, ConnectorType, At
  <2> QED
    BY <2>1 DEF StoppedAttemptEnds
<1>15. ASSUME NEW u \in User,
              disconnectLocks(u) \/ shutdownSets(u) \/ \E op \in usage.remote : setsConnect(u, op)
       PROVE  StoppedAttemptEnds'
  <2>1. /\ UNCHANGED <<connector, tasks>>
        /\ \A v \in User : call[v].place = "stopInLoop" => call'[v].place = "stopInLoop"
    BY <1>15, <1>p DEF disconnectLocks, shutdownSets, setsConnect, Continues, clientVars
  <2> QED
    BY <2>1 DEF StoppedAttemptEnds, TaskSet
<1>16. ASSUME NEW u \in User, queues(u)
       PROVE  StoppedAttemptEnds'
  <2> DEFINE t == Task(call[u].place, call[u].k)
  <2>1. /\ tasks' = Append(tasks, t) /\ connector' = connector
        /\ call[u].place \in {"startInLoop", "stopInLoop", "shutdownInLoop"}
        /\ \A v \in User : call[v].place = "stopInLoop" => v = u \/ call'[v].place = "stopInLoop"
    BY <1>16, <1>p DEF queues, Continues, clientVars
  <2>2. t \in TaskType
    BY <1>p, <2>1 DEF Task, TaskType
  <2> HIDE DEF t
  <2>3. TaskSet' = TaskSet \cup {t}
    <3>1. SetOf(tasks') = SetOf(tasks) \cup {t}
      BY <2>1, <2>2, AppendTask DEF Types, LoopTypes
    <3> QED
      BY <3>1 DEF TaskSet, SetOf
  <2>4. call[u].place = "stopInLoop" => t = Stop
    BY DEF Types, UserTypes, t
  <2> QED
    BY <2>1, <2>3, <2>4 DEF StoppedAttemptEnds
<1> QED
  BY <1>1, <1>5, <1>6, <1>7, <1>8, <1>9, <1>10, <1>11, <1>12, <1>13, <1>14, <1>15, <1>16
  DEF Next, Loop, Continue, Tasks, UserContinues, vars, clientVars, userVars

\* A stop is not lost between startInLoop's test of connect_ and the attempt, nor
\* overtaken by a start that was called before it, however often connect is called.
THEOREM StopsAreKept == Spec => []StoppedAttemptEnds
<1>1. Init => StoppedAttemptEnds
  BY DEF Init, StoppedAttemptEnds
<1> QED
  BY <1>1, StopStep, TypesHold, PTL DEF Spec

-----------------------------------------------------------------------------
(* One attempt at a time *)

Dialing       == connector.state_ = "kConnecting"
Attempting(k) == Dialing /\ connector.channel_ = k /\ R \notin TaskSet
IsUp(k)       == k \in ups /\ downs[k] = 0
Starting(u)   == call[u].place \in {"connect", "startInLoop"}
Shutting(u)   == call[u].place \in {"checked", "shutdownInLoop"}

\* A connection that has begun and is not yet told to end; one that is.
Live(k) == (IsUp(k) /\ at # At("down", k)) \/ at = At("up", k)
Ends(k) == at \in {At("down", k), At("closing", k)}

\* The one call of connect makes the first attempt, once.
AskedOnce ==
  /\ connects = 0 => attempts = 0 /\ St \notin TaskSet /\ \A u \in User : ~Starting(u)
  /\ \A u \in User : Starting(u) =>
       attempts = 0 /\ St \notin TaskSet /\ \A v \in User : Starting(v) => u = v
  /\ St \in TaskSet => attempts = 0 /\ Once(tasks, St)

\* The poller is sound, and has the channels of the attempt that goes on and of the
\* connection that is live, whose sockets are open.
Registered ==
  /\ Facts!Sound(p)
  /\ \A k \in Attempt :
       /\ k \in ups \/ (Dialing /\ k = attempts) \/ at \in {At("establishing", k), At("up", k)} =>
            k \in p.open
       /\ p.index[Dial(k)] # kNew \/ Dial(k) \in active => Attempting(k)
       /\ p.index[Conn(k)] # kNew => k \in Begun
       /\ p.index[Conn(k)] = kAdded <=> Live(k)
       /\ Conn(k) \in active => Live(k)

\* An attempt goes on, or has failed without anyone being told, or the loop is in the
\* middle of something, or one connection is live, that of the last attempt.
OneThing ==
  /\ Dialing => /\ attempts > 0 /\ attempts \notin ups /\ at = Idle
                /\ \/ Attempting(attempts)
                   \/ Broken(attempts) /\ connector.channel_ \in {NoAttempt, attempts}
  /\ \A k \in Attempt :
       Live(k) => /\ connector.state_ = "kConnected" /\ k = attempts /\ at \in {Idle, At("up", k)}
                  /\ state_[k] \in {"kConnected", "kDisconnecting"}
  /\ at.place \in {"establishing", "up"} =>
       connector.state_ = "kConnected" /\ at.k = attempts /\ attempts \notin ups /\ dispatching
  /\ at.place \in {"down", "closing", "restarting"} =>
       connector.state_ = "kConnected" /\ R \notin TaskSet
  /\ at.place = "down" => downs[at.k] = 0
  /\ at.place = "closing" => downs[at.k] > 0
  /\ \A k \in Attempt : /\ state_[k] = "kConnected" => Live(k)
                        /\ downs[k] = 0 \/ (downs[k] = 1 /\ k \in ups)

\* connection_ holds the connection from newConnection to removeConnection, or the
\* client is gone and a forceCloseInLoop does.
Owned ==
  /\ connection_ # NoAttempt =>
       /\ client = "alive"
       /\ Live(connection_) \/ at = At("establishing", connection_) \/ Ends(connection_)
  /\ at.place \in {"establishing", "up"} => connection_ = at.k
  /\ \A k \in Attempt : Live(k) => connection_ = k \/ (client = "gone" /\ F(k) \in TaskSet)
  /\ client = "gone" =>
       /\ connector.state_ = "kConnected" /\ ConnectorTasks \cap TaskSet = {}
       /\ at.place \notin {"establishing", "up", "restarting"}
       /\ \A u \in User : call[u] = Idle

\* resetChannel runs before anything can close the connection it was queued for.
ResetFirst ==
  R \in TaskSet =>
    /\ attempts > 0
    /\ connector.state_ = "kConnected" =>
         /\ \A k \in Attempt : Conn(k) \notin active /\ Precedes(tasks, R, F(k))
         /\ dispatching \/ Within(tasks, batch, R)

\* While there is a client, a forceClose is the last thing that happens to a
\* connection that is live.
Forced ==
  \A k \in Attempt : F(k) \in TaskSet =>
    /\ client = "alive" =>
         /\ k \in ups /\ Live(k) /\ Once(tasks, F(k)) /\ Conn(k) \notin active
         /\ dispatching \/ Within(tasks, batch, F(k))
    /\ ~Live(k) => state_[k] = "kDisconnected"

\* The task of a disconnect comes before the connection's last.
ShutFirst ==
  /\ \A k \in Attempt : /\ Live(k) \/ Ends(k) \/ Follows(tasks, S(k), D(k))
                        /\ D(k) \in TaskSet => downs[k] > 0
  /\ \A u \in User : Shutting(u) => Live(call[u].k) \/ Ends(call[u].k)

\* Events come first, then the tasks.
EventsFirst ==
  /\ dispatching => batch = 0
  /\ ~dispatching => active = {}

Invariant ==
  /\ AskedOnce /\ Registered /\ OneThing /\ Owned
  /\ ResetFirst /\ Forced /\ ShutFirst /\ EventsFirst

\* Where a callback may call forceClose no thread disconnects, so that it finds the
\* state_ that handleClose has left.
Apart ==
  usage.local # {} =>
    /\ \A u \in User : call[u].place \notin {"disconnect", "checked", "shutdownInLoop"}
    /\ at.place = "down" => state_[at.k] = "kDisconnected"

\* No way of using the client has both.
KeptApart == \A x \in Usages : "disconnect" \in x.remote => x.local = {}

\* What epoll_wait has said of an attempt stays true.
Failed == \A k \in erring : k <= attempts /\ Broken(k)

\* What the queue's facts about task x become.
Keeps(x) ==
  /\ x \in TaskSet' => x \in TaskSet
  /\ Once(tasks, x) => Once(tasks', x)
  /\ Within(tasks, batch, x) => Within(tasks', batch', x)
  /\ \A y : Precedes(tasks, x, y) => Precedes(tasks', x, y)
  /\ \A y : Follows(tasks, x, y) => Follows(tasks', x, y)

\* A task that is queued leaves the others as they are.
LEMMA QueueKeeps ==
  ASSUME Types, NEW t \in TaskType, tasks' = Append(tasks, t), batch' = batch
  PROVE  /\ \A x : x # t => Keeps(x) /\ Follows(tasks', x, t)
         /\ TaskSet' = TaskSet \cup {t}
         /\ t \notin TaskSet => Once(tasks', t)
<1> DEFINE q == tasks'
<1>1. tasks \in Seq(TaskType) /\ q = Append(tasks, t)
  BY DEF Types, LoopTypes
<1> HIDE DEF q
<1>2. /\ SetOf(q) = SetOf(tasks) \cup {t}
      /\ \A x : Once(tasks, x) /\ (x # t \/ x \notin SetOf(tasks)) => Once(q, x)
      /\ \A x, n : Within(tasks, n, x) /\ x # t => Within(q, n, x)
      /\ \A x : x # t => Follows(q, x, t) /\ \A y : Follows(tasks, x, y) => Follows(q, x, y)
      /\ \A x, y : Precedes(tasks, x, y) /\ x # t => Precedes(q, x, y)
  BY <1>1, AppendTask
<1>3. TaskSet = SetOf(tasks) /\ TaskSet' = SetOf(q)
  BY DEF TaskSet, SetOf, q
<1>4. t \notin TaskSet => Once(tasks, t)
  BY <1>3, AbsentTask
<1>5. ASSUME NEW x, x # t
      PROVE  Keeps(x) /\ Follows(tasks', x, t)
  BY <1>2, <1>3, <1>5, Zenon DEF Keeps, q
<1>6. t \notin TaskSet => Once(tasks', t)
  BY <1>2, <1>3, <1>4 DEF q
<1> QED
  BY <1>2, <1>3, <1>5, <1>6

\* So does a task that is run.
LEMMA RunKeeps ==
  ASSUME Types, NEW op, NEW k, Starts(op, k), tasks' = Tail(tasks)
  PROVE  /\ \A x : Keeps(x)
         /\ Task(op, k) \in TaskSet /\ TaskSet \subseteq TaskSet' \cup {Task(op, k)}
         /\ Once(tasks, Task(op, k)) => Task(op, k) \notin TaskSet'
         /\ \A x : Precedes(tasks, x, Task(op, k)) => x \notin TaskSet
<1> DEFINE q == tasks'
<1>1. /\ tasks # <<>> /\ Head(tasks) = Task(op, k)
      /\ tasks \in Seq(TaskType) /\ q = Tail(tasks)
      /\ batch \in Nat /\ batch' = batch - 1
  BY TaskRuns DEF Types, LoopTypes
<1> HIDE DEF q
<1>2. /\ SetOf(tasks) = SetOf(q) \cup {Head(tasks)}
      /\ \A x : Once(tasks, x) => Once(q, x)
      /\ Once(tasks, Head(tasks)) => Head(tasks) \notin SetOf(q)
      /\ \A x : \A n \in Nat : Within(tasks, n, x) => Within(q, n - 1, x)
      /\ \A x, y : Follows(tasks, x, y) => Follows(q, x, y)
      /\ \A x, y : Precedes(tasks, x, y) => Precedes(q, x, y)
      /\ \A x : Precedes(tasks, x, Head(tasks)) => x \notin SetOf(tasks)
  BY <1>1, TailTask
<1>3. TaskSet = SetOf(tasks) /\ TaskSet' = SetOf(q)
  BY DEF TaskSet, SetOf, q
<1>4. ASSUME NEW x
      PROVE  Keeps(x)
  <2>1. Within(tasks, batch, x) => Within(q, batch', x)
    BY <1>1, <1>2
  <2> QED
    BY <1>2, <1>3, <2>1, Zenon DEF Keeps, q
<1> QED
  BY <1>1, <1>2, <1>3, <1>4

\* A queue that is left as it is.
LEMMA SameKeeps ==
  ASSUME UNCHANGED <<tasks, batch>>
  PROVE  TaskSet' = TaskSet /\ \A x : Keeps(x)
BY DEF TaskSet, Keeps

\* A socket that has failed stays so.
LEMMA BrokenStays ==
  ASSUME Types, [Next]_vars, NEW k \in Attempt, k <= attempts, Broken(k)
  PROVE  Broken(k)'
<1>1. ASSUME net' = net
      PROVE  Broken(k)'
  BY <1>1 DEF Broken
<1>2. ASSUME NEW conr, startInLoop(conr)
      PROVE  Broken(k)'
  <2>1. attempts \in Nat /\ k \in Nat /\ net \in [Attempt -> {"none", "dialing", "open", "refused", "closed", "reset"}]
    BY ClientAssumption DEF Types, ClientTypes, Attempt
  <2>2. CASE net' = [net EXCEPT ![attempts + 1] = "dialing"]
    <3>1. k # attempts + 1
      BY <2>1
    <3> QED
      BY <2>1, <2>2, <3>1 DEF Broken
  <2> QED
    BY <1>1, <1>2, <2>2 DEF startInLoop, connect
<1>3. ASSUME NEW j \in Attempt, network(j)
      PROVE  Broken(k)'
  BY <1>3 DEF network, Broken, Types, ClientTypes
<1>4. CASE UNCHANGED vars
  BY <1>1, <1>4 DEF vars
<1>5. CASE poll \/ swapFunctors \/ stopInLoop \/ resetChannel \/ destroyClient
  BY <1>1, <1>5 DEF poll, swapFunctors, stopInLoop, resetChannel, destroyClient
<1>6. CASE restart \/ runStartInLoop
  BY <1>2, <1>6 DEF restart, runStartInLoop
<1>7. ASSUME NEW j \in Attempt,
             \/ handleError(j) \/ handleWriteFails(j) \/ handleWrite(j) \/ handleEventStays(j)
             \/ handleEventCloses(j) \/ connectEstablished(j) \/ saysUp(j) \/ saysDown(j)
             \/ removeConnection(j) \/ shutdownInLoop(j) \/ forceCloseInLoop(j) \/ connectDestroyed(j)
      PROVE  Broken(k)'
  BY <1>1, <1>7 DEF handleError, handleWriteFails, handleWrite, handleEventStays, handleEventCloses,
    connectEstablished, saysUp, saysDown, removeConnection, shutdownInLoop, forceCloseInLoop,
    connectDestroyed
<1>8. ASSUME NEW u \in User, UserContinues(u) \/ \E op \in usage.remote : setsConnect(u, op)
      PROVE  Broken(k)'
  BY <1>1, <1>8 DEF UserContinues, setsConnectorConnect, disconnectLocks, shutdownSets, queues,
    setsConnect
<1> QED
  BY <1>3, <1>4, <1>5, <1>6, <1>7, <1>8 DEF Next, Loop, Continue, Tasks

\* A poll reports entries of attempts that were made.
LEMMA FailedStep ==
  ASSUME Types, Failed, [Next]_vars
  PROVE  Failed'
<1>1. erring \subseteq Attempt /\ attempts \in Nat
  BY DEF Types, LoopTypes, ClientTypes
<1>2. ASSUME erring' = erring, attempts' >= attempts, attempts' \in Nat
      PROVE  Failed'
  <2> SUFFICES ASSUME NEW k \in erring
               PROVE  k <= attempts' /\ Broken(k)'
    BY <1>2 DEF Failed
  <2>1. k \in Attempt /\ k <= attempts /\ Broken(k) /\ k \in Nat
    BY <1>1, ClientAssumption DEF Failed, Attempt
  <2> QED
    BY <1>1, <1>2, <2>1, BrokenStays
<1>3. CASE poll
  <2> SUFFICES ASSUME NEW k \in erring'
               PROVE  k <= attempts' /\ Broken(k)'
    BY DEF Failed
  <2>1. k \in Attempt /\ Dial(k) \in active' /\ Broken(k) /\ attempts' = attempts /\ net' = net
    BY <1>3 DEF poll, clientVars
  <2>2. p.ptr[k] = Dial(k)
    <3>1. Ready(Dial(k))
      BY <1>3, <2>1 DEF poll
    <3> QED
      BY <3>1, ChannelAttempts DEF Ready
  <2>3. k <= attempts
    BY <2>1, <2>2 DEF Types, PollerTypes, UpTo, NoChannel, Dial
  <2> QED
    BY <2>1, <2>3 DEF Broken
<1>4. ASSUME NEW conr, startInLoop(conr), UNCHANGED erring
      PROVE  Failed'
  BY <1>1, <1>2, <1>4 DEF startInLoop, connect
<1>5. ASSUME UNCHANGED <<erring, attempts>>
      PROVE  Failed'
  BY <1>1, <1>2, <1>5
<1>6. CASE UNCHANGED vars
  BY <1>5, <1>6 DEF vars, loopVars, clientVars
<1>7. CASE restart \/ runStartInLoop
  BY <1>4, <1>7 DEF restart, runStartInLoop, Starts, loopVars
<1>8. CASE swapFunctors \/ stopInLoop \/ resetChannel \/ destroyClient
  BY <1>5, <1>8 DEF swapFunctors, stopInLoop, resetChannel, destroyClient, Starts, loopVars, clientVars
<1>9. ASSUME NEW j \in Attempt,
             \/ handleError(j) \/ handleWriteFails(j) \/ handleWrite(j) \/ handleEventStays(j)
             \/ handleEventCloses(j) \/ connectEstablished(j) \/ saysUp(j) \/ saysDown(j)
             \/ removeConnection(j) \/ shutdownInLoop(j) \/ forceCloseInLoop(j) \/ connectDestroyed(j)
             \/ network(j)
      PROVE  Failed'
  BY <1>5, <1>9 DEF handleError, handleWriteFails, handleWrite, handleEventStays, handleEventCloses,
    connectEstablished, saysUp, saysDown, removeConnection, shutdownInLoop, forceCloseInLoop,
    connectDestroyed, network, Handles, Starts, loopVars, clientVars
<1>10. ASSUME NEW u \in User, UserContinues(u) \/ \E op \in usage.remote : setsConnect(u, op)
       PROVE  Failed'
  BY <1>5, <1>10 DEF UserContinues, setsConnectorConnect, disconnectLocks, shutdownSets, queues,
    setsConnect, loopVars, clientVars
<1> QED
  BY <1>3, <1>6, <1>7, <1>8, <1>9, <1>10 DEF Next, Loop, Continue, Tasks

\* Between handleClose and its callback, only shutdown could set state_.
LEMMA ApartStep ==
  ASSUME KeptApart, Types, Apart, [Next]_vars
  PROVE  Apart'
<1> SUFFICES ASSUME usage.local # {}
             PROVE  /\ \A u \in User : call'[u].place \notin {"disconnect", "checked", "shutdownInLoop"}
                    /\ at'.place = "down" => state_'[at'.k] = "kDisconnected"
  BY DEF Apart, Next, vars
<1>1. /\ "disconnect" \notin usage.remote
      /\ \A u \in User : call[u].place \notin {"disconnect", "checked", "shutdownInLoop"}
      /\ at.place = "down" => state_[at.k] = "kDisconnected"
  BY DEF KeptApart, Apart, Types, ClientTypes
<1> DEFINE Calls == \A u \in User : call'[u].place \notin {"disconnect", "checked", "shutdownInLoop"}
           Down  == at'.place = "down" => state_'[at'.k] = "kDisconnected"
<1>2. ASSUME call' = call, at'.place # "down" \/ UNCHANGED <<at, state_>>
      PROVE  Calls /\ Down
  BY <1>1, <1>2
<1>3. CASE UNCHANGED vars
  BY <1>2, <1>3 DEF vars, userVars, connVars
<1>4. CASE poll \/ swapFunctors \/ restart \/ runStartInLoop \/ stopInLoop \/ resetChannel
  BY <1>2, <1>4 DEF poll, swapFunctors, restart, runStartInLoop, stopInLoop, resetChannel, userVars,
    connVars, Idle, At
<1>5. CASE destroyClient
  BY <1>2, <1>5 DEF destroyClient, userVars, Idle, At
<1>6. ASSUME NEW k \in Attempt,
             \/ handleError(k) \/ handleWriteFails(k) \/ network(k) \/ handleWrite(k)
             \/ connectEstablished(k) \/ saysUp(k) \/ saysDown(k) \/ removeConnection(k)
             \/ shutdownInLoop(k)
      PROVE  Calls /\ Down
  <2>1. call' = call
    BY <1>6 DEF handleError, handleWriteFails, network, handleWrite, connectEstablished, saysUp,
      saysDown, removeConnection, shutdownInLoop, userVars
  <2>2. at'.place # "down" \/ UNCHANGED <<at, state_>>
    BY <1>6 DEF handleError, handleWriteFails, network, handleWrite, connectEstablished, saysUp,
      saysDown, removeConnection, shutdownInLoop, connVars, At, Idle
  <2> QED
    BY <1>2, <2>1, <2>2
<1>7. ASSUME NEW k \in Attempt, handleEventStays(k) \/ connectDestroyed(k)
      PROVE  Calls /\ Down
  <2>1. call' = call /\ at' = Idle
    BY <1>7 DEF handleEventStays, connectDestroyed, Handles, Starts, userVars
  <2> QED
    BY <1>2, <2>1 DEF Idle, At
<1>8. ASSUME NEW k \in Attempt, handleClose(k), call' = call
      PROVE  Calls /\ Down
  BY <1>1, <1>8 DEF handleClose, At, Types, ConnTypes
<1>9. ASSUME NEW k \in Attempt, handleEventCloses(k) \/ forceCloseInLoop(k)
      PROVE  Calls /\ Down
  <2>1. call' = call /\ (handleClose(k) \/ UNCHANGED <<at, state_>>)
    BY <1>9 DEF handleEventCloses, forceCloseInLoop, userVars
  <2> QED
    BY <1>2, <1>8, <2>1
<1>10. ASSUME NEW u \in User, UserContinues(u) \/ \E op \in usage.remote : setsConnect(u, op)
       PROVE  Calls /\ Down
  <2>1. PICK places, next :
          /\ Continues(u, places, next)
          /\ next.place \notin {"disconnect", "checked", "shutdownInLoop"}
    <3>1. CASE setsConnectorConnect(u) \/ queues(u)
      BY <3>1 DEF setsConnectorConnect, queues, At, Idle
    <3>2. CASE disconnectLocks(u) \/ shutdownSets(u)
      BY <1>1, <3>2 DEF disconnectLocks, shutdownSets, Continues
    <3>3. ASSUME NEW op \in usage.remote, setsConnect(u, op)
          PROVE  \E places, next :
                   /\ Continues(u, places, next)
                   /\ next.place \notin {"disconnect", "checked", "shutdownInLoop"}
      <4>1. op \in {"connect", "stop"} /\ Continues(u, {"idle"}, At(op, NoAttempt))
        BY <1>1, <3>3, ClientAssumption DEF setsConnect, Types, ClientTypes
      <4> QED
        BY <4>1 DEF At
    <3> QED
      BY <1>10, <3>1, <3>2, <3>3 DEF UserContinues
  <2>2. Calls
    BY <1>1, <2>1 DEF Continues, Types, UserTypes
  <2>3. UNCHANGED <<at, state_>>
    BY <1>1, <1>10 DEF UserContinues, setsConnectorConnect, disconnectLocks, shutdownSets, queues,
      setsConnect, connVars, Continues
  <2> QED
    BY <1>1, <2>2, <2>3
<1> QED
  BY <1>3, <1>4, <1>5, <1>6, <1>7, <1>9, <1>10 DEF Next, Loop, Continue, Tasks

\* Steps that start nothing.
LEMMA AskedKept ==
  ASSUME AskedOnce, UNCHANGED <<connects, attempts>>, Keeps(St),
         \A u \in User : Starting(u)' => Starting(u)
  PROVE  AskedOnce'
<1>1. St \in TaskSet' => St \in TaskSet /\ Once(tasks', St)
  BY DEF AskedOnce, Keeps
<1> HIDE DEF Starting
<1> QED
  BY <1>1 DEF AskedOnce

\* Steps that leave the calls alone.
LEMMA AskedKeptByLoop ==
  ASSUME AskedOnce, UNCHANGED <<connects, attempts, call>>, Keeps(St)
  PROVE  AskedOnce'
BY AskedKept DEF Starting

\* Steps that neither begin nor end anything.
LEMMA Undisturbed ==
  ASSUME Types, Invariant, AskedOnce',
         UNCHANGED <<client, connection_, attempts, ups, downs, at, p, dispatching>>,
         dispatching => batch' = 0,
         active' \subseteq active,
         connector'.state_ = connector.state_,
         \/ connector'.channel_ = connector.channel_
         \/ connector'.channel_ = NoAttempt /\ R \in TaskSet,
         Dialing /\ Broken(attempts) => Broken(attempts)',
         \A k \in Attempt :
           \/ state_'[k] = state_[k]
           \/ state_'[k] = "kDisconnecting" /\ client = "alive" /\ (Live(k) \/ Ends(k)),
         Keeps(R),
         \A k \in Attempt :
           /\ Keeps(F(k)) /\ Keeps(D(k))
           /\ Keeps(S(k)) \/ Live(k) \/ Ends(k)
           /\ Live(k) /\ client = "gone" /\ F(k) \in TaskSet => F(k) \in TaskSet',
         client = "gone" => ConnectorTasks \cap TaskSet' = {} /\ \A u \in User : call'[u] = Idle,
         \A u \in User : Shutting(u)' => Live(call'[u].k) \/ Ends(call'[u].k)
  PROVE  Invariant'
<1>1. /\ Dialing' <=> Dialing
      /\ Begun' = Begun
      /\ \A k : (Live(k)' <=> Live(k)) /\ (Ends(k)' <=> Ends(k))
  BY DEF Dialing, Live, IsUp, Ends, Begun
<1>r. R \in TaskSet' => R \in TaskSet
  BY DEF Keeps
<1>a. \A k : Attempting(k) => Attempting(k)'
  BY <1>1, <1>r DEF Attempting
<1>2. Registered'
  BY <1>1, <1>a DEF Invariant, Registered
<1>3. OneThing'
  <2>1. Dialing => /\ attempts > 0 /\ attempts \notin ups /\ at = Idle
                   /\ \/ Attempting(attempts)'
                      \/ Broken(attempts)' /\ connector'.channel_ \in {NoAttempt, attempts}
    BY <1>a DEF Invariant, OneThing
  <2>2. \A k \in Attempt :
          /\ Live(k) => state_'[k] \in {"kConnected", "kDisconnecting"}
          /\ state_'[k] = "kConnected" => Live(k)
    BY DEF Invariant, OneThing
  <2> HIDE DEF Attempting, Broken
  <2> QED
    BY <1>1, <1>r, <2>1, <2>2 DEF Invariant, OneThing
<1>4. Owned'
  <2>1. \A k \in Attempt : Live(k) => connection_ = k \/ (client = "gone" /\ F(k) \in TaskSet')
    BY DEF Invariant, Owned
  <2> QED
    BY <1>1, <2>1 DEF Invariant, Owned
<1>5. ResetFirst'
  <2>2. Within(tasks, batch, R) => Within(tasks', batch', R)
    BY DEF Keeps
  <2>3. \A y : Precedes(tasks, R, y) => Precedes(tasks', R, y)
    BY DEF Keeps
  <2> QED
    BY <1>r, <2>2, <2>3 DEF Invariant, ResetFirst
<1>6. Forced'
  <2> SUFFICES ASSUME NEW k \in Attempt, F(k) \in TaskSet'
               PROVE  /\ client = "alive" =>
                           /\ k \in ups /\ Live(k) /\ Once(tasks', F(k)) /\ Conn(k) \notin active
                           /\ dispatching \/ Within(tasks', batch', F(k))
                      /\ ~Live(k) => state_'[k] = "kDisconnected"
    BY <1>1 DEF Forced
  <2>1. F(k) \in TaskSet
    BY DEF Keeps
  <2>2. /\ client = "alive" =>
             /\ k \in ups /\ Live(k) /\ Once(tasks, F(k)) /\ Conn(k) \notin active
             /\ dispatching \/ Within(tasks, batch, F(k))
        /\ ~Live(k) => state_[k] = "kDisconnected"
    BY <2>1 DEF Invariant, Forced
  <2>3. /\ Once(tasks, F(k)) => Once(tasks', F(k))
        /\ Within(tasks, batch, F(k)) => Within(tasks', batch', F(k))
    BY DEF Keeps
  <2> QED
    BY <2>2, <2>3
<1>7. ShutFirst'
  <2>1. ASSUME NEW k \in Attempt
        PROVE  /\ Live(k) \/ Ends(k) \/ Follows(tasks', S(k), D(k))
               /\ D(k) \in TaskSet' => downs[k] > 0
    <3>1. Follows(tasks, S(k), D(k)) /\ Keeps(S(k)) => Follows(tasks', S(k), D(k))
      BY DEF Keeps
    <3>2. D(k) \in TaskSet' => D(k) \in TaskSet
      BY DEF Keeps
    <3> QED
      BY <3>1, <3>2 DEF Invariant, ShutFirst
  <2> QED
    BY <1>1, <2>1 DEF ShutFirst
<1>8. EventsFirst'
  BY DEF Invariant, EventsFirst
<1> QED
  BY <1>2, <1>3, <1>4, <1>5, <1>6, <1>7, <1>8 DEF Invariant

\* While an attempt goes on, or the loop is in the middle of something but of saying
\* that a connection is up, none is live.
LEMMA NothingUp ==
  ASSUME Types, Invariant
  PROVE  /\ Dialing \/ at.place \notin {"idle", "up"} =>
              \A k \in Attempt : ~Live(k) /\ (client = "alive" => F(k) \notin TaskSet)
         /\ Dialing => client = "alive" /\ connection_ = NoAttempt /\ at = Idle
         /\ connection_ # NoAttempt => connection_ \in Attempt
         /\ at = Idle => at.place = "idle" /\ at.k = NoAttempt /\ \A k : ~Ends(k) /\ (Live(k) => IsUp(k))
<1>1. Dialing \/ at.place \notin {"idle", "up"} => \A k \in Attempt : ~Live(k)
  BY DEF Invariant, OneThing, Dialing, Idle, At
<1>2. ASSUME client = "alive", NEW k \in Attempt, ~Live(k)
      PROVE  F(k) \notin TaskSet
  BY <1>2 DEF Invariant, Forced
<1>3. connection_ # NoAttempt => connection_ \in Attempt
  BY ClientAssumption DEF Types, ClientTypes, Attempt, NoAttempt
<1>4. at = Idle => at.place = "idle" /\ at.k = NoAttempt /\ \A k : ~Ends(k) /\ (Live(k) => IsUp(k))
  BY DEF Idle, At, Ends, Live
<1>5. Dialing => client = "alive"
  BY DEF Types, ClientTypes, Invariant, Owned, Dialing
<1>6. ASSUME Dialing
      PROVE  connection_ = NoAttempt /\ at = Idle
  <2>1. at = Idle
    BY <1>6 DEF Invariant, OneThing
  <2>2. connection_ # NoAttempt => at = At("establishing", connection_)
    BY <1>1, <1>3, <1>4, <1>6, <2>1 DEF Invariant, Owned
  <2> QED
    BY <1>4, <2>1, <2>2 DEF At
<1> QED
  BY <1>1, <1>2, <1>3, <1>4, <1>5, <1>6

\* An attempt that goes on is the last, and no connection is live.
LEMMA TheAttempt ==
  ASSUME Types, Invariant, NEW k \in Attempt, Attempting(k)
  PROVE  /\ Dialing /\ connector.channel_ = k /\ k = attempts /\ attempts > 0 /\ k \notin ups
         /\ k # NoAttempt /\ R \notin TaskSet /\ at = Idle /\ at.place = "idle" /\ at.k = NoAttempt
         /\ \A j \in Attempt : ~Live(j) /\ F(j) \notin TaskSet
         /\ client = "alive" /\ connection_ = NoAttempt
<1>1. Dialing /\ connector.channel_ = k /\ R \notin TaskSet /\ k # NoAttempt
  BY ClientAssumption DEF Attempting, Attempt, NoAttempt
<1>2. k = attempts /\ attempts > 0 /\ attempts \notin ups /\ at = Idle
  BY <1>1 DEF Invariant, OneThing, Attempting
<1> QED
  BY <1>1, <1>2, NothingUp

\* The Connector's channel, if it is there, can be taken out of the poller.
LEMMA ChannelRemoved ==
  ASSUME Types, Invariant, Dialing, NEW q, q = removeAndResetChannel
  PROVE  /\ Facts!Sound(q) /\ q.open = p.open
         /\ \A k \in Attempt : q.index[Dial(k)] = kNew /\ q.index[Conn(k)] = p.index[Conn(k)]
<1>1. /\ attempts \in Attempt /\ attempts \notin ups /\ at = Idle
      /\ connector.channel_ \in {NoAttempt, attempts}
  BY ClientAssumption DEF Invariant, OneThing, Attempting, Types, ClientTypes, Attempt
<1>2. /\ attempts \in p.open /\ Facts!Sound(p) /\ p.index[Conn(attempts)] = kNew
      /\ \A k \in Attempt : p.index[Dial(k)] # kNew => connector.channel_ = k
  <2>1. attempts \notin Begun
    BY <1>1, BegunIdle
  <2> QED
    BY <1>1, <2>1 DEF Invariant, Registered, Attempting
<1>3. CASE connector.channel_ = NoAttempt
  <2>1. q = p
    BY <1>3 DEF removeAndResetChannel
  <2>2. \A k \in Attempt : k # NoAttempt
    BY ClientAssumption DEF Attempt, NoAttempt
  <2> QED
    BY <1>2, <1>3, <2>1, <2>2
<1>4. CASE connector.channel_ = attempts
  <2> DEFINE c == Dial(attempts)
  <2>1. Alone(p, c, attempts)
    BY <1>1, <1>2 DEF Alone
  <2>2. OnlyOf(c, p, q) /\ q.index[c] = kNew
    BY <1>2, <1>4, <2>1, DialRemoved
  <2>3. ASSUME NEW k \in Attempt
        PROVE  q.index[Dial(k)] = kNew /\ q.index[Conn(k)] = p.index[Conn(k)]
    <3>1. Dial(k) \in Channels /\ Conn(k) \in Channels /\ Conn(k) # c
      BY FactsApply DEF Dial, Conn
    <3>2. k # attempts => p.index[Dial(k)] = kNew /\ Dial(k) # c
      BY <1>2, <1>4 DEF Dial
    <3> HIDE DEF c
    <3> QED
      BY <2>2, <3>1, <3>2 DEF OnlyOf, c
  <2> QED
    BY <2>2, <2>3 DEF OnlyOf
<1> QED
  BY <1>1, <1>3, <1>4

\* A poll reports channels in the interest list, when every task that was queued
\* before the last poll has been run.
LEMMA PollKeeps ==
  ASSUME Types, Invariant, poll
  PROVE  Invariant'
<1>1. /\ ~dispatching /\ dispatching' = TRUE /\ batch = 0 /\ batch' = 0
      /\ UNCHANGED <<clientVars, state_, ups, downs, connects, call, net, tasks, at, p>>
      /\ client' = client /\ connection_' = connection_ /\ connector' = connector
      /\ attempts' = attempts
      /\ \A c \in active' : c \in Channels /\ Ready(c)
  BY DEF poll, Channels, clientVars, connVars, userVars
<1>2. TaskSet' = TaskSet /\ \A x : Keeps(x)
  BY <1>1, SameKeeps
<1>s. /\ Dialing' <=> Dialing
      /\ Begun' = Begun
      /\ \A k : (Live(k)' <=> Live(k)) /\ (Ends(k)' <=> Ends(k)) /\ (Attempting(k)' <=> Attempting(k))
  BY <1>1, <1>2 DEF Dialing, Live, IsUp, Ends, Begun, Attempting
<1>3. AskedOnce'
  BY <1>1, <1>2, AskedKeptByLoop DEF Invariant
<1>4. \A x : Within(tasks, batch, x) => x \notin TaskSet
  <2>1. tasks \in Seq(TaskType) /\ TaskSet = SetOf(tasks)
    BY DEF Types, LoopTypes, TaskSet, SetOf
  <2> QED
    BY <1>1, <2>1, WithinBounds
<1>5. Registered'
  <2>1. ASSUME NEW c \in active'
        PROVE  p.index[c] = kAdded
    <3>1. c \in Channels /\ p.ptr[c[2]] = c
      BY <1>1, <2>1 DEF Ready
    <3> QED
      BY <3>1, SoundPoller DEF Invariant, Registered
  <2>2. ASSUME NEW k \in Attempt
        PROVE  /\ Dial(k) \in active' => Attempting(k)
               /\ Conn(k) \in active' => Live(k)
    BY <2>1, Indices DEF Invariant, Registered
  <2> HIDE DEF Attempting, Live, Begun, Dialing
  <2> QED
    BY <1>1, <1>s, <2>2 DEF Invariant, Registered
<1>6. OneThing' /\ Owned' /\ ShutFirst'
  <2>1. (Broken(attempts)' <=> Broken(attempts)) /\ \A u : Shutting(u)' <=> Shutting(u)
    BY <1>1 DEF Broken, Shutting
  <2> QED
    BY <1>1, <1>2, <1>s, <2>1, Zenon DEF Invariant, OneThing, Owned, ShutFirst
<1>7. ResetFirst'
  BY <1>1, <1>2, <1>4 DEF Invariant, ResetFirst
<1>8. Forced'
  BY <1>1, <1>2, <1>4, <1>s, Zenon DEF Invariant, Forced
<1>9. EventsFirst'
  BY <1>1 DEF EventsFirst
<1> QED
  BY <1>3, <1>5, <1>6, <1>7, <1>8, <1>9 DEF Invariant

\* When the events are handled, all tasks that are queued are in the batch.
LEMMA SwapKeeps ==
  ASSUME Types, Invariant, swapFunctors
  PROVE  Invariant'
<1>1. /\ active' = active /\ active = {} /\ dispatching' = FALSE /\ batch' = Len(tasks)
      /\ UNCHANGED <<clientVars, state_, ups, downs, connects, call, net, tasks, at, p>>
      /\ client' = client /\ connection_' = connection_ /\ connector' = connector
      /\ attempts' = attempts
      /\ at = Idle
  BY DEF swapFunctors, clientVars, connVars, userVars
<1>2. TaskSet' = TaskSet
  BY <1>1 DEF TaskSet
<1>s. /\ Dialing' <=> Dialing
      /\ Begun' = Begun
      /\ \A k : (Live(k)' <=> Live(k)) /\ (Ends(k)' <=> Ends(k)) /\ (Attempting(k)' <=> Attempting(k))
  BY <1>1, <1>2 DEF Dialing, Live, IsUp, Ends, Begun, Attempting
<1>3. AskedOnce'
  BY <1>1, <1>2, Zenon DEF Invariant, AskedOnce, Starting
<1>4. \A x : Within(tasks, Len(tasks), x)
  BY WithinBounds DEF Types, LoopTypes
<1>5. Registered'
  BY <1>1, <1>s DEF Invariant, Registered
<1>6. Owned' /\ ShutFirst'
  BY <1>1, <1>2, <1>s, Zenon DEF Invariant, Owned, ShutFirst, Shutting
<1>7. OneThing'
  <2>1. Broken(attempts)' <=> Broken(attempts)
    BY <1>1 DEF Broken
  <2> QED
    BY <1>1, <1>2, <1>s, <2>1, NothingUp DEF Invariant, OneThing
<1>8. ResetFirst' /\ Forced'
  BY <1>1, <1>2, <1>4, <1>s DEF Invariant, ResetFirst, Forced
<1>9. EventsFirst'
  BY <1>1 DEF EventsFirst
<1> QED
  BY <1>3, <1>5, <1>6, <1>7, <1>8, <1>9 DEF Invariant

\* The Connector's channel reports that the attempt has ended: it leaves the poller,
\* and its socket is handed to a connection or closed.
LEMMA HandleWriteKeeps ==
  ASSUME Types, Invariant, NEW k \in Attempt, handleWrite(k)
  PROVE  Invariant'
<1> DEFINE q == removeAndResetChannel
<1>1. /\ Attempting(k) /\ dispatching
      /\ Dialing /\ connector.channel_ = k /\ k = attempts /\ attempts > 0 /\ k \notin ups
      /\ k # NoAttempt /\ R \notin TaskSet /\ at = Idle /\ at.place = "idle" /\ at.k = NoAttempt
      /\ \A j \in Attempt : ~Live(j) /\ F(j) \notin TaskSet
      /\ client = "alive" /\ connection_ = NoAttempt
  <2>1. Attempting(k) /\ dispatching
    BY DEF handleWrite, Handles, Invariant, Registered, EventsFirst
  <2> QED
    BY <2>1, TheAttempt
<1>2. \A j : ~Ends(j)
  BY <1>1, NothingUp
<1>3. /\ tasks' = Append(tasks, R) /\ batch' = batch /\ dispatching' = dispatching
      /\ connector'.state_ = "kConnected" /\ connector'.channel_ = k
      /\ active' = active \ {Dial(k)}
      /\ client' = client /\ attempts' = attempts /\ state_' = state_ /\ ups' = ups /\ downs' = downs
      /\ connects' = connects /\ call' = call
      /\ \/ p' = q /\ connection_' = k /\ at' = At("establishing", k)
         \/ p' = Poller!Close(q, k) /\ UNCHANGED <<connection_, at>>
  BY <1>1 DEF handleWrite, Handles, resetLater, R, Dialing, Types, ClientTypes, ConnectorType,
    connVars, userVars
<1>4. /\ \A x : x # R => Keeps(x)
      /\ TaskSet' = TaskSet \cup {R} /\ Once(tasks', R)
  BY <1>1, <1>3, TaskTypes, QueueKeeps
<1>5. /\ \A j : Keeps(F(j)) /\ Keeps(D(j)) /\ Keeps(S(j))
      /\ Keeps(St)
      /\ \A j : F(j) \in TaskSet' => F(j) \in TaskSet
  BY <1>4, TaskTypes
<1>6. /\ ~Dialing' /\ Begun' = ups /\ Begun = ups
      /\ at' = Idle \/ at' = At("establishing", k)
      /\ \A j \in Attempt : ~Live(j)' /\ ~Ends(j)'
  <2>1. at' = Idle \/ at' = At("establishing", k)
    BY <1>1, <1>3
  <2>2. \A j : at' # At("up", j) /\ at' # At("down", j) /\ at' # At("closing", j)
    BY <2>1 DEF At, Idle
  <2>3. \A j \in Attempt : ~IsUp(j)
    BY <1>1 DEF Live, Idle, At
  <2> QED
    BY <1>1, <1>3, <2>1, <2>2, <2>3, BegunIdle DEF Dialing, Begun, Live, IsUp, Ends
<1>7. AskedOnce'
  BY <1>3, <1>5, AskedKeptByLoop DEF Invariant
<1>8. /\ Facts!Sound(q) /\ q.open = p.open
      /\ \A j \in Attempt : q.index[Dial(j)] = kNew /\ q.index[Conn(j)] = p.index[Conn(j)]
  BY <1>1, ChannelRemoved
<1> HIDE DEF q
<1>9. p.index[Conn(k)] = kNew
  BY <1>1, <1>6 DEF Invariant, Registered
<1>10. /\ Facts!Sound(p') /\ p'.index = q.index
       /\ p'.open = q.open \/ (p'.open = q.open \ {k} /\ at' = Idle)
  BY <1>1, <1>3, <1>8, <1>9, CloseFd
<1>11. Registered'
  <2> SUFFICES ASSUME NEW j \in Attempt
               PROVE  /\ j \in ups \/ at' \in {At("establishing", j), At("up", j)} => j \in p'.open
                      /\ p'.index[Dial(j)] = kNew /\ Dial(j) \notin active'
                      /\ p'.index[Conn(j)] # kNew => j \in ups
                      /\ p'.index[Conn(j)] # kAdded
                      /\ Conn(j) \notin active'
    BY <1>3, <1>6, <1>10 DEF Registered
  <2>1. /\ p.index[Conn(j)] # kNew => j \in ups
        /\ p.index[Conn(j)] # kAdded /\ Conn(j) \notin active
        /\ Dial(j) \in active => j = k
        /\ j \in ups => j \in p.open
        /\ k \in p.open
    BY <1>1, <1>6 DEF Invariant, Registered, Attempting
  <2>2. /\ Conn(j) # Dial(k) /\ at' # At("up", j)
        /\ at' = Idle => at' # At("establishing", j)
        /\ at' = At("establishing", j) => j = k
    BY <1>6 DEF Dial, Conn, Idle, At
  <2> QED
    BY <1>1, <1>3, <1>8, <1>10, <2>1, <2>2
<1>12. OneThing'
  <2>1. at'.place \in {"idle", "establishing"} /\ (at'.place = "establishing" => at'.k = k)
    BY <1>6 DEF Idle, At
  <2>2. \A j \in Attempt : /\ state_[j] # "kConnected"
                           /\ downs[j] = 0 \/ (downs[j] = 1 /\ j \in ups)
    BY <1>1 DEF Invariant, OneThing
  <2> QED
    BY <1>1, <1>3, <1>6, <2>1, <2>2 DEF OneThing
<1>13. Owned'
  <2>1. \/ connection_' = k /\ at' = At("establishing", k) /\ at'.place = "establishing" /\ at'.k = k
        \/ connection_' = NoAttempt /\ at'.place = "idle"
    BY <1>1, <1>3 DEF At
  <2> QED
    BY <1>1, <1>3, <1>6, <2>1 DEF Owned
<1>14. ResetFirst'
  <2>1. ASSUME NEW j \in Attempt
        PROVE  Conn(j) \notin active' /\ Precedes(tasks', R, F(j))
    <3>1. Conn(j) \notin active
      BY <1>1 DEF Invariant, Registered
    <3>2. F(j) \notin SetOf(tasks')
      BY <1>1, <1>5 DEF TaskSet, SetOf
    <3> QED
      BY <1>3, <3>1, <3>2, AbsentTask
  <2> QED
    BY <1>1, <1>3, <2>1 DEF ResetFirst
<1>15. Forced'
  BY <1>1, <1>5 DEF Forced
<1>16. ShutFirst'
  <2>1. \A j \in Attempt : /\ Follows(tasks, S(j), D(j))
                           /\ D(j) \in TaskSet => downs[j] > 0
    BY <1>1, <1>2 DEF Invariant, ShutFirst
  <2>2. \A u \in User : ~Shutting(u)
    BY DEF handleWrite, mutexFree, Shutting
  <2> QED
    BY <1>3, <1>5, <1>6, <2>1, <2>2 DEF ShutFirst, Shutting, Keeps
<1>17. EventsFirst'
  BY <1>1, <1>3 DEF Invariant, EventsFirst
<1> QED
  BY <1>7, <1>11, <1>12, <1>13, <1>14, <1>15, <1>16, <1>17 DEF Invariant

\* A disconnect under way has an attempt.
LEMMA ShuttingAttempt ==
  ASSUME Types, NEW u \in User, Shutting(u)
  PROVE  call[u].k \in Attempt
BY ClientAssumption DEF Types, UserTypes, ConnTypes, ClientTypes, Shutting, Begun, Attempt

\* So does an attempt of which handleWrite finds that it has failed since.
LEMMA HandleWriteFailsKeeps ==
  ASSUME Types, Invariant, NEW k \in Attempt, handleWriteFails(k)
  PROVE  Invariant'
<1> DEFINE q == removeAndResetChannel
<1>1. /\ Attempting(k) /\ dispatching
      /\ Dialing /\ connector.channel_ = k /\ k = attempts /\ attempts > 0 /\ k \notin ups
      /\ k # NoAttempt /\ R \notin TaskSet /\ at = Idle /\ at.place = "idle" /\ at.k = NoAttempt
      /\ \A j \in Attempt : ~Live(j) /\ F(j) \notin TaskSet
      /\ client = "alive" /\ connection_ = NoAttempt
  <2>1. Attempting(k) /\ dispatching
    BY DEF handleWriteFails, Handles, Invariant, Registered, EventsFirst
  <2> QED
    BY <2>1, TheAttempt
<1>2. \A j : ~Ends(j)
  BY <1>1, NothingUp
<1>3. /\ tasks' = Append(tasks, R) /\ batch' = batch /\ dispatching' = dispatching
      /\ active' = active \ {Dial(k)} /\ p' = q /\ at' = at
      /\ client' = client /\ connection_' = connection_ /\ connector' = connector
      /\ attempts' = attempts /\ state_' = state_ /\ ups' = ups /\ downs' = downs
      /\ connects' = connects /\ call' = call
      /\ Broken(k) /\ net' = net
  BY DEF handleWriteFails, Handles, resetLater, R, clientVars, connVars, userVars
<1>4. /\ \A x : x # R => Keeps(x)
      /\ TaskSet' = TaskSet \cup {R}
  BY <1>3, TaskTypes, QueueKeeps
<1>5. /\ Keeps(St) /\ \A j : Keeps(F(j)) /\ Keeps(D(j)) /\ Keeps(S(j))
      /\ \A j \in Attempt : F(j) \notin TaskSet'
  BY <1>1, <1>4, TaskTypes
<1>6. /\ Dialing' /\ Begun' = Begun
      /\ \A j : (Live(j)' <=> Live(j)) /\ (Ends(j)' <=> Ends(j))
  BY <1>1, <1>3 DEF Dialing, Begun, Live, IsUp, Ends
<1>7. AskedOnce'
  BY <1>3, <1>5, AskedKeptByLoop DEF Invariant
<1>8. /\ Facts!Sound(q) /\ q.open = p.open
      /\ \A j \in Attempt : q.index[Dial(j)] = kNew /\ q.index[Conn(j)] = p.index[Conn(j)]
  BY <1>1, ChannelRemoved
<1> HIDE DEF q
<1>9. Registered'
  <2> SUFFICES ASSUME NEW j \in Attempt
               PROVE  /\ j \in ups \/ j = attempts \/ at \in {At("establishing", j), At("up", j)} =>
                           j \in p'.open
                      /\ p'.index[Dial(j)] = kNew /\ Dial(j) \notin active'
                      /\ p'.index[Conn(j)] # kNew => j \in Begun
                      /\ p'.index[Conn(j)] = kAdded <=> Live(j)
                      /\ Conn(j) \in active' => Live(j)
    BY <1>3, <1>6, <1>8 DEF Registered
  <2>1. Dial(j) \in active => j = k
    BY <1>1 DEF Invariant, Registered, Attempting
  <2> QED
    BY <1>1, <1>3, <1>8, <2>1 DEF Invariant, Registered
<1>10. OneThing'
  <2>1. Broken(attempts)' /\ connector'.channel_ = attempts
    BY <1>1, <1>3 DEF Broken
  <2>2. \A j \in Attempt : /\ state_[j] # "kConnected"
                           /\ downs[j] = 0 \/ (downs[j] = 1 /\ j \in ups)
    BY <1>1 DEF Invariant, OneThing
  <2> QED
    BY <1>1, <1>3, <1>6, <2>1, <2>2 DEF OneThing
<1>11. Owned'
  BY <1>1, <1>3, <1>6 DEF Owned
<1>12. ResetFirst' /\ Forced'
  BY <1>1, <1>3, <1>5 DEF ResetFirst, Forced, Dialing
<1>13. ShutFirst'
  <2>1. ASSUME NEW j \in Attempt
        PROVE  /\ Follows(tasks', S(j), D(j))
               /\ D(j) \in TaskSet' => downs[j] > 0
    BY <1>1, <1>2, <1>5 DEF Invariant, ShutFirst, Keeps
  <2>2. ASSUME NEW u \in User, Shutting(u)
        PROVE  Live(call[u].k) \/ Ends(call[u].k)
    BY <2>2 DEF Invariant, ShutFirst
  <2> QED
    BY <1>3, <1>6, <2>1, <2>2 DEF ShutFirst, Shutting
<1>14. EventsFirst'
  BY <1>1, <1>3 DEF Invariant, EventsFirst
<1> QED
  BY <1>7, <1>9, <1>10, <1>11, <1>12, <1>13, <1>14 DEF Invariant

\* The rest of newConnection: the connection is established,
LEMMA EstablishedKeeps ==
  ASSUME Types, Invariant, NEW k \in Attempt, connectEstablished(k)
  PROVE  Invariant'
<1>1. /\ at = At("establishing", k) /\ at.place = "establishing" /\ at.k = k
      /\ at' = At("up", k) /\ at'.place = "up" /\ at'.k = k
      /\ \A j : ~Ends(j) /\ ~Ends(j)' /\ at # At("up", j) /\ (at' = At("up", j) => j = k)
      /\ \A j : at' \notin {At("down", j), At("establishing", j)}
  BY DEF connectEstablished, At, Ends
<1>2. /\ connector.state_ = "kConnected" /\ k = attempts /\ k \notin ups /\ dispatching
      /\ client = "alive" /\ connection_ = k /\ downs[k] = 0 /\ k # NoAttempt
      /\ ~Dialing
  BY <1>1 DEF Invariant, OneThing, Owned, Dialing, Types, LoopTypes, ClientTypes, NoAttempt
<1>3. \A j \in Attempt : ~Live(j) /\ F(j) \notin TaskSet
  BY <1>1, <1>2, NothingUp
<1>4. /\ ups' = ups /\ downs' = downs /\ p' = Poller!enableReading(p, Conn(k))
      /\ client' = client /\ connector' = connector /\ connection_' = connection_
      /\ attempts' = attempts /\ connects' = connects /\ call' = call
      /\ dispatching' = dispatching /\ active' = active /\ batch' = batch /\ tasks' = tasks
      /\ \A j \in Attempt : state_'[j] = IF j = k THEN "kConnected" ELSE state_[j]
  BY DEF connectEstablished, clientVars, userVars, loopVars, Types, ConnTypes
<1>5. TaskSet' = TaskSet /\ \A x : Keeps(x)
  BY <1>4, SameKeeps
<1>6. /\ ~Dialing' /\ \A j \in Attempt : Live(j)' <=> j = k
      /\ Begun = ups /\ Begun' = ups \cup {k}
  <2>1. ~Dialing' /\ Begun = ups /\ Begun' = ups \cup {k}
    BY <1>1, <1>2, <1>4 DEF Dialing, Begun
  <2>2. ASSUME NEW j \in Attempt
        PROVE  Live(j)' <=> j = k
    <3>1. ~IsUp(j)
      BY <1>1, <1>3 DEF Live, At
    <3> QED
      BY <1>1, <1>4, <3>1 DEF Live, IsUp
  <2> QED
    BY <2>1, <2>2
<1>7. AskedOnce'
  BY <1>4, <1>5, AskedKeptByLoop DEF Invariant
<1>8. /\ OnlyOf(Conn(k), p, p') /\ p'.index[Conn(k)] = kAdded
      /\ \A j \in Attempt : /\ p'.index[Dial(j)] = p.index[Dial(j)]
                            /\ j # k => p'.index[Conn(j)] = p.index[Conn(j)]
  <2>1. Alone(p, Conn(k), k) /\ Facts!Sound(p)
    BY <1>1, <1>2 DEF Alone, Invariant, Registered, Attempting
  <2>2. OnlyOf(Conn(k), p, p') /\ p'.index[Conn(k)] = kAdded
    BY <1>4, <2>1, EnableEvents
  <2>3. ASSUME NEW j \in Attempt
        PROVE  /\ Dial(j) \in Channels \ {Conn(k)}
               /\ j # k => Conn(j) \in Channels \ {Conn(k)}
    BY FactsApply DEF Dial, Conn
  <2> QED
    BY <2>2, <2>3 DEF OnlyOf
<1>9. Registered'
  <2>1. Facts!Sound(p') /\ p'.open = p.open
    BY <1>8 DEF OnlyOf
  <2> SUFFICES ASSUME NEW j \in Attempt
               PROVE  /\ j \in ups \/ j = k => j \in p'.open
                      /\ p'.index[Dial(j)] = kNew /\ Dial(j) \notin active'
                      /\ p'.index[Conn(j)] # kNew => j \in ups \/ j = k
                      /\ p'.index[Conn(j)] = kAdded <=> j = k
                      /\ Conn(j) \notin active'
    BY <1>1, <1>4, <1>6, <2>1 DEF Registered
  <2>2. /\ p.index[Dial(j)] = kNew /\ Dial(j) \notin active
        /\ p.index[Conn(j)] # kNew => j \in ups
        /\ p.index[Conn(j)] # kAdded /\ Conn(j) \notin active
        /\ j \in ups => j \in p.open
        /\ k \in p.open
    BY <1>1, <1>2, <1>3, <1>6 DEF Invariant, Registered, Attempting
  <2> QED
    BY <1>4, <1>8, <2>1, <2>2
<1>10. OneThing'
  <2>1. \A j \in Attempt : /\ state_'[j] = "kConnected" => j = k
                           /\ downs[j] = 0 \/ (downs[j] = 1 /\ j \in ups)
    BY <1>3, <1>4 DEF Invariant, OneThing
  <2> QED
    BY <1>1, <1>2, <1>4, <1>6, <2>1 DEF OneThing
<1>11. Owned'
  BY <1>1, <1>2, <1>4, <1>6 DEF Owned
<1>12. ResetFirst' /\ Forced'
  BY <1>2, <1>3, <1>4, <1>5 DEF Invariant, ResetFirst, Forced
<1>13. ShutFirst'
  <2>1. \A j \in Attempt : /\ Follows(tasks, S(j), D(j))
                           /\ D(j) \in TaskSet => downs[j] > 0
    BY <1>1, <1>3 DEF Invariant, ShutFirst
  <2>2. ASSUME NEW u \in User
        PROVE  ~Shutting(u)
    BY <1>1, <1>3, ShuttingAttempt DEF Invariant, ShutFirst
  <2> QED
    BY <1>4, <1>5, <2>1, <2>2 DEF ShutFirst, Shutting
<1>14. EventsFirst'
  BY <1>4 DEF Invariant, EventsFirst
<1> QED
  BY <1>7, <1>9, <1>10, <1>11, <1>12, <1>13, <1>14 DEF Invariant

\* and said to be up.
LEMMA SaysUpKeeps ==
  ASSUME Types, Invariant, NEW k \in Attempt, saysUp(k)
  PROVE  Invariant'
<1>1. /\ at = At("up", k) /\ at.place = "up" /\ at.k = k
      /\ at' = Idle /\ at'.place = "idle"
      /\ \A j : ~Ends(j) /\ ~Ends(j)' /\ (at = At("up", j) => j = k) /\ at # At("down", j)
      /\ \A j : at' \notin {At("down", j), At("up", j), At("establishing", j)}
  BY DEF saysUp, At, Idle, Ends
<1>2. /\ connector.state_ = "kConnected" /\ k = attempts /\ k \notin ups /\ dispatching
      /\ client = "alive" /\ connection_ = k /\ downs[k] = 0 /\ k # NoAttempt
      /\ ~Dialing /\ Live(k)
  BY <1>1 DEF Invariant, OneThing, Owned, Dialing, Types, LoopTypes, ClientTypes, NoAttempt, Live
<1>3. \A j \in Attempt : (Live(j) <=> j = k) /\ F(j) \notin TaskSet
  BY <1>2 DEF Invariant, OneThing, Forced
<1>4. /\ ups' = ups \cup {k} /\ downs' = downs /\ p' = p
      /\ client' = client /\ connector' = connector /\ connection_' = connection_
      /\ attempts' = attempts /\ connects' = connects /\ call' = call
      /\ dispatching' = dispatching /\ active' = active /\ batch' = batch
      /\ \/ tasks' = tasks /\ state_' = state_
         \/ tasks' = Append(tasks, F(k)) /\ state_' = [state_ EXCEPT ![k] = "kDisconnecting"]
  BY DEF saysUp, callback, clientVars, userVars, loopVars, F
<1>5. /\ \A x : x # F(k) => Keeps(x)
      /\ TaskSet' \subseteq TaskSet \cup {F(k)} /\ Once(tasks', F(k))
  <2>1. CASE tasks' = tasks
    <3>1. TaskSet' = TaskSet /\ \A x : Keeps(x)
      BY <1>4, <2>1, SameKeeps
    <3>2. F(k) \notin SetOf(tasks')
      BY <1>3, <3>1 DEF TaskSet, SetOf
    <3> QED
      BY <3>1, <3>2, AbsentTask
  <2>2. CASE tasks' = Append(tasks, F(k))
    BY <1>3, <1>4, <2>2, TaskTypes, QueueKeeps
  <2> QED
    BY <1>4, <2>1, <2>2
<1>6. /\ Keeps(R) /\ Keeps(St) /\ \A j \in Attempt : Keeps(D(j)) /\ Keeps(S(j))
      /\ \A j \in Attempt : F(j) \in TaskSet' => j = k
  <2>1. \A j \in Attempt : F(j) = F(k) => j = k
    BY TaskTypes
  <2> QED
    BY <1>3, <1>5, <2>1, TaskTypes
<1>7. /\ ~Dialing' /\ \A j \in Attempt : Live(j)' <=> j = k
      /\ Begun = ups \cup {k} /\ Begun' = Begun
  <2>1. ~Dialing' /\ Begun = ups \cup {k} /\ Begun' = Begun
    BY <1>1, <1>2, <1>4 DEF Dialing, Begun
  <2>2. ASSUME NEW j \in Attempt
        PROVE  Live(j)' <=> j = k
    <3>1. j # k => ~IsUp(j)
      BY <1>1, <1>3 DEF Live
    <3> QED
      BY <1>1, <1>2, <1>4, <3>1 DEF Live, IsUp
  <2> QED
    BY <2>1, <2>2
<1>8. /\ state_'[k] \in {"kConnected", "kDisconnecting"}
      /\ \A j \in Attempt : j # k => state_'[j] = state_[j]
  BY <1>2, <1>4 DEF Types, ConnTypes, Invariant, OneThing
<1>9. AskedOnce'
  BY <1>4, <1>6, AskedKeptByLoop DEF Invariant
<1>10. Registered'
  <2>1. k \in p.open
    BY <1>1 DEF Invariant, Registered
  <2>2. \A j \in Attempt : p.index[Dial(j)] = kNew /\ Dial(j) \notin active
    BY <1>2 DEF Invariant, Registered, Attempting
  <2> QED
    BY <1>1, <1>3, <1>4, <1>7, <2>1, <2>2 DEF Invariant, Registered
<1>11. OneThing'
  <2>1. \A j \in Attempt : /\ state_'[j] = "kConnected" => j = k
                           /\ downs[j] = 0 \/ (downs[j] = 1 /\ j \in ups')
    BY <1>3, <1>4, <1>8 DEF Invariant, OneThing
  <2> QED
    BY <1>1, <1>2, <1>4, <1>7, <1>8, <2>1 DEF OneThing
<1>12. Owned'
  BY <1>1, <1>2, <1>4, <1>7 DEF Owned
<1>13. ResetFirst'
  <2>1. R \in TaskSet' => attempts > 0
    BY <1>6 DEF Invariant, ResetFirst, Keeps
  <2>2. ASSUME R \in TaskSet', NEW j \in Attempt
        PROVE  Conn(j) \notin active' /\ Precedes(tasks', R, F(j))
    <3>1. Precedes(tasks, R, F(j)) /\ Conn(j) \notin active
      BY <1>2, <1>6, <2>2 DEF Invariant, ResetFirst, Keeps
    <3> QED
      BY <1>4, <1>6, <3>1 DEF Keeps
  <2> QED
    BY <1>2, <1>4, <2>1, <2>2 DEF ResetFirst
<1>14. Forced'
  <2>1. Conn(k) \notin active
    <3>1. k \notin ups
      BY <1>2
    <3> QED
      BY <3>1 DEF Types, PollerTypes
  <2>2. \A j \in Attempt : F(j) \in TaskSet' => j \in ups' /\ Live(j)' /\ Once(tasks', F(j))
    BY <1>4, <1>5, <1>6, <1>7
  <2> QED
    BY <1>2, <1>4, <1>6, <2>1, <2>2 DEF Forced
<1>15. ShutFirst'
  <2>1. \A j \in Attempt : /\ j # k => Follows(tasks, S(j), D(j))
                           /\ D(j) \in TaskSet => downs[j] > 0
    BY <1>1, <1>3 DEF Invariant, ShutFirst
  <2>2. ASSUME NEW u \in User, Shutting(u)
        PROVE  call[u].k = k
    BY <1>1, <1>3, <2>2, ShuttingAttempt DEF Invariant, ShutFirst
  <2> QED
    BY <1>4, <1>6, <1>7, <2>1, <2>2 DEF ShutFirst, Shutting, Keeps
<1>16. EventsFirst'
  BY <1>4 DEF Invariant, EventsFirst
<1> QED
  BY <1>9, <1>10, <1>11, <1>12, <1>13, <1>14, <1>15, <1>16 DEF Invariant

\* A connection that is live is that of the last attempt, and there is no other.
LEMMA TheOneUp ==
  ASSUME Types, Invariant, NEW k \in Attempt, Live(k)
  PROVE  /\ connector.state_ = "kConnected" /\ ~Dialing /\ k = attempts /\ attempts > 0
         /\ at \in {Idle, At("up", k)} /\ at.place \in {"idle", "up"} /\ \A j : ~Ends(j)
         /\ k \in Begun /\ k \in p.open /\ downs[k] = 0 /\ (at = Idle => k \in ups)
         /\ \A j \in Attempt : Live(j) => j = k
         /\ connection_ \in {k, NoAttempt}
         /\ client = "alive" => \A j \in Attempt : F(j) \in TaskSet => j = k
         /\ Alone(p, Conn(k), k) /\ p.index[Conn(k)] = kAdded
         /\ \A j \in Attempt : Dial(j) \notin active /\ p.index[Dial(j)] = kNew
<1>1. /\ connector.state_ = "kConnected" /\ k = attempts /\ at \in {Idle, At("up", k)}
      /\ \A j \in Attempt : Live(j) => j = k
  BY DEF Invariant, OneThing
<1>2. /\ ~Dialing /\ at.place \in {"idle", "up"} /\ attempts > 0
      /\ \A j : ~Ends(j) /\ at # At("establishing", j)
  BY <1>1, ClientAssumption DEF Dialing, Idle, At, Attempt, Ends
<1>3. /\ k \in Begun /\ downs[k] = 0 /\ (at = Idle => k \in ups)
  <2>1. CASE IsUp(k)
    BY <2>1 DEF IsUp, Begun
  <2>2. CASE at = At("up", k)
    <3>1. k \notin ups
      BY <1>1, <2>2 DEF Invariant, OneThing, At
    <3> QED
      BY <2>2, <3>1 DEF Begun, Invariant, OneThing, At, Idle
  <2> QED
    BY <2>1, <2>2 DEF Live
<1>4. connection_ # NoAttempt => Live(connection_)
  BY <1>2 DEF Invariant, Owned
<1>5. connection_ \in {k, NoAttempt}
  BY <1>1, <1>4, NothingUp
<1>6. client = "alive" => \A j \in Attempt : F(j) \in TaskSet => j = k
  BY <1>1 DEF Invariant, Forced
<1>7. /\ k \in p.open /\ p.index[Conn(k)] = kAdded
      /\ \A j \in Attempt : Dial(j) \notin active /\ p.index[Dial(j)] = kNew
  BY <1>2, <1>3 DEF Invariant, Registered, Begun, Attempting
<1> QED
  BY <1>1, <1>2, <1>3, <1>5, <1>6, <1>7 DEF Alone

\* The connection reports something, and the user's callback may call forceClose.
LEMMA StaysKeeps ==
  ASSUME Types, Invariant, NEW k \in Attempt, handleEventStays(k)
  PROVE  Invariant'
<1>1. /\ Conn(k) \in active /\ active' = active \ {Conn(k)} /\ dispatching' = dispatching
      /\ batch' = batch /\ dispatching
      /\ client' = client /\ connector' = connector /\ connection_' = connection_
      /\ attempts' = attempts /\ ups' = ups /\ downs' = downs /\ connects' = connects /\ call' = call
      /\ at' = at /\ at = Idle /\ p' = p /\ net' = net
      /\ \/ tasks' = tasks /\ state_' = [state_ EXCEPT ![k] = state_[k]]
         \/ tasks' = Append(tasks, F(k)) /\ state_' = [state_ EXCEPT ![k] = "kDisconnecting"]
  BY DEF handleEventStays, Handles, callback, clientVars, userVars, F, Invariant, EventsFirst, Types,
    ConnTypes
<1>2. Live(k)
  BY <1>1 DEF Invariant, Registered
<1>3. batch = 0
  BY <1>1 DEF Invariant, EventsFirst
<1>4. CASE tasks' = tasks
  <2>1. /\ TaskSet' = TaskSet /\ \A x : Keeps(x)
    BY <1>1, <1>4, SameKeeps
  <2>2. AskedOnce'
    BY <1>1, <2>1, AskedKeptByLoop DEF Invariant
  <2>3. \A j \in Attempt : \/ state_'[j] = state_[j]
                           \/ state_'[j] = "kDisconnecting" /\ j = k /\ tasks' = Append(tasks, F(k))
    BY <1>1 DEF Types, ConnTypes
  <2>4. ASSUME tasks' = Append(tasks, F(k))
        PROVE  FALSE
    BY <1>4, <2>4 DEF Types, LoopTypes
  <2>5. /\ client = "gone" => ConnectorTasks \cap TaskSet' = {} /\ \A u \in User : call'[u] = Idle
        /\ \A u \in User : Shutting(u)' => Live(call'[u].k) \/ Ends(call'[u].k)
        /\ Broken(attempts)' <=> Broken(attempts)
    BY <1>1, <2>1 DEF Invariant, Owned, ShutFirst, Shutting, Broken
  <2> QED
    BY <1>1, <1>3, <2>1, <2>2, <2>3, <2>4, <2>5, Undisturbed
<1>5. CASE tasks' = Append(tasks, F(k)) /\ state_' = [state_ EXCEPT ![k] = "kDisconnecting"]
  <2>1. /\ \A x : x # F(k) => Keeps(x) /\ Follows(tasks', x, F(k))
        /\ TaskSet' = TaskSet \cup {F(k)}
        /\ F(k) \notin TaskSet => Once(tasks', F(k))
    BY <1>1, <1>5, TaskTypes, QueueKeeps
  <2>2. /\ Keeps(R) /\ Keeps(St) /\ \A j \in Attempt : Keeps(D(j)) /\ Keeps(S(j))
        /\ \A j \in Attempt : F(j) = F(k) => j = k
        /\ ConnectorTasks \cap TaskSet' = ConnectorTasks \cap TaskSet
    <3>1. F(k) \notin ConnectorTasks
      BY DEF F, Task, ConnectorTasks
    <3> QED
      BY <2>1, <3>1, TaskTypes
  <2>3. /\ connector.state_ = "kConnected" /\ ~Dialing /\ k \in ups /\ downs[k] = 0
        /\ \A j \in Attempt : Live(j) => j = k
        /\ client = "alive" => \A j \in Attempt : F(j) \notin TaskSet
    <3>1. client = "alive" => F(k) \notin TaskSet
      BY <1>1 DEF Invariant, Forced
    <3> QED
      BY <1>1, <1>2, <3>1, TheOneUp
  <2>4. /\ Dialing' <=> Dialing
        /\ Begun' = Begun
        /\ \A j : (Live(j)' <=> Live(j)) /\ (Ends(j)' <=> Ends(j))
    BY <1>1 DEF Dialing, Live, IsUp, Ends, Begun
  <2>5. AskedOnce'
    BY <1>1, <2>2, AskedKeptByLoop DEF Invariant
  <2>6. /\ \A j \in Attempt : state_'[j] = IF j = k THEN "kDisconnecting" ELSE state_[j]
    BY <1>5 DEF Types, ConnTypes
  <2>7. Registered'
    BY <1>1, <2>3, <2>4 DEF Invariant, Registered, Attempting
  <2>8. OneThing'
    BY <1>1, <1>2, <2>3, <2>4, <2>6, NothingUp DEF Invariant, OneThing
  <2>9. Owned'
    BY <1>1, <2>1, <2>2, <2>4 DEF Invariant, Owned
  <2>10. ResetFirst'
    <3>1. R \notin TaskSet
      BY <1>1, <2>3 DEF Invariant, ResetFirst
    <3> QED
      BY <2>2, <3>1 DEF ResetFirst, Keeps
  <2>11. Forced'
    <3> SUFFICES ASSUME NEW j \in Attempt, F(j) \in TaskSet'
                 PROVE  /\ client = "alive" =>
                             /\ j \in ups /\ Live(j) /\ Once(tasks', F(j)) /\ Conn(j) \notin active'
                             /\ dispatching
                        /\ ~Live(j) => state_'[j] = "kDisconnected"
      BY <1>1, <2>4 DEF Forced
    <3>1. j = k \/ F(j) \in TaskSet
      BY <2>1, <2>2
    <3>2. client = "alive" => j = k
      BY <2>3, <3>1
    <3>3. j # k /\ ~Live(j) => state_[j] = "kDisconnected"
      BY <3>1 DEF Invariant, Forced
    <3> QED
      BY <1>1, <1>2, <2>1, <2>3, <2>6, <3>2, <3>3
  <2>12. ShutFirst'
    BY <1>1, <2>1, <2>2, <2>4, TaskTypes DEF Invariant, ShutFirst, Shutting, Keeps
  <2>13. EventsFirst'
    BY <1>1 DEF Invariant, EventsFirst
  <2> QED
    BY <2>5, <2>7, <2>8, <2>9, <2>10, <2>11, <2>12, <2>13 DEF Invariant
<1> QED
  BY <1>1, <1>4, <1>5

\* A connection that is live is closed, and no forceClose of it is left.
LEMMA CloseKeeps ==
  ASSUME Types, Invariant, NEW k \in Attempt, Live(k), at = Idle, handleClose(k),
         UNCHANGED <<client, connection_, connector, attempts, ups, downs, connects, call>>,
         \A x : Keeps(x), R \notin TaskSet,
         \A j \in Attempt : /\ Dial(j) \in active' => Dial(j) \in active
                            /\ Conn(j) \notin active'
                            /\ client = "alive" => F(j) \notin TaskSet',
         EventsFirst'
  PROVE  Invariant'
<1>1. /\ connector.state_ = "kConnected" /\ ~Dialing /\ k = attempts /\ attempts > 0
      /\ k \in ups /\ k \in p.open /\ downs[k] = 0
      /\ \A j \in Attempt : Live(j) => j = k
      /\ \A j : ~Ends(j)
      /\ connection_ \in {k, NoAttempt}
      /\ Alone(p, Conn(k), k) /\ p.index[Conn(k)] = kAdded
      /\ \A j \in Attempt : Dial(j) \notin active /\ p.index[Dial(j)] = kNew
  BY TheOneUp
<1>2. /\ p' = Poller!disableAll(p, Conn(k))
      /\ at' = At("down", k) /\ at'.place = "down" /\ at'.k = k
      /\ \A j : at' \notin {At("establishing", j), At("up", j)}
      /\ \A j \in Attempt : state_'[j] = IF j = k THEN "kDisconnected" ELSE state_[j]
  BY DEF handleClose, At, Types, ConnTypes
<1>3. /\ ~Dialing' /\ Ends(k)' /\ Begun' = ups /\ Begun = ups
      /\ \A j \in Attempt : ~Live(j)'
  <2>1. ~Dialing' /\ Ends(k)' /\ Begun' = ups /\ Begun = ups
    BY <1>1, <1>2, BegunIdle DEF Dialing, Ends, Begun
  <2>2. ASSUME NEW j \in Attempt
        PROVE  ~Live(j)'
    <3>1. j # k => ~IsUp(j)
      BY <1>1 DEF Live, Idle, At
    <3>2. j # k => ~IsUp(j)'
      BY <3>1 DEF IsUp
    <3> QED
      BY <1>2, <3>2 DEF Live
  <2> QED
    BY <2>1, <2>2
<1>4. /\ TaskSet' \subseteq TaskSet /\ R \notin TaskSet'
      /\ \A j \in Attempt : Follows(tasks, S(j), D(j)) => Follows(tasks', S(j), D(j))
  BY DEF Keeps
<1>5. AskedOnce'
  BY AskedKeptByLoop DEF Invariant
<1>6. /\ OnlyOf(Conn(k), p, p') /\ p'.index[Conn(k)] = kDeleted
      /\ \A j \in Attempt : /\ p'.index[Dial(j)] = p.index[Dial(j)]
                            /\ j # k => p'.index[Conn(j)] = p.index[Conn(j)]
  <2>1. OnlyOf(Conn(k), p, p') /\ p'.index[Conn(k)] = kDeleted
    BY <1>1, <1>2, DisableAll DEF Invariant, Registered
  <2>2. ASSUME NEW j \in Attempt
        PROVE  /\ Dial(j) \in Channels \ {Conn(k)}
               /\ j # k => Conn(j) \in Channels \ {Conn(k)}
    BY FactsApply DEF Dial, Conn
  <2> QED
    BY <2>1, <2>2 DEF OnlyOf
<1>7. Registered'
  <2>1. Facts!Sound(p') /\ p'.open = p.open
    BY <1>6 DEF OnlyOf
  <2> SUFFICES ASSUME NEW j \in Attempt
               PROVE  /\ j \in ups => j \in p.open
                      /\ p'.index[Dial(j)] = kNew /\ Dial(j) \notin active'
                      /\ p'.index[Conn(j)] # kNew => j \in ups
                      /\ p'.index[Conn(j)] # kAdded
                      /\ Conn(j) \notin active'
    BY <1>2, <1>3, <2>1 DEF Registered
  <2>2. /\ p.index[Conn(j)] # kNew => j \in ups
        /\ p.index[Conn(j)] = kAdded => Live(j)
        /\ j \in ups => j \in p.open
    BY <1>3 DEF Invariant, Registered
  <2> QED
    BY <1>1, <1>6, <2>2, Indices
<1>8. OneThing'
  <2>1. \A j \in Attempt : /\ state_'[j] # "kConnected"
                           /\ downs[j] = 0 \/ (downs[j] = 1 /\ j \in ups)
    BY <1>1, <1>2 DEF Invariant, OneThing
  <2> QED
    BY <1>1, <1>2, <1>3, <1>4, <2>1 DEF OneThing
<1>9. Owned'
  BY <1>1, <1>2, <1>3, <1>4 DEF Invariant, Owned
<1>10. ResetFirst' /\ EventsFirst'
  BY <1>4 DEF ResetFirst
<1>11. Forced'
  <2> SUFFICES ASSUME NEW j \in Attempt, F(j) \in TaskSet'
               PROVE  client # "alive" /\ state_'[j] = "kDisconnected"
    BY <1>3 DEF Forced
  <2>1. F(j) \in TaskSet
    BY <1>4
  <2> QED
    BY <1>1, <1>2, <2>1 DEF Invariant, Forced
<1>12. ShutFirst'
  <2>1. ASSUME NEW j \in Attempt
        PROVE  /\ j = k \/ Follows(tasks', S(j), D(j))
               /\ D(j) \in TaskSet' => downs[j] > 0
    BY <1>1, <1>4 DEF Invariant, ShutFirst
  <2>2. ASSUME NEW u \in User, Shutting(u)
        PROVE  call[u].k = k
    BY <1>1, <2>2, ShuttingAttempt DEF Invariant, ShutFirst
  <2> QED
    BY <1>3, <2>1, <2>2 DEF ShutFirst, Shutting
<1> QED
  BY <1>5, <1>7, <1>8, <1>9, <1>10, <1>11, <1>12 DEF Invariant

\* The end of the connection's other side is reported.
LEMMA EventClosesKeeps ==
  ASSUME Types, Invariant, NEW k \in Attempt, handleEventCloses(k)
  PROVE  Invariant'
<1>1. /\ Conn(k) \in active /\ active' = active \ {Conn(k)} /\ dispatching' = dispatching
      /\ batch' = batch /\ tasks' = tasks /\ handleClose(k)
      /\ UNCHANGED <<client, connection_, connector, attempts, ups, downs, connects, call>>
      /\ at = Idle
  BY DEF handleEventCloses, Handles, clientVars, userVars
<1>2. Live(k)
  BY <1>1 DEF Invariant, Registered
<1>3. /\ connector.state_ = "kConnected"
      /\ \A j \in Attempt : Live(j) => j = k
      /\ client = "alive" => \A j \in Attempt : F(j) \in TaskSet => j = k
  BY <1>2, TheOneUp
<1>4. R \notin TaskSet
  BY <1>1, <1>3 DEF Invariant, ResetFirst
<1>5. TaskSet' = TaskSet /\ \A x : Keeps(x)
  BY <1>1, SameKeeps
<1>6. ASSUME NEW j \in Attempt
      PROVE  Conn(j) \notin active' /\ (client = "alive" => F(j) \notin TaskSet')
  <2>1. Conn(j) \in active => j = k
    BY <1>3 DEF Invariant, Registered
  <2>2. client = "alive" => F(k) \notin TaskSet
    BY <1>1 DEF Invariant, Forced
  <2> QED
    BY <1>1, <1>3, <1>5, <2>1, <2>2
<1>7. EventsFirst'
  BY <1>1 DEF Invariant, EventsFirst
<1> QED
  BY <1>1, <1>2, <1>4, <1>5, <1>6, <1>7, CloseKeeps

\* A forceClose closes the connection; when it comes too late, there is no client.
LEMMA ForceCloseKeeps ==
  ASSUME Types, Invariant, NEW k \in Attempt, forceCloseInLoop(k)
  PROVE  Invariant'
<1>1. /\ Starts("forceCloseInLoop", k) /\ tasks' = Tail(tasks)
      /\ client' = client /\ connection_' = connection_ /\ connector' = connector
      /\ attempts' = attempts /\ ups' = ups /\ downs' = downs /\ connects' = connects
      /\ call' = call /\ net' = net
      /\ dispatching' = dispatching /\ active' = active
  BY DEF forceCloseInLoop, Starts, clientVars, userVars
<1>2. /\ \A x : Keeps(x)
      /\ F(k) \in TaskSet /\ TaskSet \subseteq TaskSet' \cup {F(k)}
      /\ Once(tasks, F(k)) => F(k) \notin TaskSet'
      /\ Precedes(tasks, R, F(k)) => R \notin TaskSet
  BY <1>1, RunKeeps DEF F
<1>3. /\ batch > 0 /\ ~dispatching /\ active = {} /\ at = Idle
  BY <1>1 DEF Starts, Invariant, EventsFirst
<1>4. EventsFirst'
  BY <1>1, <1>3 DEF EventsFirst
<1>5. /\ client = "alive" => Live(k) /\ Once(tasks, F(k))
      /\ ~Live(k) => state_[k] = "kDisconnected"
  BY <1>2 DEF Invariant, Forced
<1>6. CASE handleClose(k) /\ Runnable("forceClose", state_[k])
  <2>2. Live(k)
    BY <1>5, <1>6 DEF Runnable
  <2>3. /\ connector.state_ = "kConnected"
        /\ client = "alive" => \A j \in Attempt : F(j) \in TaskSet => j = k
    BY <2>2, TheOneUp
  <2>4. R \notin TaskSet
    BY <1>2, <2>3 DEF Invariant, ResetFirst
  <2>5. client = "alive" => \A j \in Attempt : F(j) \notin TaskSet'
    BY <1>2, <1>5, <2>3 DEF Keeps
  <2> QED
    BY <1>1, <1>2, <1>3, <1>4, <1>6, <2>2, <2>4, <2>5, CloseKeeps
<1>7. CASE ~Runnable("forceClose", state_[k]) /\ UNCHANGED <<state_, p, at>>
  <2>1. ~Live(k) /\ client = "gone"
    <3>1. ~Live(k)
      BY <1>7 DEF Runnable, Invariant, OneThing
    <3> QED
      BY <1>5, <3>1 DEF Types, ClientTypes
  <2>2. AskedOnce'
    BY <1>1, <1>2, AskedKeptByLoop DEF Invariant
  <2>3. \A j \in Attempt : Live(j) /\ F(j) \in TaskSet => F(j) \in TaskSet'
    <3>1. \A j \in Attempt : F(j) = F(k) => j = k
      BY TaskTypes
    <3> QED
      BY <1>2, <2>1, <3>1
  <2>4. /\ TaskSet' \subseteq TaskSet
        /\ ConnectorTasks \cap TaskSet = {} /\ \A u \in User : call[u] = Idle
    BY <1>2, <2>1 DEF Keeps, Invariant, Owned
  <2>5. /\ \A u \in User : Shutting(u)' => Live(call'[u].k) \/ Ends(call'[u].k)
        /\ Broken(attempts)' <=> Broken(attempts)
    BY <1>1 DEF Invariant, ShutFirst, Shutting, Broken
  <2> QED
    BY <1>1, <1>2, <1>3, <1>7, <2>2, <2>3, <2>4, <2>5, Undisturbed
<1> QED
  BY <1>6, <1>7 DEF forceCloseInLoop

\* The connection is said to be down, and the callback finds nothing to close.
LEMMA SaysDownKeeps ==
  ASSUME Types, Invariant, Apart, NEW k \in Attempt, saysDown(k)
  PROVE  Invariant'
<1>1. /\ at = At("down", k) /\ at.place = "down" /\ at.k = k
      /\ at' = At("closing", k) /\ at'.place = "closing" /\ at'.k = k
      /\ \A j : at' \notin {At("up", j), At("establishing", j)}
      /\ \A j : at \notin {At("up", j), At("establishing", j)}
      /\ \A j : (Ends(j) <=> j = k) /\ (Ends(j)' <=> j = k)
  BY DEF saysDown, At, Ends
<1>2. /\ connector.state_ = "kConnected" /\ R \notin TaskSet /\ ~Dialing /\ downs[k] = 0 /\ k \in ups
  BY <1>1 DEF Invariant, OneThing, Dialing, Types, LoopTypes
<1>3. \A j \in Attempt : ~Live(j)
  BY <1>1, NothingUp
<1>4. state_' = state_ /\ tasks' = tasks
  <2>1. usage.local # {} => state_[k] = "kDisconnected"
    BY <1>1 DEF Apart
  <2> QED
    BY <2>1 DEF saysDown, callback, Runnable
<1>5. /\ ups' = ups /\ p' = p /\ connector' = connector /\ connection_' = connection_
      /\ client' = client /\ attempts' = attempts /\ connects' = connects /\ call' = call
      /\ dispatching' = dispatching /\ active' = active /\ batch' = batch
      /\ \A j \in Attempt : downs'[j] = IF j = k THEN 1 ELSE downs[j]
  BY <1>2 DEF saysDown, clientVars, userVars, loopVars, Types, ConnTypes, Count
<1>6. TaskSet' = TaskSet /\ \A x : Keeps(x)
  BY <1>4, <1>5, SameKeeps
<1>7. /\ ~Dialing' /\ Begun' = ups /\ Begun = ups
      /\ \A j \in Attempt : ~Live(j)'
  <2>1. ~Dialing' /\ Begun' = ups /\ Begun = ups
    BY <1>1, <1>2, <1>5 DEF Dialing, Begun
  <2>2. ASSUME NEW j \in Attempt
        PROVE  ~Live(j)'
    <3>1. j # k => ~IsUp(j)
      BY <1>1, <1>3 DEF Live, At
    <3>2. ~IsUp(j)'
      BY <1>5, <3>1 DEF IsUp
    <3> QED
      BY <1>1, <3>2 DEF Live
  <2> QED
    BY <2>1, <2>2
<1>8. AskedOnce'
  BY <1>5, <1>6, AskedKeptByLoop DEF Invariant
<1>9. Registered'
  BY <1>1, <1>2, <1>3, <1>5, <1>7 DEF Invariant, Registered, Attempting
<1>10. OneThing'
  <2>1. \A j \in Attempt : /\ state_'[j] # "kConnected"
                           /\ downs'[j] = 0 \/ (downs'[j] = 1 /\ j \in ups)
    BY <1>2, <1>3, <1>4, <1>5 DEF Invariant, OneThing
  <2> QED
    BY <1>1, <1>2, <1>5, <1>6, <1>7, <2>1 DEF OneThing
<1>11. Owned'
  <2>1. connection_ # NoAttempt => client = "alive" /\ Ends(connection_)
    BY <1>1, <1>3, NothingUp DEF Invariant, Owned
  <2> QED
    BY <1>1, <1>5, <1>6, <1>7, <2>1 DEF Invariant, Owned
<1>12. ResetFirst' /\ Forced'
  BY <1>2, <1>3, <1>4, <1>5, <1>6, <1>7 DEF Invariant, ResetFirst, Forced
<1>13. ShutFirst'
  <2>1. \A j \in Attempt : /\ j = k \/ Follows(tasks, S(j), D(j))
                           /\ D(j) \in TaskSet => downs'[j] > 0
    BY <1>1, <1>3, <1>5 DEF Invariant, ShutFirst
  <2>2. ASSUME NEW u \in User, Shutting(u)
        PROVE  call[u].k = k
    BY <1>1, <1>3, <2>2, ShuttingAttempt DEF Invariant, ShutFirst
  <2> QED
    BY <1>1, <1>4, <1>5, <1>6, <2>1, <2>2 DEF ShutFirst, Shutting
<1>14. EventsFirst'
  BY <1>5 DEF Invariant, EventsFirst
<1> QED
  BY <1>8, <1>9, <1>10, <1>11, <1>12, <1>13, <1>14 DEF Invariant

\* The close callback: connection_ is reset, and the connection's last task queued
\* behind the one of a disconnect.
LEMMA RemoveConnectionKeeps ==
  ASSUME Types, Invariant, NEW k \in Attempt, removeConnection(k)
  PROVE  Invariant'
<1>1. /\ at = At("closing", k) /\ at.place = "closing" /\ at.k = k
      /\ at' \in {At("restarting", NoAttempt), Idle}
      /\ at'.place \in {"idle", "restarting"} /\ (at'.place = "restarting" => client = "alive")
      /\ \A j : /\ at' \notin {At("establishing", j), At("up", j)} /\ ~Ends(j)'
                /\ at \notin {At("establishing", j), At("up", j), At("down", j)}
                /\ Ends(j) <=> j = k
  BY DEF removeConnection, At, Idle, Ends
<1>2. /\ tasks' = Append(tasks, D(k)) /\ batch' = batch /\ connection_' = NoAttempt
      /\ client' = client /\ connector' = connector /\ attempts' = attempts /\ ups' = ups
      /\ downs' = downs /\ state_' = state_ /\ connects' = connects /\ call' = call
      /\ p' = p /\ dispatching' = dispatching /\ active' = active
  BY DEF removeConnection, connVars, userVars, loopVars, D
<1>3. /\ connector.state_ = "kConnected" /\ ~Dialing /\ R \notin TaskSet /\ downs[k] > 0 /\ k \in ups
  BY <1>1 DEF Invariant, OneThing, Dialing, Types, LoopTypes
<1>4. \A j \in Attempt : ~Live(j) /\ (client = "alive" => F(j) \notin TaskSet)
  BY <1>1, NothingUp
<1>5. /\ \A x : x # D(k) => Keeps(x) /\ Follows(tasks', x, D(k))
      /\ TaskSet' = TaskSet \cup {D(k)}
  BY <1>2, TaskTypes, QueueKeeps
<1>6. /\ Keeps(St) /\ R \notin TaskSet'
      /\ \A j \in Attempt : /\ Keeps(F(j)) /\ Keeps(S(j)) /\ Follows(tasks', S(j), D(k))
                            /\ D(j) \in TaskSet' => D(j) \in TaskSet \/ j = k
                            /\ F(j) \in TaskSet' => F(j) \in TaskSet
      /\ ConnectorTasks \cap TaskSet' = ConnectorTasks \cap TaskSet
  <2>1. D(k) \notin ConnectorTasks
    BY DEF D, Task, ConnectorTasks
  <2> QED
    BY <1>3, <1>5, <2>1, TaskTypes
<1>7. ~Dialing' /\ Begun' = Begun /\ \A j \in Attempt : ~Live(j)'
  <2>1. \A j \in Attempt : ~IsUp(j)
    BY <1>1, <1>4 DEF Live
  <2> QED
    BY <1>1, <1>2, <1>3, <2>1 DEF Dialing, Live, IsUp, Begun
<1>8. AskedOnce'
  BY <1>2, <1>6, AskedKeptByLoop DEF Invariant
<1>9. Registered'
  BY <1>1, <1>2, <1>3, <1>4, <1>7 DEF Invariant, Registered, Attempting
<1>10. OneThing'
  BY <1>1, <1>2, <1>3, <1>4, <1>6, <1>7 DEF Invariant, OneThing
<1>11. Owned'
  BY <1>1, <1>2, <1>3, <1>6, <1>7 DEF Invariant, Owned
<1>12. ResetFirst'
  BY <1>6 DEF ResetFirst
<1>13. Forced'
  BY <1>2, <1>4, <1>6, <1>7 DEF Invariant, Forced
<1>14. ShutFirst'
  <2>1. ASSUME NEW u \in User
        PROVE  ~Shutting(u)
    BY DEF removeConnection, mutexFree, Shutting
  <2>2. ASSUME NEW j \in Attempt
        PROVE  Follows(tasks', S(j), D(j))
    <3>1. CASE j = k
      BY <1>6, <3>1
    <3>2. CASE j # k
      <4>1. Follows(tasks, S(j), D(j))
        BY <1>1, <1>4, <3>2 DEF Invariant, ShutFirst
      <4> QED
        BY <1>6, <4>1 DEF Keeps
    <3> QED
      BY <3>1, <3>2
  <2> QED
    BY <1>2, <1>3, <1>6, <2>1, <2>2 DEF Invariant, ShutFirst, Shutting
<1>15. EventsFirst'
  BY <1>2 DEF Invariant, EventsFirst
<1> QED
  BY <1>8, <1>9, <1>10, <1>11, <1>12, <1>13, <1>14, <1>15 DEF Invariant

\* The connection's last task finds it down, and takes its channel out of the poller.
LEMMA DestroyedKeeps ==
  ASSUME Types, Invariant, NEW k \in Attempt, connectDestroyed(k)
  PROVE  Invariant'
<1>1. /\ Starts("connectDestroyed", k) /\ tasks' = Tail(tasks)
      /\ client' = client /\ connection_' = connection_ /\ connector' = connector
      /\ attempts' = attempts /\ ups' = ups /\ connects' = connects /\ call' = call
      /\ dispatching' = dispatching /\ active' = active /\ at' = at /\ net' = net
  BY DEF connectDestroyed, Starts, clientVars, userVars
<1>2. /\ \A x : Keeps(x)
      /\ D(k) \in TaskSet /\ TaskSet \subseteq TaskSet' \cup {D(k)}
  BY <1>1, RunKeeps DEF D
<1>3. /\ batch > 0 /\ ~dispatching /\ active = {} /\ at = Idle
  BY <1>1 DEF Starts, Invariant, EventsFirst
<1>4. k \in ups /\ downs[k] > 0 /\ ~Live(k)
  BY <1>2, <1>3, BegunIdle, NothingUp DEF Types, ConnTypes, Invariant, ShutFirst, IsUp
<1>5. p' = Poller!removeChannel(p, Conn(k)) /\ state_' = state_ /\ downs' = downs
  BY <1>4 DEF connectDestroyed, Invariant, OneThing
<1>6. /\ OnlyOf(Conn(k), p, p') /\ p'.index[Conn(k)] = kNew
      /\ \A j \in Attempt : /\ p'.index[Dial(j)] = p.index[Dial(j)]
                            /\ j # k => p'.index[Conn(j)] = p.index[Conn(j)]
  <2>1. Alone(p, Conn(k), k) /\ Facts!Sound(p)
    BY <1>4, TheAttempt DEF Alone, Invariant, Registered
  <2>2. OnlyOf(Conn(k), p, p') /\ p'.index[Conn(k)] = kNew
    BY <1>5, <2>1, RemoveChannel
  <2>3. ASSUME NEW j \in Attempt
        PROVE  /\ Dial(j) \in Channels \ {Conn(k)}
               /\ j # k => Conn(j) \in Channels \ {Conn(k)}
    BY FactsApply DEF Dial, Conn
  <2> QED
    BY <2>2, <2>3 DEF OnlyOf
<1>7. /\ Dialing' <=> Dialing
      /\ Begun' = Begun /\ k \in Begun
      /\ Broken(attempts)' <=> Broken(attempts)
      /\ \A j : /\ (Live(j)' <=> Live(j)) /\ (Ends(j)' <=> Ends(j))
                /\ Attempting(j) => Attempting(j)'
  <2>1. R \in TaskSet' => R \in TaskSet
    BY <1>2 DEF Keeps
  <2> QED
    BY <1>1, <1>4, <1>5, <2>1 DEF Dialing, Live, IsUp, Begun, Broken, Ends, Attempting
<1>8. Registered'
  <2>1. Facts!Sound(p') /\ p'.open = p.open
    BY <1>6 DEF OnlyOf
  <2> SUFFICES ASSUME NEW j \in Attempt
               PROVE  /\ j \in ups \/ (Dialing /\ j = attempts)
                        \/ at \in {At("establishing", j), At("up", j)} => j \in p.open
                      /\ p'.index[Dial(j)] # kNew => Attempting(j)
                      /\ p'.index[Conn(j)] # kNew => j \in Begun
                      /\ p'.index[Conn(j)] = kAdded <=> Live(j)
    BY <1>1, <1>3, <1>7, <2>1 DEF Registered
  <2> QED
    BY <1>4, <1>6, <1>7, Indices DEF Invariant, Registered
<1>9. AskedOnce'
  BY <1>1, <1>2, AskedKeptByLoop DEF Invariant
<1>10. R \in TaskSet' => R \in TaskSet
  BY <1>2 DEF Keeps
<1>11. OneThing'
  BY <1>1, <1>3, <1>5, <1>7, <1>10, NothingUp DEF Invariant, OneThing
<1>12. Owned'
  <2>1. \A j \in Attempt : F(j) \in TaskSet => F(j) \in TaskSet'
    BY <1>2, TaskTypes
  <2>2. TaskSet' \subseteq TaskSet
    BY <1>2 DEF Keeps
  <2> QED
    BY <1>1, <1>7, <2>1, <2>2 DEF Invariant, Owned
<1>13. ResetFirst'
  <2>1. ASSUME R \in TaskSet', connector.state_ = "kConnected"
        PROVE  Within(tasks', batch', R) /\ \A j \in Attempt : Precedes(tasks', R, F(j))
    BY <1>2, <1>3, <1>10, <2>1 DEF Invariant, ResetFirst, Keeps
  <2> QED
    BY <1>1, <1>3, <1>10, <2>1 DEF Invariant, ResetFirst
<1>14. Forced'
  <2> SUFFICES ASSUME NEW j \in Attempt, F(j) \in TaskSet'
               PROVE  /\ client = "alive" =>
                           /\ j \in ups /\ Live(j) /\ Once(tasks', F(j)) /\ Within(tasks', batch', F(j))
                      /\ ~Live(j) => state_[j] = "kDisconnected"
    BY <1>1, <1>3, <1>5, <1>7 DEF Forced
  <2>1. Keeps(F(j))
    BY <1>2
  <2> QED
    BY <1>3, <2>1 DEF Invariant, Forced, Keeps
<1>15. ShutFirst'
  BY <1>1, <1>2, <1>5, <1>7 DEF Invariant, ShutFirst, Shutting, Keeps
<1>16. EventsFirst'
  BY <1>1, <1>3 DEF EventsFirst
<1> QED
  BY <1>8, <1>9, <1>11, <1>12, <1>13, <1>14, <1>15, <1>16 DEF Invariant

\* startInLoop makes the next attempt or none, when no connection is up and nothing
\* of an earlier one is left that could disturb it.
LEMMA StartKeeps ==
  ASSUME Types, Invariant, AskedOnce', NEW conr \in ConnectorType, startInLoop(conr),
         conr.state_ # "kConnecting", ~Dialing,
         UNCHANGED <<client, connection_, state_, ups, downs, call, dispatching, active>>,
         at.place \in {"idle", "restarting"}, at' = Idle, client = "alive", R \notin TaskSet,
         \A k \in Attempt : ~Live(k), \A x : Keeps(x), dispatching => batch' = 0
  PROVE  Invariant'
<1> DEFINE k == attempts + 1
           q == [p EXCEPT !.open = @ \cup {k}]
<1>1. /\ at'.place = "idle" /\ attempts \in Nat /\ ups \subseteq 1..attempts
      /\ \A j : ~Ends(j) /\ at \notin {At("down", j), At("up", j), At("establishing", j)}
      /\ \A j : ~Ends(j)' /\ at' \notin {At("down", j), At("up", j), At("establishing", j)}
  BY DEF At, Idle, Ends, Types, ClientTypes, ConnTypes
<1>2. connection_ = NoAttempt
  <2>1. connection_ # NoAttempt => Live(connection_)
    BY <1>1 DEF Invariant, Owned
  <2> QED
    BY <2>1, NothingUp
<1>3. /\ Begun = ups /\ Begun' = ups
      /\ \A j \in Attempt : ~Live(j)' /\ state_[j] # "kConnected"
  <2>1. \A j \in Attempt : ~IsUp(j)
    BY <1>1 DEF Live
  <2> QED
    BY <1>1, <2>1 DEF Live, IsUp, Begun, Invariant, OneThing
<1>4. R \notin TaskSet' /\ \A j \in Attempt : F(j) \notin TaskSet'
  BY DEF Keeps, Invariant, Forced
<1>5. Owned'
  BY <1>1, <1>2, <1>3 DEF Owned
<1>6. ResetFirst' /\ Forced'
  BY <1>4 DEF ResetFirst, Forced
<1>7. ShutFirst'
  <2>1. ASSUME NEW j \in Attempt
        PROVE  /\ Follows(tasks', S(j), D(j))
               /\ D(j) \in TaskSet' => downs[j] > 0
    BY <1>1 DEF Invariant, ShutFirst, Keeps
  <2>2. ASSUME NEW u \in User
        PROVE  ~Shutting(u)
    BY <1>1, ShuttingAttempt DEF Invariant, ShutFirst
  <2> QED
    BY <2>1, <2>2 DEF ShutFirst, Shutting
<1>8. EventsFirst'
  BY DEF Invariant, EventsFirst
<1>9. \A j \in Attempt : /\ p.index[Dial(j)] = kNew /\ Dial(j) \notin active
                         /\ p.index[Conn(j)] # kNew => j \in ups
                         /\ p.index[Conn(j)] # kAdded /\ Conn(j) \notin active
                         /\ j \in ups => j \in p.open
                         /\ downs[j] = 0 \/ (downs[j] = 1 /\ j \in ups)
  BY <1>3 DEF Invariant, Registered, OneThing, Attempting
<1>10. CASE connector' = conr /\ UNCHANGED <<attempts, net, p>>
  <2>1. ~Dialing'
    BY <1>10 DEF Dialing
  <2>2. Registered'
    BY <1>1, <1>3, <1>9, <1>10, <2>1 DEF Invariant, Registered
  <2>3. OneThing'
    BY <1>1, <1>3, <1>9, <2>1 DEF OneThing
  <2> QED
    BY <1>5, <1>6, <1>7, <1>8, <2>2, <2>3 DEF Invariant
<1>11. CASE /\ attempts < MaxAttempts /\ attempts' = k
            /\ connector' = [conr EXCEPT !.state_ = "kConnecting", !.channel_ = k]
            /\ p' = Poller!enableWriteing(q, Dial(k))
  <2>1. k \in Attempt /\ k \notin ups /\ k > 0
    BY <1>1, <1>11, ClientAssumption DEF Attempt
  <2>2. connector'.channel_ = k /\ connector'.state_ = "kConnecting"
    BY <1>11 DEF ConnectorType
  <2>3. Facts!Sound(q) /\ q.index = p.index /\ q.open = p.open \cup {k}
    BY <2>1, OpenFd DEF Invariant, Registered
  <2> HIDE DEF q
  <2>4. Alone(q, Dial(k), k)
    BY <1>9, <2>1, <2>3 DEF Alone
  <2>5. OnlyOf(Dial(k), q, p')
    BY <1>11, <2>3, <2>4, EnableEvents
  <2>6. attempts' = k
    BY <1>11
  <2> HIDE DEF k
  <2>7. /\ Dialing'
        /\ \A j : Attempting(j)' <=> j = k
    BY <1>4, <2>2 DEF Dialing, Attempting
  <2>8. Registered'
    <3>1. ASSUME NEW j \in Attempt
          PROVE  /\ j \in ups \/ j = k => j \in p'.open
                 /\ j # k => p'.index[Dial(j)] = kNew
                 /\ p'.index[Conn(j)] # kNew => j \in ups
                 /\ p'.index[Conn(j)] # kAdded
                 /\ Dial(j) \notin active /\ Conn(j) \notin active
      <4>1. /\ j # k => Dial(j) \in Channels \ {Dial(k)}
            /\ Conn(j) \in Channels \ {Dial(k)}
        BY <3>1, FactsApply DEF Dial, Conn
      <4> QED
        BY <1>9, <2>1, <2>3, <2>5, <3>1, <4>1 DEF OnlyOf
    <3>2. Facts!Sound(p)'
      BY <2>5 DEF OnlyOf
    <3>3. active' = active /\ ups' = ups
      OBVIOUS
    <3> QED
      BY <1>1, <1>3, <2>6, <2>7, <3>1, <3>2, <3>3 DEF Registered
  <2>9. OneThing'
    <3>1. at' = Idle /\ k > 0 /\ k \notin ups /\ ups' = ups /\ downs' = downs /\ state_' = state_
      BY <2>1
    <3>2. Dialing' => /\ attempts' > 0 /\ attempts' \notin ups' /\ at' = Idle
                      /\ Attempting(attempts)'
      <4>1. Attempting(attempts)'
        BY <2>6, <2>7
      <4> QED
        BY <2>6, <3>1, <4>1
    <3> QED
      BY <1>1, <1>3, <1>9, <3>1, <3>2 DEF OneThing
  <2> QED
    BY <1>5, <1>6, <1>7, <1>8, <2>8, <2>9 DEF Invariant
<1> QED
  BY <1>10, <1>11 DEF startInLoop, connect

\* The client connects again when a connection has gone down,
LEMMA RestartKeeps ==
  ASSUME Types, Invariant, restart
  PROVE  Invariant'
<1> DEFINE conr == [connector EXCEPT !.state_ = "kDisconnected", !.connect_ = TRUE]
<1>1. /\ conr \in ConnectorType /\ conr.state_ = "kDisconnected" /\ startInLoop(conr)
      /\ UNCHANGED <<client, connection_, state_, ups, downs, call, dispatching, active>>
      /\ connects' = connects /\ tasks' = tasks /\ batch' = batch
      /\ at.place = "restarting" /\ at # Idle /\ at' = Idle
  BY DEF restart, Types, ClientTypes, ConnectorType, connVars, userVars, loopVars, At, Idle
<1> HIDE DEF conr
<1>2. TaskSet' = TaskSet /\ \A x : Keeps(x)
  BY <1>1, SameKeeps
<1>3. /\ connector.state_ = "kConnected" /\ ~Dialing /\ R \notin TaskSet /\ client = "alive"
      /\ attempts > 0
  BY <1>1 DEF Invariant, OneThing, Owned, Dialing, Types, LoopTypes, ClientTypes
<1>4. \A k \in Attempt : ~Live(k)
  BY <1>1, NothingUp
<1>5. dispatching => batch' = 0
  BY <1>1 DEF Invariant, EventsFirst
<1>6. AskedOnce'
  <2>1. connects # 0 /\ St \notin TaskSet' /\ \A u \in User : ~Starting(u)
    BY <1>2, <1>3 DEF Invariant, AskedOnce
  <2> QED
    BY <1>1, <2>1 DEF AskedOnce, Starting
<1> QED
  BY <1>1, <1>2, <1>3, <1>4, <1>5, <1>6, StartKeeps

\* and the first time when it is told to.
LEMMA RunStartKeeps ==
  ASSUME Types, Invariant, runStartInLoop
  PROVE  Invariant'
<1>1. /\ Starts("startInLoop", NoAttempt) /\ tasks' = Tail(tasks) /\ startInLoop(connector)
      /\ UNCHANGED <<client, connection_, state_, ups, downs, call, dispatching, active>>
      /\ connects' = connects /\ at' = at /\ at = Idle /\ at.place = "idle" /\ batch > 0
      /\ connector \in ConnectorType
  BY DEF runStartInLoop, Starts, connVars, userVars, Idle, At, Types, ClientTypes
<1>2. /\ \A x : Keeps(x) /\ St \in TaskSet
      /\ Once(tasks, St) => St \notin TaskSet'
  BY <1>1, RunKeeps DEF St
<1>3. attempts = 0 /\ St \notin TaskSet' /\ connects # 0 /\ \A u \in User : ~Starting(u)
  BY <1>2 DEF Invariant, AskedOnce
<1>4. /\ ~Dialing /\ R \notin TaskSet /\ \A k \in Attempt : ~Live(k)
      /\ connector.state_ # "kConnecting"
  BY <1>1, <1>3, NothingUp DEF Invariant, OneThing, ResetFirst, Dialing, IsUp, Types, ConnTypes
<1>5. client = "alive"
  BY <1>2 DEF Invariant, Owned, Types, ClientTypes, ConnectorTasks, St
<1>6. ~dispatching
  BY <1>1 DEF Invariant, EventsFirst
<1>7. AskedOnce'
  BY <1>1, <1>3 DEF AskedOnce, Starting
<1> QED
  BY <1>1, <1>2, <1>4, <1>5, <1>6, <1>7, StartKeeps

\* A stop ends the attempt that goes on, or the one that has failed, whether channel_
\* is there or not.
LEMMA StopKeeps ==
  ASSUME Types, Invariant, stopInLoop
  PROVE  Invariant'
<1>1. /\ Starts("stopInLoop", NoAttempt)
      /\ client' = client /\ connection_' = connection_ /\ attempts' = attempts
      /\ state_' = state_ /\ ups' = ups /\ downs' = downs /\ connects' = connects /\ call' = call
      /\ dispatching' = dispatching /\ active' = active /\ at' = at /\ at = Idle /\ net' = net
      /\ at.place = "idle" /\ batch > 0 /\ ~dispatching /\ active = {}
      /\ \A j : at \notin {At("down", j), At("up", j), At("establishing", j)}
      /\ \A j : ~Ends(j)
  BY DEF stopInLoop, Starts, connVars, userVars, Idle, At, Ends, Invariant, EventsFirst
<1> DEFINE x0 == Task("stopInLoop", NoAttempt)
           q == Tail(tasks)
<1>2. x0 \in TaskSet /\ client = "alive"
  <2>1. x0 \in TaskSet /\ x0 \in ConnectorTasks
    BY <1>1, TaskRuns DEF Types, ConnectorTasks
  <2> QED
    BY <2>1 DEF Invariant, Owned, Types, ClientTypes
<1>3. CASE ~Dialing
  <2>1. tasks' = Tail(tasks) /\ UNCHANGED <<connector, p>>
    BY <1>3 DEF stopInLoop, Dialing
  <2>2. \A x : Keeps(x)
    BY <1>1, <2>1, RunKeeps
  <2>3. AskedOnce'
    BY <1>1, <2>2, AskedKeptByLoop DEF Invariant
  <2>4. \A u \in User : Shutting(u)' => Live(call'[u].k) \/ Ends(call'[u].k)
    BY <1>1 DEF Invariant, ShutFirst, Shutting
  <2> QED
    BY <1>1, <1>2, <1>3, <2>1, <2>2, <2>3, <2>4, Undisturbed
<1>4. CASE Dialing
  <2> DEFINE r == removeAndResetChannel
  <2>1. /\ attempts > 0 /\ connection_ = NoAttempt
        /\ \A j \in Attempt : ~Live(j) /\ F(j) \notin TaskSet
    BY <1>2, <1>4, NothingUp DEF Invariant, OneThing
  <2>2. /\ tasks' = Append(q, R) /\ p' = r
        /\ connector'.state_ = "kDisconnected"
    BY <1>4 DEF stopInLoop, Dialing, resetLater, R, Types, ClientTypes, ConnectorType
  <2>3. /\ ~Dialing' /\ Begun = ups /\ Begun' = ups
        /\ \A j \in Attempt : ~Live(j)'
        /\ \A j : ~Ends(j)'
    BY <1>1, <2>1, <2>2, BegunIdle DEF Dialing, Live, IsUp, Begun, Ends
  <2>4. /\ \A j \in Attempt : /\ F(j) \notin TaskSet'
                              /\ D(j) \in TaskSet' => D(j) \in TaskSet
                              /\ Follows(tasks, S(j), D(j)) => Follows(tasks', S(j), D(j))
        /\ St \in TaskSet' => St \in TaskSet
    <3>1. /\ tasks \in Seq(TaskType) /\ tasks # <<>> /\ q = Tail(tasks) /\ R \in TaskType
          /\ TaskSet = SetOf(tasks) /\ TaskSet' = SetOf(tasks')
      BY <1>1, TaskRuns, TaskTypes DEF Types, LoopTypes, TaskSet, SetOf
    <3> HIDE DEF q
    <3>2. /\ q \in Seq(TaskType) /\ SetOf(q) \subseteq SetOf(tasks)
          /\ \A x, y : Follows(tasks, x, y) => Follows(q, x, y)
      <4>1. tasks \in Seq(TaskType) /\ tasks # <<>> /\ q = Tail(tasks)
        BY <3>1
      <4>2. /\ q \in Seq(TaskType) /\ SetOf(tasks) = SetOf(q) \cup {Head(tasks)}
            /\ \A x, y : Follows(tasks, x, y) => Follows(q, x, y)
        BY <4>1, TailTask
      <4> QED
        BY <4>2
    <3>3. /\ SetOf(tasks') = SetOf(q) \cup {R}
          /\ \A x : x # R => \A y : Follows(q, x, y) => Follows(tasks', x, y)
      BY <2>2, <3>1, <3>2, AppendTask
    <3> QED
      BY <2>1, <3>1, <3>2, <3>3, TaskTypes
  <2>5. AskedOnce'
    <3>1. connects # 0 /\ St \notin TaskSet' /\ \A u \in User : ~Starting(u)
      BY <2>1, <2>4 DEF Invariant, AskedOnce
    <3> QED
      BY <1>1, <3>1 DEF AskedOnce, Starting
  <2>6. /\ Facts!Sound(r) /\ r.open = p.open
        /\ \A j \in Attempt : r.index[Dial(j)] = kNew /\ r.index[Conn(j)] = p.index[Conn(j)]
    BY <1>4, ChannelRemoved
  <2> HIDE DEF r
  <2>7. Registered'
    BY <1>1, <2>1, <2>2, <2>3, <2>6 DEF Invariant, Registered
  <2>8. OneThing'
    BY <1>1, <2>1, <2>2, <2>3 DEF Invariant, OneThing
  <2>9. Owned'
    BY <1>1, <1>2, <2>1, <2>3 DEF Owned
  <2>10. ResetFirst' /\ Forced'
    BY <1>1, <2>1, <2>2, <2>4 DEF ResetFirst, Forced
  <2>11. ShutFirst'
    <3>1. ASSUME NEW j \in Attempt
          PROVE  /\ Follows(tasks', S(j), D(j))
                 /\ D(j) \in TaskSet' => downs[j] > 0
      BY <1>1, <2>1, <2>4 DEF Invariant, ShutFirst
    <3>2. ASSUME NEW u \in User
          PROVE  ~Shutting(u)
      BY <1>1, <2>1, ShuttingAttempt DEF Invariant, ShutFirst
    <3> QED
      BY <1>1, <3>1, <3>2 DEF ShutFirst, Shutting
  <2>12. EventsFirst'
    BY <1>1 DEF EventsFirst
  <2> QED
    BY <2>5, <2>7, <2>8, <2>9, <2>10, <2>11, <2>12 DEF Invariant
<1> QED
  BY <1>3, <1>4

\* The other tasks, the network and the end of the process disturb nothing.
LEMMA QuietKeeps ==
  ASSUME Types, Invariant, [Next]_vars,
         resetChannel \/ (\E k \in Attempt : shutdownInLoop(k) \/ handleError(k) \/ network(k))
  PROVE  Invariant'
<1>1. /\ client' = client /\ connection_' = connection_ /\ attempts' = attempts
      /\ state_' = state_ /\ ups' = ups /\ downs' = downs /\ connects' = connects /\ call' = call
      /\ dispatching' = dispatching /\ active' \subseteq active /\ at' = at /\ p' = p
      /\ connector'.state_ = connector.state_
  BY DEF resetChannel, shutdownInLoop, handleError, network, Starts, Handles, clientVars, connVars,
    userVars, loopVars, Types, ClientTypes, ConnectorType
<1>2. /\ \A x : Keeps(x)
      /\ dispatching => batch' = 0
      /\ client = "gone" => ConnectorTasks \cap TaskSet' = {}
  <2>1. CASE tasks' = tasks /\ batch' = batch
    <3>1. TaskSet' = TaskSet /\ \A x : Keeps(x)
      BY <2>1, SameKeeps
    <3> QED
      BY <2>1, <3>1 DEF Invariant, EventsFirst, Owned
  <2>2. CASE tasks' = Tail(tasks) /\ \E op, k : Starts(op, k)
    <3>1. PICK op, k : Starts(op, k)
      BY <2>2
    <3>2. \A x : Keeps(x)
      BY <2>2, <3>1, RunKeeps
    <3>3. ~dispatching
      BY <3>1 DEF Starts, Invariant, EventsFirst
    <3>4. TaskSet' \subseteq TaskSet
      BY <3>2 DEF Keeps
    <3> QED
      BY <3>2, <3>3, <3>4 DEF Invariant, Owned
  <2> QED
    BY <2>1, <2>2 DEF resetChannel, shutdownInLoop, handleError, network, Handles, loopVars
<1>3. \/ connector'.channel_ = connector.channel_
      \/ connector'.channel_ = NoAttempt /\ R \in TaskSet
  <2>1. CASE resetChannel
    <3>1. R \in TaskSet
      BY <2>1, TaskRuns DEF resetChannel, R, Types
    <3> QED
      BY <2>1, <3>1 DEF resetChannel, Types, ClientTypes, ConnectorType
  <2>2. CASE \E k \in Attempt : shutdownInLoop(k) \/ handleError(k) \/ network(k)
    BY <2>2 DEF shutdownInLoop, handleError, network, clientVars
  <2> QED
    BY <2>1, <2>2
<1>4. \A k \in Attempt : Live(k) /\ client = "gone" /\ F(k) \in TaskSet => F(k) \in TaskSet'
  <2>1. CASE tasks' = tasks
    BY <2>1 DEF TaskSet
  <2>2. CASE Starts("resetChannel", NoAttempt) /\ tasks' = Tail(tasks)
    BY <2>2, RunKeeps, TaskTypes DEF R
  <2>3. ASSUME NEW j \in Attempt, Starts("shutdownInLoop", j), tasks' = Tail(tasks)
        PROVE  \A k \in Attempt : F(k) \in TaskSet => F(k) \in TaskSet'
    BY <2>3, RunKeeps, TaskTypes DEF S
  <2> QED
    BY <2>1, <2>2, <2>3 DEF resetChannel, shutdownInLoop, handleError, network
<1>5. AskedOnce'
  BY <1>1, <1>2, AskedKeptByLoop DEF Invariant
<1>6. /\ client = "gone" => \A u \in User : call'[u] = Idle
      /\ \A u \in User : Shutting(u)' => Live(call'[u].k) \/ Ends(call'[u].k)
  BY <1>1 DEF Invariant, Owned, ShutFirst, Shutting
<1>7. Dialing /\ Broken(attempts) => Broken(attempts)'
  <2>1. Dialing => attempts \in Attempt /\ attempts <= attempts
    BY ClientAssumption DEF Invariant, OneThing, Types, ClientTypes, Attempt
  <2>2. Broken(attempts) /\ Dialing => net'[attempts] \in {"refused", "reset"}
    BY <1>1, <2>1, BrokenStays DEF Broken
  <2> QED
    BY <1>1, <2>2 DEF Broken
<1> QED
  BY <1>1, <1>2, <1>3, <1>4, <1>5, <1>6, <1>7, Undisturbed

\* What a user is in the middle of, when only the call of another changes.
LEMMA CallChanges ==
  ASSUME Types, NEW u \in User, NEW places, NEW next, Continues(u, places, next)
  PROVE  /\ call[u].place \in places /\ call'[u] = next
         /\ \A v \in User : v # u => call'[v] = call[v]
BY DEF Continues, Types, UserTypes

\* The steps of users' calls that queue nothing.
LEMMA CallKeeps ==
  ASSUME Types, Invariant, AskedOnce', NEW u \in User, NEW next, NEW places,
         Continues(u, places, next),
         client = "alive",
         next.place \in {"checked", "shutdownInLoop"} => Live(next.k) \/ Ends(next.k),
         UNCHANGED <<client, connection_, attempts, ups, downs, at, p, dispatching, active, batch, tasks,
                     net>>,
         connector'.state_ = connector.state_, connector'.channel_ = connector.channel_,
         \A k \in Attempt :
           \/ state_'[k] = state_[k]
           \/ state_'[k] = "kDisconnecting" /\ (Live(k) \/ Ends(k))
  PROVE  Invariant'
<1>1. TaskSet' = TaskSet /\ \A x : Keeps(x)
  BY SameKeeps
<1>2. \A v \in User : Shutting(v)' => Live(call'[v].k) \/ Ends(call'[v].k)
  <2>1. call'[u] = next /\ \A v \in User : v # u => call'[v] = call[v]
    BY CallChanges
  <2> QED
    BY <2>1 DEF Invariant, ShutFirst, Shutting
<1>3. dispatching => batch' = 0
  BY DEF Invariant, EventsFirst
<1>4. Broken(attempts)' <=> Broken(attempts)
  BY DEF Broken
<1> QED
  BY <1>1, <1>2, <1>3, <1>4, Undisturbed

\* A user who is in the middle of a call has a client.
LEMMA CallersHaveClient ==
  ASSUME Types, Invariant, NEW u \in User, call[u].place # "idle"
  PROVE  client = "alive"
BY DEF Invariant, Owned, Types, ClientTypes, Idle, At

\* One call of connect at most: no other is under way when it is made.
LEMMA SetsConnectKeeps ==
  ASSUME MaxConnects <= 1, Types, Invariant, NEW u \in User, NEW op \in usage.remote,
         setsConnect(u, op)
  PROVE  Invariant'
<1> DEFINE next == At(op, NoAttempt)
<1>1. /\ Continues(u, {"idle"}, next) /\ client = "alive"
      /\ UNCHANGED <<client, connection_, connector, attempts, state_, ups, downs, tasks, at, p,
                     dispatching, active, batch, net>>
      /\ connects' = connects + (IF op = "connect" THEN 1 ELSE 0) /\ connects' <= MaxConnects
      /\ connects \in Nat
  BY DEF setsConnect, connVars, loopVars, Types, UserTypes
<1>2. next.place = op /\ op \in {"connect", "disconnect", "stop"}
  BY ClientAssumption DEF At, Types, ClientTypes
<1> HIDE DEF next
<1>3. /\ call[u].place = "idle" /\ call'[u] = next
      /\ \A v \in User : v # u => call'[v] = call[v]
  BY <1>1, CallChanges
<1>4. AskedOnce'
  <2>1. CASE op = "connect"
    <3>1. connects = 0 /\ connects' = 1
      BY <1>1, <2>1, ClientAssumption
    <3>2. attempts = 0 /\ St \notin TaskSet /\ \A v \in User : ~Starting(v)
      BY <3>1 DEF Invariant, AskedOnce
    <3>3. TaskSet' = TaskSet /\ \A v \in User : Starting(v)' => v = u
      BY <1>1, <1>3, <3>2 DEF Starting, TaskSet
    <3> QED
      BY <1>1, <3>1, <3>2, <3>3 DEF AskedOnce
  <2>2. CASE op # "connect"
    <3>1. \A v \in User : Starting(v)' => Starting(v)
      BY <1>2, <1>3, <2>2 DEF Starting
    <3>2. connects' = connects
      BY <1>1, <2>2
    <3> QED
      BY <1>1, <3>1, <3>2, SameKeeps, AskedKept DEF Invariant
  <2> QED
    BY <2>1, <2>2
<1> QED
  BY <1>1, <1>2, <1>4, CallKeeps

\* start and stop of the Connector set its connect_ only.
LEMMA SetsConnectorKeeps ==
  ASSUME Types, Invariant, NEW u \in User, setsConnectorConnect(u)
  PROVE  Invariant'
<1>1. PICK next : /\ Continues(u, {"connect", "stop"}, next)
                  /\ next = At(IF call[u].place = "connect" THEN "startInLoop" ELSE "stopInLoop", NoAttempt)
  BY DEF setsConnectorConnect
<1>2. /\ UNCHANGED <<client, connection_, attempts, state_, ups, downs, connects, tasks, at, p,
                     dispatching, active, batch, net>>
      /\ connector'.state_ = connector.state_ /\ connector'.channel_ = connector.channel_
  BY DEF setsConnectorConnect, connVars, loopVars, Types, ClientTypes, ConnectorType
<1>3. /\ call[u].place \in {"connect", "stop"} /\ call'[u] = next
      /\ \A v \in User : v # u => call'[v] = call[v]
  BY <1>1, CallChanges
<1>4. next.place \in {"startInLoop", "stopInLoop"} /\ (next.place = "startInLoop" => call[u].place = "connect")
  BY <1>1, <1>3 DEF At
<1>5. AskedOnce'
  <2>1. \A v \in User : Starting(v)' => Starting(v)
    BY <1>3, <1>4 DEF Starting
  <2> QED
    BY <1>2, <2>1, SameKeeps, AskedKept DEF Invariant
<1>6. client = "alive"
  BY <1>3, CallersHaveClient
<1> QED
  BY <1>1, <1>2, <1>4, <1>5, <1>6, CallKeeps

\* disconnect finds the connection up, and it stays up until the mutex is free or
\* waits for it in the close callback.
LEMMA DisconnectKeeps ==
  ASSUME Types, Invariant, NEW u \in User, disconnectLocks(u) \/ shutdownSets(u)
  PROVE  Invariant'
<1>1. /\ UNCHANGED <<client, connection_, connector, attempts, ups, downs, connects, tasks, at, p,
                     dispatching, active, batch, net>>
  BY DEF disconnectLocks, shutdownSets, clientVars, connVars, loopVars
<1>2. PICK next, places :
        /\ Continues(u, places, next) /\ next.place \in {"checked", "shutdownInLoop", "idle"}
        /\ "idle" \notin places
  BY DEF disconnectLocks, shutdownSets, At, Idle
<1>3. call[u].place # "idle" /\ call'[u] = next /\ \A v \in User : v # u => call'[v] = call[v]
  BY <1>2, CallChanges
<1>4. client = "alive"
  BY <1>3, CallersHaveClient
<1>5. AskedOnce'
  <2>1. \A v \in User : Starting(v)' => Starting(v)
    BY <1>2, <1>3 DEF Starting
  <2> QED
    BY <1>1, <2>1, SameKeeps, AskedKept DEF Invariant
<1>6. CASE disconnectLocks(u)
  <2>1. state_' = state_
    BY <1>6 DEF disconnectLocks, connVars
  <2>2. next.place # "idle" => next.k = connection_ /\ connection_ # NoAttempt /\ state_[connection_] = "kConnected"
    <3>1. call'[u] = IF connection_ # NoAttempt /\ Runnable("shutdown", state_[connection_])
                       THEN At("checked", connection_) ELSE Idle
      BY <1>6, CallChanges DEF disconnectLocks
    <3> QED
      BY <1>3, <3>1 DEF At, Idle, Runnable
  <2>3. next.place # "idle" => Live(next.k)
    BY <2>2, NothingUp DEF Invariant, OneThing
  <2> QED
    BY <1>1, <1>2, <1>4, <1>5, <2>1, <2>3, CallKeeps
<1>7. CASE shutdownSets(u)
  <2>1. /\ call[u].place = "checked" /\ call'[u] = At("shutdownInLoop", call[u].k)
        /\ state_' = [state_ EXCEPT ![call[u].k] = "kDisconnecting"]
    BY <1>7, CallChanges DEF shutdownSets
  <2>2. /\ next.k = call[u].k /\ (Live(next.k) \/ Ends(next.k))
    BY <1>3, <2>1 DEF At, Invariant, ShutFirst, Shutting
  <2>3. \A k \in Attempt : state_'[k] = state_[k] \/ (state_'[k] = "kDisconnecting" /\ k = next.k)
    BY <2>1, <2>2 DEF Types, ConnTypes
  <2> QED
    BY <1>1, <1>2, <1>4, <1>5, <2>2, <2>3, CallKeeps
<1> QED
  BY <1>6, <1>7

\* A start is queued once, and the task of a disconnect before the connection's last.
LEMMA QueuesKeeps ==
  ASSUME Types, Invariant, NEW u \in User, queues(u)
  PROVE  Invariant'
<1> DEFINE t == Task(call[u].place, call[u].k)
<1>1. /\ UNCHANGED <<client, connection_, connector, attempts, state_, ups, downs, connects, at, p,
                     dispatching, active, batch, net>>
      /\ Continues(u, {"startInLoop", "stopInLoop", "shutdownInLoop"}, Idle)
      /\ tasks' = Append(tasks, t)
  BY DEF queues, clientVars, connVars, loopVars
<1>2. /\ call[u].place \in {"startInLoop", "stopInLoop", "shutdownInLoop"} /\ call'[u] = Idle
      /\ \A v \in User : v # u => call'[v] = call[v]
  BY <1>1, CallChanges
<1>3. /\ call[u].k \in 0..MaxAttempts
      /\ call[u].place \in {"startInLoop", "stopInLoop"} => call[u].k = NoAttempt
  BY <1>2 DEF Types, UserTypes
<1>4. /\ t \in TaskType
      /\ t # R /\ \A k : t # F(k) /\ t # D(k) /\ (t = S(k) => k = call[u].k /\ Shutting(u))
      /\ t = St => Starting(u)
  BY <1>2, <1>3 DEF Task, TaskType, R, F, D, S, St, Shutting, Starting
<1> HIDE DEF t
<1>5. client = "alive"
  BY <1>2, CallersHaveClient
<1>6. /\ \A x : x # t => Keeps(x)
      /\ TaskSet' = TaskSet \cup {t}
      /\ t \notin TaskSet => Once(tasks', t)
  BY <1>1, <1>4, QueueKeeps
<1>7. AskedOnce'
  <2>0. \A v \in User : Starting(v)' => Starting(v) /\ v # u
    BY <1>2 DEF Starting, Idle, At
  <2>1. CASE t = St
    <3>1. Starting(u) /\ attempts = 0 /\ St \notin TaskSet /\ \A v \in User : Starting(v) => u = v
      BY <1>4, <2>1 DEF Invariant, AskedOnce
    <3>2. connects # 0
      BY <3>1 DEF Invariant, AskedOnce
    <3>3. Once(tasks', St) /\ \A v \in User : ~Starting(v)'
      BY <1>6, <2>0, <2>1, <3>1
    <3> QED
      BY <1>1, <3>1, <3>2, <3>3 DEF AskedOnce
  <2>2. CASE t # St
    BY <1>1, <1>6, <2>0, <2>2, AskedKept DEF Invariant
  <2> QED
    BY <2>1, <2>2
<1>8. \A k \in Attempt : Keeps(S(k)) \/ Live(k) \/ Ends(k)
  <2>1. Shutting(u) => Live(call[u].k) \/ Ends(call[u].k)
    BY DEF Invariant, ShutFirst
  <2> QED
    BY <1>4, <1>6, <2>1
<1>9. \A v \in User : Shutting(v)' => Live(call'[v].k) \/ Ends(call'[v].k)
  BY <1>2 DEF Invariant, ShutFirst, Shutting, Idle, At
<1>10. dispatching => batch' = 0
  BY <1>1 DEF Invariant, EventsFirst
<1>11. Broken(attempts)' <=> Broken(attempts)
  BY <1>1 DEF Broken
<1> QED
  BY <1>11, <1>1, <1>4, <1>5, <1>6, <1>7, <1>8, <1>9, <1>10, Undisturbed

\* The client that is destroyed leaves its connection to a forceCloseInLoop.
LEMMA DestroyClientKeeps ==
  ASSUME Types, Invariant, destroyClient
  PROVE  Invariant'
<1> DEFINE k == connection_
<1>1. /\ client = "alive" /\ client' = "gone" /\ at = Idle /\ ~dispatching
      /\ \A u \in User : call[u] = Idle
      /\ ConnectorTasks \cap TaskSet = {} /\ k # NoAttempt /\ connection_' = NoAttempt
      /\ IF {F(k), D(k)} \cap TaskSet = {} /\ Runnable("forceClose", state_[k])
           THEN /\ state_' = [state_ EXCEPT ![k] = "kDisconnecting"]
                /\ tasks' = Append(tasks, F(k))
           ELSE UNCHANGED <<state_, tasks>>
      /\ connector' = connector /\ attempts' = attempts /\ ups' = ups /\ downs' = downs
      /\ connects' = connects /\ call' = call /\ at' = at /\ p' = p
      /\ dispatching' = dispatching /\ active' = active /\ batch' = batch
  BY DEF destroyClient, F, D, userVars, loopVars
<1>2. k \in Attempt /\ Live(k) /\ at.place = "idle"
  BY <1>1, NothingUp DEF Invariant, Owned, Idle, At
<1>3. /\ connector.state_ = "kConnected" /\ ~Dialing
      /\ \A j \in Attempt : /\ Live(j) => j = k
                            /\ F(j) \in TaskSet => j = k
      /\ state_[k] \in {"kConnected", "kDisconnecting"} /\ downs[k] = 0 /\ k \in ups
  BY <1>1, <1>2, TheOneUp DEF Invariant, OneThing
<1>4. D(k) \notin TaskSet
  BY <1>2, <1>3 DEF Invariant, ShutFirst
<1> HIDE DEF k
<1>5. /\ Keeps(R) /\ Keeps(St) /\ \A j \in Attempt : Keeps(D(j)) /\ Keeps(S(j))
      /\ \A j \in Attempt : F(j) \in TaskSet' => j = k
      /\ F(k) \in TaskSet'
      /\ ConnectorTasks \cap TaskSet' = {}
  <2>1. CASE tasks' = tasks /\ F(k) \in TaskSet
    BY <1>1, <1>3, <2>1, SameKeeps
  <2>2. CASE tasks' = Append(tasks, F(k))
    <3>1. F(k) \notin ConnectorTasks
      BY DEF F, Task, ConnectorTasks
    <3>2. \A x : x # F(k) => Keeps(x)
      BY <1>1, <1>2, <2>2, TaskTypes, QueueKeeps
    <3>3. TaskSet' = TaskSet \cup {F(k)}
      BY <1>1, <1>2, <2>2, TaskTypes, QueueKeeps
    <3>4. \A j \in Attempt : F(j) = F(k) => j = k
      BY TaskTypes
    <3>5. Keeps(R) /\ Keeps(St) /\ \A j \in Attempt : Keeps(D(j)) /\ Keeps(S(j))
      <4>1. k \in Attempt
        BY <1>2
      <4>2. R # F(k) /\ St # F(k) /\ \A j \in Attempt : D(j) # F(k) /\ S(j) # F(k)
        BY <4>1, TaskTypes
      <4> QED
        BY <3>2, <4>2
    <3>6. \A j \in Attempt : F(j) \in TaskSet' => j = k
      BY <1>3, <3>3, <3>4
    <3>7. ConnectorTasks \cap TaskSet' = {}
      BY <1>1, <3>1, <3>3
    <3> QED
      BY <3>3, <3>5, <3>6, <3>7
  <2> QED
    BY <1>1, <1>3, <1>4, <2>1, <2>2 DEF Runnable
<1>6. \A j \in Attempt : /\ j # k => state_'[j] = state_[j]
                         /\ state_'[k] \in {"kConnected", "kDisconnecting"}
  BY <1>1, <1>3 DEF Types, ConnTypes
<1>7. /\ Dialing' <=> Dialing
      /\ Begun' = Begun
      /\ \A j : (Live(j)' <=> Live(j)) /\ (Ends(j)' <=> Ends(j))
  BY <1>1 DEF Dialing, Live, IsUp, Ends, Begun
<1>8. AskedOnce'
  BY <1>1, <1>5, AskedKeptByLoop DEF Invariant
<1>9. Registered'
  BY <1>1, <1>3, <1>7 DEF Invariant, Registered, Attempting
<1>10. OneThing'
  BY <1>1, <1>2, <1>3, <1>6, <1>7 DEF Invariant, OneThing
<1>11. Owned'
  BY <1>1, <1>2, <1>3, <1>5, <1>7 DEF Owned
<1>12. ResetFirst'
  <2>1. R \notin TaskSet'
    BY <1>5 DEF ConnectorTasks, R
  <2> QED
    BY <2>1 DEF ResetFirst
<1>13. Forced'
  BY <1>1, <1>2, <1>3, <1>5, <1>7 DEF Forced
<1>14. ShutFirst'
  BY <1>1, <1>5, <1>7 DEF Invariant, ShutFirst, Shutting, Keeps
<1>15. EventsFirst'
  BY <1>1 DEF Invariant, EventsFirst
<1> QED
  BY <1>8, <1>9, <1>10, <1>11, <1>12, <1>13, <1>14, <1>15 DEF Invariant

\* Every step keeps the invariant, when connect is called once and no thread disconnects
\* where a callback may call forceClose.
LEMMA InvariantStep ==
  ASSUME MaxConnects <= 1, Types, Apart, Invariant, [Next]_vars
  PROVE  Invariant'
<1>1. CASE UNCHANGED vars
  <2>1. /\ UNCHANGED <<client, connect_, connection_, connector, attempts, state_, ups, downs, tasks, at,
                       p, dispatching, active, batch, call, connects, net>>
    BY <1>1 DEF vars, clientVars, connVars, userVars, loopVars
  <2>2. TaskSet' = TaskSet /\ \A x : Keeps(x)
    BY <2>1, SameKeeps
  <2>3. AskedOnce'
    BY <2>1, <2>2, AskedKeptByLoop DEF Invariant
  <2>4. /\ dispatching => batch' = 0
        /\ client = "gone" => ConnectorTasks \cap TaskSet' = {} /\ \A u \in User : call'[u] = Idle
        /\ \A u \in User : Shutting(u)' => Live(call'[u].k) \/ Ends(call'[u].k)
        /\ Broken(attempts)' <=> Broken(attempts)
    BY <2>1, <2>2 DEF Invariant, EventsFirst, Owned, ShutFirst, Shutting, Broken
  <2> QED
    BY <2>1, <2>2, <2>3, <2>4, Undisturbed
<1>2. CASE poll \/ swapFunctors \/ restart \/ runStartInLoop \/ stopInLoop \/ destroyClient
  BY <1>2, PollKeeps, SwapKeeps, RestartKeeps, RunStartKeeps, StopKeeps, DestroyClientKeeps
<1>3. ASSUME NEW k \in Attempt,
             \/ handleWriteFails(k) \/ handleWrite(k) \/ handleEventStays(k) \/ handleEventCloses(k)
             \/ connectEstablished(k) \/ saysUp(k) \/ saysDown(k) \/ removeConnection(k)
             \/ forceCloseInLoop(k) \/ connectDestroyed(k)
      PROVE  Invariant'
  BY <1>3, HandleWriteFailsKeeps, HandleWriteKeeps, StaysKeeps, EventClosesKeeps, EstablishedKeeps,
    SaysUpKeeps, SaysDownKeeps, RemoveConnectionKeeps, ForceCloseKeeps, DestroyedKeeps
<1>4. CASE resetChannel \/ (\E k \in Attempt : shutdownInLoop(k) \/ handleError(k) \/ network(k))
  BY <1>4, QuietKeeps
<1>5. ASSUME NEW u \in User, UserContinues(u) \/ \E op \in usage.remote : setsConnect(u, op)
      PROVE  Invariant'
  BY <1>5, SetsConnectorKeeps, DisconnectKeeps, QueuesKeeps, SetsConnectKeeps DEF UserContinues
<1> QED
  BY <1>1, <1>2, <1>3, <1>4, <1>5 DEF Next, Loop, Continue, Tasks

\* It holds initially.
LEMMA InvariantInit ==
  ASSUME Init
  PROVE  Invariant /\ Apart /\ Failed
<1>1. TaskSet = {} /\ SetOf(tasks) = {}
  BY EmptyQueue DEF Init, TaskSet, SetOf
<1>2. /\ ups = {} /\ ~Dialing /\ at.place = "idle" /\ Begun = {}
      /\ \A k : ~Live(k) /\ ~Ends(k) /\ at # At("establishing", k) /\ at # At("up", k)
  BY DEF Init, Dialing, Live, IsUp, Ends, Begun, Idle, At
<1>3. /\ AskedOnce /\ OneThing /\ Owned /\ ResetFirst /\ Forced /\ EventsFirst
  BY <1>1, <1>2 DEF Init, AskedOnce, OneThing, Owned, ResetFirst, Forced, EventsFirst, Starting,
    Idle, At, NoAttempt
<1>4. ShutFirst
  BY <1>1, <1>2, AbsentTask DEF Init, ShutFirst, Shutting, Idle, At
<1>5. Registered
  <2>1. p = Poller!NewPoller /\ active = {}
    BY DEF Init
  <2>2. Facts!Sound(p)
    <3>1. Facts!NewPoller = Poller!NewPoller
      BY DEF Facts!NewPoller, Poller!NewPoller, Facts!kNew, Poller!kNew, Channels
    <3>2. Facts!Sound(Facts!NewPoller)
      BY FactsApply, Facts!NewPollerSound
    <3> QED
      BY <2>1, <3>1, <3>2
  <2>3. \A c \in Channels : p.index[c] = kNew
    BY <2>1 DEF Poller!NewPoller, kNew, Channels
  <2> QED
    BY <1>2, <2>1, <2>2, <2>3, FactsApply, Indices DEF Registered
<1>6. Apart /\ Failed
  BY <1>2 DEF Init, Apart, Failed, Idle, At
<1> QED
  BY <1>3, <1>4, <1>5, <1>6 DEF Invariant

\* It holds in every state.
LEMMA InvariantHolds ==
  ASSUME MaxConnects <= 1, KeptApart
  PROVE  Spec => []Invariant
<1>1. Types /\ Apart /\ [Next]_vars => Apart'
  BY ApartStep
<1>2. Types /\ Apart /\ Invariant /\ [Next]_vars => Invariant'
  BY InvariantStep
<1>3. Init => Invariant /\ Apart
  BY InvariantInit
<1> QED
  BY <1>1, <1>2, <1>3, TypesHold, PTL DEF Spec

\* So does what epoll_wait has said.
LEMMA FailedHolds == Spec => []Failed
<1>1. Types /\ Failed /\ [Next]_vars => Failed'
  BY FailedStep
<1>2. Init => Failed
  BY InvariantInit
<1> QED
  BY <1>1, <1>2, TypesHold, PTL DEF Spec

-----------------------------------------------------------------------------
(* Theorems about a client whose connect is called once, and which no       *)
(* thread disconnects where a callback may call forceClose                  *)

\* The poller and the kernel agree and no epoll_ctl fails, although two channels
\* are registered in turn for every socket.
THEOREM PollerStaysConsistent ==
  ASSUME MaxConnects <= 1,
         \A x \in Usages : "disconnect" \in x.remote => x.local = {}
  PROVE  Spec => []PollerIsConsistent
<1>1. Spec => []Invariant
  BY InvariantHolds DEF KeptApart
<1>2. Invariant => PollerIsConsistent
  BY SoundPoller DEF Invariant, Registered, PollerIsConsistent
<1> QED
  BY <1>1, <1>2, PTL

\* Every connection is reported up once and down at most once.
THEOREM UpThenDown ==
  ASSUME MaxConnects <= 1,
         \A x \in Usages : "disconnect" \in x.remote => x.local = {}
  PROVE  Spec => []UpThenDownOnce
<1>1. Spec => []Invariant
  BY InvariantHolds DEF KeptApart
<1>2. Invariant => UpThenDownOnce
  BY DEF Invariant, OneThing, UpThenDownOnce
<1> QED
  BY <1>1, <1>2, PTL

\* A connection that is live has an owner.
LEMMA LiveIsHeld ==
  ASSUME Invariant, NEW k \in Attempt, Live(k)
  PROVE  ~Destroyed(k)
BY DEF Invariant, Owned, Destroyed, Held, F

\* Every channel that the kernel or the dispatch can still report exists: the
\* Connector's, which a queued task deletes, and that of a connection, which goes
\* with the last shared_ptr.
THEOREM NoChannelDangles ==
  ASSUME MaxConnects <= 1,
         \A x \in Usages : "disconnect" \in x.remote => x.local = {}
  PROVE  Spec => []NoDanglingChannel
<1>1. ASSUME Types, Invariant
      PROVE  NoDanglingChannel
  <2> SUFFICES ASSUME NEW k \in Attempt
               PROVE  /\ (p.ptr[k] = Dial(k) \/ Dial(k) \in active) =>
                           client = "alive" /\ connector.channel_ = k
                      /\ (p.ptr[k] = Conn(k) \/ Conn(k) \in active) => ~Destroyed(k)
    BY DEF NoDanglingChannel
  <2>1. /\ p.ptr[k] = Dial(k) => p.index[Dial(k)] = kAdded
        /\ p.ptr[k] = Conn(k) => p.index[Conn(k)] = kAdded
    <3>1. Facts!Sound(p) /\ Dial(k) \in Channels /\ Conn(k) \in Channels
      BY <1>1, FactsApply DEF Invariant, Registered
    <3> QED
      BY <3>1, SoundPoller, ChannelAttempts
  <2>2. p.ptr[k] = Dial(k) \/ Dial(k) \in active => Attempting(k)
    BY <1>1, <2>1, Indices DEF Invariant, Registered
  <2>3. p.ptr[k] = Conn(k) \/ Conn(k) \in active => Live(k)
    BY <1>1, <2>1 DEF Invariant, Registered
  <2> QED
    BY <1>1, <2>2, <2>3, TheAttempt, LiveIsHeld
<1>2. Spec => []Types /\ []Invariant
  BY InvariantHolds, TypesHold DEF KeptApart
<1> QED
  BY <1>1, <1>2, PTL

\* The task that disconnect queues holds a bare this, yet never outlives its
\* connection: the close callback needs the mutex that disconnect still holds, and
\* queues the last owner behind that task.
THEOREM NoTaskDangles ==
  ASSUME MaxConnects <= 1,
         \A x \in Usages : "disconnect" \in x.remote => x.local = {}
  PROVE  Spec => []NoTaskOfDestroyed
<1>1. ASSUME Invariant
      PROVE  NoTaskOfDestroyed
  <2> SUFFICES ASSUME NEW k \in Attempt, S(k) \in TaskSet
               PROVE  ~Destroyed(k)
    BY DEF NoTaskOfDestroyed, S
  <2>1. CASE Live(k)
    BY <1>1, <2>1, LiveIsHeld
  <2>2. CASE Ends(k)
    BY <2>2 DEF Ends, At, Destroyed, Held
  <2>3. CASE Follows(tasks, S(k), D(k))
    <3>1. D(k) \in TaskSet
      BY <2>3 DEF Follows, TaskSet
    <3> QED
      BY <3>1 DEF Destroyed, Held, D
  <2> QED
    BY <1>1, <2>1, <2>2, <2>3 DEF Invariant, ShutFirst
<1>2. Spec => []Invariant
  BY InvariantHolds DEF KeptApart
<1> QED
  BY <1>1, <1>2, PTL

\* The process survives every order of events, calls and tasks, unless the attempt
\* under way has failed: handleError ends it, or a stop that finds channel_ empty
\* because handleWrite found SO_ERROR set.
THEOREM OnlyFailedAttemptsKill ==
  ASSUME MaxConnects <= 1,
         \A x \in Usages : "disconnect" \in x.remote => x.local = {}
  PROVE  Spec => []OnlyFailedAttemptsCrash
<1>1. Init => OnlyFailedAttemptsCrash
  BY DEF Init, OnlyFailedAttemptsCrash
<1>2. ASSUME Types, Invariant, Failed, [Next]_vars, OnlyFailedAttemptsCrash
      PROVE  OnlyFailedAttemptsCrash'
  <2>1. CASE UNCHANGED vars
    BY <1>2, <2>1 DEF OnlyFailedAttemptsCrash, Broken, vars, clientVars, connVars
  <2>2. ASSUME crashed' = crashed, Next
        PROVE  OnlyFailedAttemptsCrash'
    BY <2>2 DEF Next, OnlyFailedAttemptsCrash
  <2>3. ASSUME NEW k \in Attempt, handleError(k)
        PROVE  OnlyFailedAttemptsCrash'
    <3>1. Dial(k) \in active /\ k \in erring /\ UNCHANGED <<attempts, net, ups>>
      BY <2>3 DEF handleError, Handles, clientVars, connVars
    <3>2. Attempting(k) /\ Broken(k)
      BY <1>2, <3>1 DEF Invariant, Registered, Failed
    <3>3. k = attempts /\ k \notin ups
      BY <1>2, <3>2, TheAttempt
    <3> QED
      BY <3>1, <3>2, <3>3 DEF OnlyFailedAttemptsCrash, Broken
  <2>4. CASE stopInLoop
    <3>1. UNCHANGED <<attempts, net, ups>>
      BY <2>4 DEF stopInLoop, connVars
    <3>2. crashed' => Dialing /\ connector.channel_ = NoAttempt
      BY <2>4 DEF stopInLoop, Dialing
    <3>3. ASSUME Dialing, connector.channel_ = NoAttempt
          PROVE  attempts \in Attempt /\ attempts \notin ups /\ Broken(attempts)
      <4>1. attempts > 0 /\ attempts \notin ups /\ (Attempting(attempts) \/ Broken(attempts))
        BY <1>2, <3>3 DEF Invariant, OneThing
      <4>2. attempts \in Attempt
        BY <1>2, <4>1, ClientAssumption DEF Types, ClientTypes, Attempt
      <4>3. ~Attempting(attempts)
        BY <3>3, <4>1 DEF Attempting, NoAttempt
      <4> QED
        BY <4>1, <4>2, <4>3
    <3> QED
      BY <3>1, <3>2, <3>3 DEF OnlyFailedAttemptsCrash, Broken
  <2>5. CASE poll \/ swapFunctors \/ restart \/ runStartInLoop \/ resetChannel \/ destroyClient
    BY <1>2, <2>1, <2>2, <2>5 DEF poll, swapFunctors, restart, runStartInLoop, resetChannel,
      destroyClient
  <2>6. ASSUME NEW k \in Attempt,
               \/ handleWriteFails(k) \/ handleWrite(k) \/ handleEventStays(k) \/ handleEventCloses(k)
               \/ connectEstablished(k) \/ saysUp(k) \/ saysDown(k) \/ removeConnection(k)
               \/ shutdownInLoop(k) \/ forceCloseInLoop(k) \/ connectDestroyed(k) \/ network(k)
        PROVE  OnlyFailedAttemptsCrash'
    BY <1>2, <2>1, <2>2, <2>6 DEF handleWriteFails, handleWrite, handleEventStays, handleEventCloses,
      connectEstablished, saysUp, saysDown, removeConnection, shutdownInLoop, forceCloseInLoop,
      connectDestroyed, network
  <2>7. ASSUME NEW u \in User, UserContinues(u) \/ \E op \in usage.remote : setsConnect(u, op)
        PROVE  OnlyFailedAttemptsCrash'
    BY <1>2, <2>1, <2>2, <2>7 DEF UserContinues, setsConnectorConnect, disconnectLocks,
      shutdownSets, queues, setsConnect
  <2> QED
    BY <1>2, <2>1, <2>3, <2>4, <2>5, <2>6, <2>7 DEF Next, Loop, Continue, Tasks
<1>3. Spec => []Types /\ []Invariant /\ []Failed
  BY InvariantHolds, TypesHold, FailedHolds DEF KeptApart
<1> QED
  BY <1>1, <1>2, <1>3, PTL DEF Spec

-----------------------------------------------------------------------------
(* Client implements ClientSession *)

Phase ==
  IF Up THEN "up"
  ELSE IF connector.state_ = "kConnecting" \/ at.place \in {"establishing", "up"} THEN "dialing"
  ELSE "idle"

Asked == at.place = "restarting" \/ St \in TaskSet

\* The actions of Session are these.
LEMMA SessionActions ==
  /\ Session!Init <=> Phase = "idle" /\ Asked = FALSE
  /\ Session!Ask <=> ~Asked /\ Asked' = TRUE /\ Phase' = Phase
  /\ Session!Answer <=> Asked /\ Asked' = FALSE /\ Phase = "idle" /\ Phase' \in {"idle", "dialing"}
  /\ Session!Connected <=> Phase = "dialing" /\ Phase' = "up" /\ Asked' = Asked
  /\ Session!Ended <=> Phase # "idle" /\ Phase' = "idle" /\ Asked' = Asked
  /\ UNCHANGED Session!vars <=> Phase' = Phase /\ Asked' = Asked
BY Zenon DEF Session!Init, Session!Ask, Session!Answer, Session!Connected, Session!Ended,
  Session!vars, Phase, Asked, St

\* Up says that a connection is up.
LEMMA UpMeans ==
  ASSUME Types
  PROVE  Up <=> \E k \in Attempt : IsUp(k)
BY ClientAssumption DEF Up, IsUp, Types, ConnTypes, ClientTypes, Attempt

\* Then the loop is in the middle of nothing but of its end.
LEMMA UpPlaces ==
  ASSUME Types, Invariant, NEW k \in Attempt, IsUp(k)
  PROVE  ~Dialing /\ at.place \in {"idle", "down"} /\ attempts > 0
<1>1. CASE at = At("down", k)
  <2>1. at.place = "down"
    BY <1>1 DEF At
  <2>2. connector.state_ = "kConnected" /\ attempts \in Nat /\ ups \subseteq 1..attempts /\ k \in ups
    BY <2>1 DEF Invariant, OneThing, Types, ClientTypes, ConnTypes, IsUp
  <2> QED
    BY <2>1, <2>2 DEF Dialing
<1>2. CASE at # At("down", k)
  <2>1. Live(k)
    BY <1>2 DEF Live
  <2>2. ~Dialing /\ k = attempts /\ attempts > 0 /\ at.place \in {"idle", "up"}
    BY <2>1, TheOneUp
  <2>3. at.place # "up"
    BY <2>2 DEF Invariant, OneThing, IsUp
  <2> QED
    BY <2>2, <2>3
<1> QED
  BY <1>1, <1>2

\* No start is queued once an attempt was made.
LEMMA NoStartAfterAttempt ==
  ASSUME Invariant, attempts # 0
  PROVE  St \notin TaskSet
BY DEF Invariant, AskedOnce

\* Every step is one of Session, or a stutter.
LEMMA SessionStep ==
  ASSUME Types, Types', Invariant, Invariant', [Next]_vars
  PROVE  [Session!Next]_(Session!vars)
<1> DEFINE Goal == [Session!Next]_(Session!vars)
<1>u. /\ Up <=> \E k \in Attempt : IsUp(k)
      /\ Up' <=> \E k \in Attempt : IsUp(k)'
  <2>1. Up <=> \E k \in Attempt : IsUp(k)
    BY UpMeans
  <2>2. (Up <=> \E k \in Attempt : IsUp(k))'
    BY ClientAssumption DEF Up, IsUp, Types, ConnTypes, ClientTypes, Attempt
  <2> QED
    BY <2>1, <2>2
<1>n. /\ Dialing \/ at.place \notin {"idle", "down"} => ~Up
      /\ \A k \in Attempt : IsUp(k) => Up /\ ~Dialing /\ at.place \in {"idle", "down"} /\ attempts > 0
  <2>1. \A k \in Attempt : IsUp(k) => ~Dialing /\ at.place \in {"idle", "down"} /\ attempts > 0
    BY UpPlaces
  <2> QED
    BY <1>u, <2>1
<1>d. /\ (Dialing <=> connector.state_ = "kConnecting")
      /\ (Dialing' <=> connector'.state_ = "kConnecting")
  BY DEF Dialing
<1>s. /\ attempts # 0 => St \notin TaskSet
      /\ attempts' # 0 => St \notin TaskSet'
      /\ attempts \in Nat /\ attempts' \in Nat
  BY DEF Invariant, AskedOnce, Types, ClientTypes
<1>1. ASSUME UNCHANGED <<ups, downs>>, at'.place = at.place, connector'.state_ = connector.state_,
             St \in TaskSet' <=> St \in TaskSet
      PROVE  Goal
  <2>1. Up' <=> Up
    BY <1>1, <1>u DEF IsUp
  <2>2. Phase' = Phase /\ Asked' = Asked
    BY <1>1, <2>1 DEF Phase, Asked
  <2> QED
    BY <2>2, SessionActions
<1>2. CASE UNCHANGED <<ups, downs, at, tasks>> /\ connector'.state_ = connector.state_
  BY <1>1, <1>2 DEF TaskSet
<1>3. ASSUME NEW op, NEW k, Starts(op, k), tasks' = Tail(tasks), Task(op, k) # St,
             UNCHANGED <<ups, downs, at>>, connector'.state_ = connector.state_
      PROVE  Goal
  <2>1. St \in TaskSet' <=> St \in TaskSet
    BY <1>3, RunKeeps DEF Keeps
  <2> QED
    BY <1>1, <1>3, <2>1
<1>4. CASE \/ UNCHANGED vars \/ poll \/ swapFunctors
           \/ \E k \in Attempt : handleError(k) \/ network(k)
           \/ \E u \in User : setsConnectorConnect(u) \/ disconnectLocks(u) \/ shutdownSets(u)
           \/ \E u \in User : \E op \in usage.remote : setsConnect(u, op)
  <2>1. UNCHANGED <<ups, downs, at, tasks>>
    BY <1>4 DEF vars, poll, swapFunctors, handleError, network, setsConnectorConnect,
      disconnectLocks, shutdownSets, setsConnect, connVars
  <2>2. connector'.state_ = connector.state_
    BY <1>4 DEF vars, poll, swapFunctors, handleError, network, setsConnectorConnect,
      disconnectLocks, shutdownSets, setsConnect, clientVars, Types, ClientTypes, ConnectorType
  <2> QED
    BY <1>2, <2>1, <2>2
<1>5. CASE resetChannel \/ \E k \in Attempt : shutdownInLoop(k) \/ connectDestroyed(k)
  <2>1. PICK op, k : Starts(op, k) /\ op # "startInLoop" /\ tasks' = Tail(tasks) /\ UNCHANGED at
    BY <1>5 DEF resetChannel, shutdownInLoop, connectDestroyed
  <2>2. connector'.state_ = connector.state_
    BY <1>5 DEF resetChannel, shutdownInLoop, connectDestroyed, clientVars, Types, ClientTypes,
      ConnectorType
  <2>3. UNCHANGED <<ups, downs>>
    <3>1. ASSUME NEW j \in Attempt, connectDestroyed(j)
          PROVE  UNCHANGED <<ups, downs>>
      <4>1. D(j) \in TaskSet
        BY <3>1, TaskRuns DEF connectDestroyed, Types, D
      <4>2. state_[j] # "kConnected"
        BY <3>1, <4>1, TheOneUp DEF Invariant, ShutFirst, OneThing
      <4> QED
        BY <3>1, <4>2 DEF connectDestroyed
    <3>2. CASE resetChannel \/ \E j \in Attempt : shutdownInLoop(j)
      BY <3>2 DEF resetChannel, shutdownInLoop, connVars
    <3> QED
      BY <1>5, <3>1, <3>2
  <2>4. Task(op, k) # St
    BY <2>1 DEF Task, St
  <2> QED
    BY <1>3, <2>1, <2>2, <2>3, <2>4
<1>6. ASSUME NEW k \in Attempt, handleEventStays(k)
      PROVE  Goal
  <2>1. /\ UNCHANGED <<ups, downs, at, connector, attempts>>
        /\ at = Idle /\ Conn(k) \in active
    BY <1>6 DEF handleEventStays, clientVars, Handles
  <2>2. IsUp(k)
    BY <1>6, <2>1, NothingUp DEF Invariant, Registered
  <2> QED
    BY <1>1, <1>6, <1>n, <1>s, <2>1, <2>2
<1>7. CASE destroyClient
  <2>1. connection_ \in Attempt /\ IsUp(connection_)
    BY <1>7, NothingUp DEF destroyClient, Invariant, Owned, Idle, At
  <2>2. UNCHANGED <<ups, downs, at, connector, attempts>>
    BY <1>7 DEF destroyClient
  <2> QED
    BY <1>1, <1>n, <1>s, <2>1, <2>2
<1>8. ASSUME NEW u \in User, queues(u)
      PROVE  Goal
  <2> DEFINE t == Task(call[u].place, call[u].k)
  <2>1. /\ tasks' = Append(tasks, t) /\ batch' = batch
        /\ UNCHANGED <<ups, downs, at, connector>>
        /\ t \in TaskType
        /\ t = St => Starting(u)
    BY <1>8 DEF queues, Continues, connVars, loopVars, clientVars, Types, UserTypes, Task,
      TaskType, St, Starting
  <2> HIDE DEF t
  <2>2. TaskSet' = TaskSet \cup {t}
    BY <2>1, QueueKeeps
  <2>3. CASE t # St
    BY <1>1, <2>1, <2>2, <2>3
  <2>4. CASE t = St
    <3>1. St \notin TaskSet /\ attempts = 0
      BY <2>1, <2>4 DEF Invariant, AskedOnce
    <3>2. at.place # "restarting"
      BY <3>1 DEF Types, LoopTypes
    <3>3. Up' <=> Up
      BY <1>u, <2>1 DEF IsUp
    <3>4. ~Asked /\ Asked' = TRUE /\ Phase' = Phase
      BY <2>1, <2>2, <2>4, <3>1, <3>2, <3>3 DEF Asked, Phase
    <3> QED
      BY <3>4, SessionActions DEF Session!Next
  <2> QED
    BY <2>3, <2>4
<1>9. ASSUME NEW k \in Attempt, handleWrite(k)
      PROVE  Goal
  <2>1. /\ Dialing /\ attempts # 0 /\ ~Up /\ at.place = "idle"
    <3>1. Dial(k) \in active
      BY <1>9 DEF handleWrite, Handles
    <3>2. Attempting(k)
      BY <1>9, <3>1 DEF Invariant, Registered
    <3> QED
      BY <1>9, <1>n, <3>2, TheAttempt
  <2>2. /\ ~Dialing' /\ ups' = ups /\ downs' = downs /\ attempts' = attempts
        /\ at'.place \in {"idle", "establishing"}
    BY <1>9, <2>1 DEF handleWrite, Dialing, connVars, At, Types, ClientTypes, ConnectorType
  <2>3. ~Up'
    BY <1>u, <2>1, <2>2 DEF IsUp
  <2>4. Phase = "dialing" /\ Phase' \in {"dialing", "idle"} /\ Asked = FALSE /\ Asked' = FALSE
    BY <1>d, <1>s, <2>1, <2>2, <2>3 DEF Phase, Asked
  <2> QED
    BY <2>4, SessionActions DEF Session!Next
<1>10. ASSUME NEW k \in Attempt, connectEstablished(k)
       PROVE  Goal
  <2>1. /\ at.place = "establishing" /\ at'.place = "up" /\ tasks' = tasks
        /\ UNCHANGED <<ups, downs, connector>>
    BY <1>10 DEF connectEstablished, At, clientVars
  <2>2. ~Up /\ ~Up' /\ TaskSet' = TaskSet
    BY <1>n, <1>u, <2>1 DEF IsUp, TaskSet
  <2>3. Phase' = Phase /\ Asked' = Asked
    BY <2>1, <2>2 DEF Phase, Asked
  <2> QED
    BY <2>3, SessionActions
<1>11. ASSUME NEW k \in Attempt, saysUp(k)
       PROVE  Goal
  <2>1. /\ at.place = "up" /\ at.k = k /\ at'.place = "idle"
        /\ UNCHANGED <<downs, connector, attempts>> /\ ups' = ups \cup {k}
    BY <1>11 DEF saysUp, At, Idle, clientVars
  <2>2. ~Up /\ connector.state_ = "kConnected" /\ attempts # 0
    BY <1>n, <2>1 DEF Invariant, OneThing, Types, LoopTypes, ClientTypes
  <2>3. k \notin ups /\ downs[k] = 0
    BY <1>11, <2>1 DEF Invariant, OneThing
  <2>4. Up'
    BY <1>11, <1>u, <2>1, <2>3 DEF IsUp
  <2>5. Phase = "dialing" /\ Phase' = "up" /\ Asked = FALSE /\ Asked' = FALSE
    BY <1>s, <2>1, <2>2, <2>4 DEF Phase, Asked
  <2> QED
    BY <2>5, SessionActions DEF Session!Next
<1>12. ASSUME NEW k \in Attempt, saysDown(k)
       PROVE  Goal
  <2>1. /\ at = At("down", k) /\ at.place = "down" /\ at'.place = "closing"
        /\ UNCHANGED <<ups, connector, attempts>> /\ downs' = [downs EXCEPT ![k] = Count(@)]
    BY <1>12 DEF saysDown, At, clientVars
  <2>2. IsUp(k) /\ connector.state_ = "kConnected"
    BY <2>1 DEF IsUp, At, Invariant, OneThing, Types, LoopTypes
  <2>3. Up /\ attempts # 0 /\ downs'[k] # 0
    BY <1>12, <1>n, <1>s, <2>1, <2>2 DEF IsUp, Count, Types, ConnTypes
  <2>4. ASSUME NEW j \in Attempt, IsUp(j)'
        PROVE  FALSE
    <3>1. j # k /\ IsUp(j)
      BY <2>1, <2>3, <2>4 DEF IsUp, Types, ConnTypes
    <3>2. Live(j)
      BY <2>1, <3>1 DEF Live, At
    <3> QED
      BY <2>1, <2>4, <3>2, TheOneUp
  <2>5. ~Up'
    BY <1>u, <2>4
  <2>6. Phase = "up" /\ Phase' = "idle" /\ Asked = FALSE /\ Asked' = FALSE
    BY <1>s, <2>1, <2>2, <2>3, <2>5 DEF Phase, Asked
  <2> QED
    BY <2>6, SessionActions DEF Session!Next
<1>13. ASSUME NEW k \in Attempt, handleClose(k), IsUp(k), at = Idle,
              UNCHANGED <<ups, downs, connector, attempts>>
       PROVE  Goal
  <2>1. at.place = "idle" /\ at'.place = "down" /\ attempts # 0
    BY <1>13, <1>n, <1>s DEF handleClose, At, Idle
  <2>2. Up /\ Up'
    BY <1>13, <1>u, <1>n DEF IsUp
  <2>3. Phase' = Phase /\ Asked' = Asked
    BY <1>13, <1>s, <2>1, <2>2 DEF Phase, Asked
  <2> QED
    BY <2>3, SessionActions
<1>19. ASSUME NEW k \in Attempt, handleEventCloses(k)
       PROVE  Goal
  <2>1. /\ at = Idle /\ Conn(k) \in active /\ handleClose(k)
        /\ UNCHANGED <<ups, downs, connector, attempts>>
    BY <1>19 DEF handleEventCloses, Handles, clientVars
  <2>2. IsUp(k)
    BY <1>19, <2>1, NothingUp DEF Invariant, Registered
  <2> QED
    BY <1>13, <1>19, <2>1, <2>2
<1>20. ASSUME NEW k \in Attempt, forceCloseInLoop(k)
       PROVE  Goal
  <2>1. /\ Starts("forceCloseInLoop", k) /\ tasks' = Tail(tasks) /\ at = Idle
        /\ UNCHANGED <<ups, downs, connector, attempts>>
    BY <1>20 DEF forceCloseInLoop, Starts, clientVars
  <2>2. F(k) \in TaskSet
    BY <2>1, TaskRuns DEF Types, F
  <2>3. CASE handleClose(k) /\ Runnable("forceClose", state_[k])
    <3>1. Live(k)
      BY <1>20, <2>2, <2>3 DEF Invariant, Forced, Runnable
    <3>2. IsUp(k)
      BY <2>1, <3>1, NothingUp
    <3> QED
      BY <1>13, <1>20, <2>1, <2>3, <3>2
  <2>4. CASE UNCHANGED <<state_, p, at>>
    <3>1. Task("forceCloseInLoop", k) # St
      BY DEF Task, St
    <3> QED
      BY <1>3, <2>1, <2>4, <3>1
  <2> QED
    BY <1>20, <2>3, <2>4 DEF forceCloseInLoop
<1>21. ASSUME NEW k \in Attempt, handleWriteFails(k)
       PROVE  Goal
  <2>1. /\ Dial(k) \in active
        /\ UNCHANGED <<ups, downs, at, connector, attempts>>
    BY <1>21 DEF handleWriteFails, Handles, clientVars, connVars
  <2>2. attempts # 0
    BY <1>21, <2>1, TheAttempt DEF Invariant, Registered
  <2> QED
    BY <1>1, <1>s, <2>1, <2>2
<1>14. ASSUME NEW k \in Attempt, removeConnection(k)
       PROVE  Goal
  <2>1. /\ at.place = "closing" /\ at'.place \in {"idle", "restarting"} /\ ~Up
        /\ connector.state_ = "kConnected" /\ ~Dialing
        /\ UNCHANGED <<ups, downs, connector, attempts>>
    BY <1>14, <1>n DEF removeConnection, At, Idle, connVars, Invariant, OneThing, Dialing
  <2>2. attempts # 0
    BY <2>1 DEF Types, LoopTypes, ConnTypes, ClientTypes
  <2>3. ~Up'
    BY <1>u, <2>1 DEF IsUp
  <2>4. Phase = "idle" /\ Phase' = "idle" /\ Asked = FALSE /\ (Asked' = FALSE \/ Asked' = TRUE)
    BY <1>d, <1>s, <2>1, <2>2, <2>3 DEF Phase, Asked
  <2> QED
    BY <2>4, SessionActions DEF Session!Next
<1>15. ASSUME NEW conr, startInLoop(conr), ~Dialing, ~Up, UNCHANGED <<ups, downs>>,
              at.place \in {"idle", "restarting"}, at'.place = "idle",
              Asked, St \notin TaskSet'
       PROVE  Goal
  <2>1. ~Up'
    BY <1>15, <1>u DEF IsUp
  <2>2. /\ Phase = "idle" /\ Asked = TRUE /\ Phase' \in {"idle", "dialing"} /\ Asked' = FALSE
    BY <1>15, <1>d, <2>1 DEF Phase, Asked
  <2> QED
    BY <2>2, SessionActions DEF Session!Next
<1>16. CASE restart
  <2> DEFINE conr == [connector EXCEPT !.state_ = "kDisconnected", !.connect_ = TRUE]
  <2>1. /\ startInLoop(conr)
        /\ at.place = "restarting" /\ at'.place = "idle" /\ UNCHANGED <<ups, downs>> /\ tasks' = tasks
    BY <1>16 DEF restart, At, Idle, connVars
  <2> HIDE DEF conr
  <2>2. ~Up /\ ~Dialing /\ attempts # 0 /\ Asked
    BY <1>n, <2>1 DEF Invariant, OneThing, Dialing, Types, LoopTypes, Asked
  <2>3. St \notin TaskSet'
    BY <1>s, <2>1, <2>2 DEF TaskSet
  <2> QED
    BY <1>15, <2>1, <2>2, <2>3
<1>17. CASE runStartInLoop
  <2>1. /\ Starts("startInLoop", NoAttempt) /\ tasks' = Tail(tasks) /\ startInLoop(connector)
        /\ at.place = "idle" /\ at'.place = "idle" /\ UNCHANGED <<ups, downs>>
    BY <1>17 DEF runStartInLoop, Starts, At, Idle, connVars
  <2>2. St \in TaskSet /\ (Once(tasks, St) => St \notin TaskSet')
    BY <2>1, RunKeeps DEF St
  <2>3. attempts = 0 /\ Once(tasks, St)
    BY <2>2 DEF Invariant, AskedOnce
  <2>4. ~Dialing /\ ~Up /\ Asked
    BY <1>n, <1>u, <2>2, <2>3 DEF Invariant, OneThing, Dialing, Asked
  <2> QED
    BY <1>15, <2>1, <2>2, <2>3, <2>4
<1>18. CASE stopInLoop
  <2>1. /\ Starts("stopInLoop", NoAttempt) /\ at.place = "idle" /\ at' = at
        /\ UNCHANGED <<ups, downs, attempts>>
    BY <1>18 DEF stopInLoop, Starts, At, Idle, connVars
  <2>2. CASE ~Dialing
    <3>1. tasks' = Tail(tasks) /\ connector' = connector
      BY <1>18, <2>2 DEF stopInLoop, Dialing
    <3>2. Task("stopInLoop", NoAttempt) # St
      BY DEF Task, St
    <3> QED
      BY <1>3, <2>1, <3>1, <3>2
  <2>3. CASE Dialing
    <3>1. ~Dialing' /\ ~Up /\ attempts # 0
      BY <1>18, <1>n, <2>3 DEF stopInLoop, Dialing, Types, ClientTypes, ConnectorType, Invariant,
        OneThing
    <3>2. ~Up'
      BY <1>u, <2>1, <3>1 DEF IsUp
    <3>3. Phase = "dialing" /\ Phase' = "idle" /\ Asked = FALSE /\ Asked' = FALSE
      BY <1>d, <1>s, <2>1, <2>3, <3>1, <3>2 DEF Phase, Asked
    <3> QED
      BY <3>3, SessionActions DEF Session!Next
  <2> QED
    BY <2>2, <2>3
<1> QED
  BY <1>4, <1>5, <1>6, <1>7, <1>8, <1>9, <1>10, <1>11, <1>12, <1>14, <1>16, <1>17, <1>18, <1>19,
    <1>20, <1>21
  DEF Next, Loop, Continue, Tasks, UserContinues

\* The client attempts one connection at a time, none while one is up, and none that
\* nobody asked for.
THEOREM Refinement ==
  ASSUME MaxConnects <= 1,
         \A x \in Usages : "disconnect" \in x.remote => x.local = {}
  PROVE  Spec => OneAtATime
<1>1. Init => Session!Init
  <2>1. ASSUME Init
        PROVE  Phase = "idle" /\ Asked = FALSE
    <3>1. TaskSet = {} /\ ups = {}
      BY <2>1 DEF Init, TaskSet
    <3> QED
      BY <2>1, <3>1 DEF Init, Phase, Asked, Up, Idle, At
  <2> QED
    BY <2>1, SessionActions
<1>2. Types /\ Types' /\ Invariant /\ Invariant' /\ [Next]_vars => [Session!Next]_(Session!vars)
  BY SessionStep
<1>3. Spec => []Types /\ []Invariant
  BY TypesHold, InvariantHolds DEF KeptApart
<1> QED
  BY <1>1, <1>2, <1>3, PTL DEF Spec, OneAtATime, Session!Spec
=============================================================================
