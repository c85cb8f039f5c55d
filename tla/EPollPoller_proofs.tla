------------------------- MODULE EPollPoller_proofs -------------------------
(***************************************************************************)
(* Lemmas about the operators of EPollPoller, for any set of channels, any *)
(* set of descriptors and any assignment of the ones to the others.  The   *)
(* proofs about the modules that keep a poller use them.                   *)
(***************************************************************************)
EXTENDS EPollPoller, TLAPS

\* A poller no call on which has failed, and whose index_, map and interest
\* list agree and mention only channels that have the descriptor in question.
Sound(q) ==
  /\ q \in Pollers
  /\ Consistent(q)
  /\ \A fd \in Fd :
       /\ q.ptr[fd] # NoChannel => FdOf[q.ptr[fd]] = fd /\ fd \in q.open
       /\ q.ptr[fd] = NoChannel => q.mask[fd] = {}
       /\ q.channels_[fd] # NoChannel => FdOf[q.channels_[fd]] = fd
  /\ q.failed = {}

\* Apart from c, r's channels are where they were in q, and nothing new but c
\* can be reported.
ChangesOnly(c, q, r) ==
  /\ r.open = q.open
  /\ \A d \in Channel \ {c} : r.index[d] = q.index[d]
  /\ Reportable(r) \subseteq Reportable(q) \cup {c}

-----------------------------------------------------------------------------
(* The operations *)

\* WithEntry changes one entry of the interest list and nothing else.
LEMMA EntrySet ==
  ASSUME NEW q \in Pollers, NEW c \in Channel
  PROVE  /\ WithEntry(q, c) \in Pollers
         /\ \A g \in Fd : WithEntry(q, c).ptr[g] = IF g = FdOf[c] THEN c ELSE q.ptr[g]
         /\ \A g \in Fd : WithEntry(q, c).mask[g] = IF g = FdOf[c] THEN q.events[c] ELSE q.mask[g]
         /\ WithEntry(q, c).index = q.index
         /\ WithEntry(q, c).events = q.events
         /\ WithEntry(q, c).channels_ = q.channels_
         /\ WithEntry(q, c).open = q.open
         /\ WithEntry(q, c).failed = q.failed
<1>1. FdOf[c] \in Fd
  BY PollerAssumption
<1> QED
  BY <1>1 DEF WithEntry, Pollers

\* So does WithoutEntry.
LEMMA EntryRemoved ==
  ASSUME NEW q \in Pollers, NEW fd \in Fd
  PROVE  /\ WithoutEntry(q, fd) \in Pollers
         /\ \A g \in Fd : WithoutEntry(q, fd).ptr[g] = IF g = fd THEN NoChannel ELSE q.ptr[g]
         /\ \A g \in Fd : WithoutEntry(q, fd).mask[g] = IF g = fd THEN {} ELSE q.mask[g]
         /\ WithoutEntry(q, fd).index = q.index
         /\ WithoutEntry(q, fd).events = q.events
         /\ WithoutEntry(q, fd).channels_ = q.channels_
         /\ WithoutEntry(q, fd).open = q.open
         /\ WithoutEntry(q, fd).failed = q.failed
BY DEF WithoutEntry, Pollers

Indices == {kNew, kAdded, kDeleted}

\* set_index changes one index_ and nothing else.
LEMMA IndexChanged ==
  ASSUME NEW q \in Pollers, NEW c \in Channel, NEW i \in Indices
  PROVE  /\ set_index(q, c, i) \in Pollers
         /\ \A d \in Channel : set_index(q, c, i).index[d] = IF d = c THEN i ELSE q.index[d]
         /\ set_index(q, c, i).events = q.events
         /\ set_index(q, c, i).channels_ = q.channels_
         /\ set_index(q, c, i).open = q.open
         /\ set_index(q, c, i).ptr = q.ptr
         /\ set_index(q, c, i).mask = q.mask
         /\ set_index(q, c, i).failed = q.failed
BY DEF set_index, Pollers, Indices

\* A successful epoll_ctl sets or empties the entry of the channel's descriptor.
LEMMA UpdateSucceeds ==
  ASSUME NEW q \in Pollers, NEW c \in Channel, NEW op, EpollCtlSucceeds(q, op, FdOf[c])
  PROVE  /\ op # EPOLL_CTL_DEL => update(q, op, c) = WithEntry(q, c)
         /\ op = EPOLL_CTL_DEL => update(q, op, c) = WithoutEntry(q, FdOf[c])
BY DEF update

\* enableReading and the other event changes keep a sound poller sound, and
\* leave every other channel alone, if the channel owns its descriptor.
LEMMA SetEventsSound ==
  ASSUME NEW q, Sound(q),
         NEW c \in Channel, OwnsFd(q, c),
         NEW E \in SUBSET Events,
         NEW r, r = setEvents(q, c, E)
  PROVE  /\ Sound(r) /\ ChangesOnly(c, q, r)
         /\ \A d \in Channel : r.events[d] = IF d = c THEN E ELSE q.events[d]
         /\ r.index[c] = IF q.index[c] = kAdded /\ E = {} THEN kDeleted ELSE kAdded
<1> DEFINE fd == FdOf[c]
           s == [q EXCEPT !.events[c] = E]
<1>i. /\ kNew # kAdded /\ kNew # kDeleted /\ kAdded # kDeleted
      /\ kNew \in Indices /\ kAdded \in Indices /\ kDeleted \in Indices
  BY DEF kNew, kAdded, kDeleted, Indices
<1> USE <1>i
<1>1. fd \in Fd /\ fd \in q.open
  BY PollerAssumption DEF OwnsFd
<1>2. q \in Pollers
  BY DEF Sound
<1>3. /\ s \in Pollers
      /\ \A d \in Channel : s.events[d] = IF d = c THEN E ELSE q.events[d]
      /\ s.index = q.index /\ s.channels_ = q.channels_ /\ s.open = q.open
      /\ s.ptr = q.ptr /\ s.mask = q.mask /\ s.failed = q.failed
  BY <1>2 DEF Pollers
<1>4. r = updateChannel(s, c)
  BY DEF setEvents
<1> HIDE DEF s
<1>5. CASE q.index[c] \in {kNew, kDeleted}
  <2>1. q.ptr[fd] = NoChannel
    BY <1>1, <1>2, <1>5 DEF Sound, Consistent, OwnsFd, Pollers
  <2> DEFINE u == IF q.index[c] = kNew THEN [s EXCEPT !.channels_[fd] = c] ELSE s
             t == set_index(u, c, kAdded)
  <2>a. /\ u \in Pollers
        /\ \A g \in Fd : u.channels_[g] = IF g = fd THEN c ELSE q.channels_[g]
        /\ u.index = q.index /\ u.events = s.events /\ u.open = q.open
        /\ u.ptr = q.ptr /\ u.mask = q.mask /\ u.failed = q.failed
    <3>1. CASE q.index[c] = kNew
      BY <1>1, <1>3, <3>1 DEF Pollers
    <3>2. CASE q.index[c] = kDeleted
      <4>1. q.channels_[fd] = c
        BY <3>2 DEF Sound, Consistent
      <4> QED
        BY <1>1, <1>2, <1>3, <3>2, <4>1
    <3> QED
      BY <1>5, <3>1, <3>2
  <2> HIDE DEF u
  <2>2. /\ t \in Pollers
        /\ \A d \in Channel : t.index[d] = IF d = c THEN kAdded ELSE u.index[d]
        /\ t.events = u.events /\ t.channels_ = u.channels_ /\ t.open = u.open
        /\ t.ptr = u.ptr /\ t.mask = u.mask /\ t.failed = u.failed
    <3>1. u \in Pollers
      BY <2>a
    <3> QED
      BY <3>1, IndexChanged
  <2>3. r = update(t, EPOLL_CTL_ADD, c)
    BY <1>3, <1>4, <1>5 DEF updateChannel, u
  <2> HIDE DEF t
  <2>b. r = WithEntry(t, c)
    BY <1>1, <2>1, <2>a, <2>2, <2>3, UpdateSucceeds
    DEF EpollCtlSucceeds, EPOLL_CTL_ADD, EPOLL_CTL_MOD, EPOLL_CTL_DEL
  <2>4. /\ r \in Pollers
        /\ \A g \in Fd : r.ptr[g] = IF g = fd THEN c ELSE q.ptr[g]
        /\ \A g \in Fd : r.mask[g] = IF g = fd THEN s.events[c] ELSE q.mask[g]
        /\ r.index = t.index /\ r.events = s.events /\ r.channels_ = t.channels_
        /\ r.open = q.open /\ r.failed = q.failed
    BY <2>a, <2>2, <2>b, EntrySet
  <2>5. Consistent(r)
    BY <1>1, <1>2, <1>3, <1>5, <2>1, <2>a, <2>2, <2>4, PollerAssumption
    DEF Sound, Consistent, OwnsFd, Pollers
  <2>10. Sound(r)
    <3>1. ASSUME NEW g \in Fd
          PROVE  /\ r.ptr[g] # NoChannel => FdOf[r.ptr[g]] = g /\ g \in r.open
                 /\ r.ptr[g] = NoChannel => r.mask[g] = {}
                 /\ r.channels_[g] # NoChannel => FdOf[r.channels_[g]] = g
      BY <1>1, <2>1, <2>a, <2>2, <2>4, PollerAssumption DEF Sound
    <3>2. r.failed = {}
      BY <2>4, <2>5 DEF Sound
    <3> QED
      BY <2>4, <2>5, <3>1, <3>2 DEF Sound
  <2>11. ChangesOnly(c, q, r)
    BY <1>1, <1>2, <1>3, <1>5, <2>1, <2>a, <2>2, <2>4, <2>5
    DEF Pollers, ChangesOnly, Reportable
  <2>12. \A d \in Channel : r.events[d] = IF d = c THEN E ELSE q.events[d]
    BY <1>3, <2>4
  <2>13. r.index[c] = IF q.index[c] = kAdded /\ E = {} THEN kDeleted ELSE kAdded
    BY <1>5, <2>2, <2>4
  <2> QED
    BY <2>10, <2>11, <2>12, <2>13
<1>6. CASE q.index[c] = kAdded /\ E = {}
  <2>1. q.ptr[fd] = c /\ c # NoChannel
    BY <1>1, <1>2, <1>6, PollerAssumption DEF Sound, Consistent
  <2> DEFINE t == WithoutEntry(s, fd)
  <2>2. /\ t \in Pollers
        /\ \A g \in Fd : t.ptr[g] = IF g = fd THEN NoChannel ELSE q.ptr[g]
        /\ \A g \in Fd : t.mask[g] = IF g = fd THEN {} ELSE q.mask[g]
        /\ t.index = q.index /\ t.events = s.events /\ t.channels_ = q.channels_
        /\ t.open = q.open /\ t.failed = q.failed
    BY <1>1, <1>3, EntryRemoved
  <2>a. t = update(s, EPOLL_CTL_DEL, c)
    BY <1>1, <1>3, <2>1, UpdateSucceeds DEF EpollCtlSucceeds, EPOLL_CTL_ADD, EPOLL_CTL_DEL
  <2>3. r = set_index(t, c, kDeleted)
    BY <1>2, <1>3, <1>4, <1>6, <2>a DEF updateChannel, Pollers
  <2> HIDE DEF t
  <2>4. /\ r \in Pollers
        /\ \A d \in Channel : r.index[d] = IF d = c THEN kDeleted ELSE t.index[d]
        /\ r.ptr = t.ptr /\ r.mask = t.mask /\ r.events = t.events
        /\ r.channels_ = t.channels_ /\ r.open = t.open /\ r.failed = t.failed
    <3>1. t \in Pollers
      BY <2>2
    <3> DEFINE v == set_index(t, c, kDeleted)
    <3>2. /\ v \in Pollers
          /\ \A d \in Channel : v.index[d] = IF d = c THEN kDeleted ELSE t.index[d]
          /\ v.ptr = t.ptr /\ v.mask = t.mask /\ v.events = t.events
          /\ v.channels_ = t.channels_ /\ v.open = t.open /\ v.failed = t.failed
      BY <3>1, IndexChanged
    <3> HIDE DEF v
    <3>3. r = v
      BY <2>3 DEF v
    <3> QED
      BY <3>2, <3>3
  <2>5. Consistent(r)
    BY <1>1, <1>2, <1>3, <1>6, <2>1, <2>2, <2>4, PollerAssumption
    DEF Sound, Consistent, OwnsFd, Pollers
  <2>10. Sound(r)
    <3>1. ASSUME NEW g \in Fd
          PROVE  /\ r.ptr[g] # NoChannel => FdOf[r.ptr[g]] = g /\ g \in r.open
                 /\ r.ptr[g] = NoChannel => r.mask[g] = {}
                 /\ r.channels_[g] # NoChannel => FdOf[r.channels_[g]] = g
      BY <1>1, <2>1, <2>2, <2>4, PollerAssumption DEF Sound
    <3>2. r.failed = {}
      BY <2>2, <2>4, <2>5 DEF Sound
    <3> QED
      BY <2>2, <2>4, <2>5, <3>1, <3>2 DEF Sound
  <2>11. ChangesOnly(c, q, r)
    BY <1>1, <1>2, <1>3, <1>6, <2>1, <2>2, <2>4, <2>5
    DEF Pollers, ChangesOnly, Reportable
  <2>12. \A d \in Channel : r.events[d] = IF d = c THEN E ELSE q.events[d]
    <3>1. r.events = s.events
      BY <2>2, <2>4
    <3> QED
      BY <1>3, <3>1
  <2>13. r.index[c] = IF q.index[c] = kAdded /\ E = {} THEN kDeleted ELSE kAdded
    <3>1. r.index[c] = kDeleted
      BY <2>4
    <3> QED
      BY <1>6, <3>1
  <2> QED
    BY <2>10, <2>11, <2>12, <2>13
<1>7. CASE q.index[c] = kAdded /\ E # {}
  <2>1. q.ptr[fd] = c /\ c # NoChannel
    BY <1>1, <1>2, <1>7, PollerAssumption DEF Sound, Consistent
  <2>2. r = update(s, EPOLL_CTL_MOD, c)
    BY <1>2, <1>3, <1>4, <1>7 DEF updateChannel, Pollers
  <2>a. r = WithEntry(s, c)
    BY <1>1, <1>3, <2>1, <2>2, UpdateSucceeds
    DEF EpollCtlSucceeds, EPOLL_CTL_ADD, EPOLL_CTL_MOD, EPOLL_CTL_DEL
  <2>3. /\ r \in Pollers
        /\ \A g \in Fd : r.ptr[g] = IF g = fd THEN c ELSE q.ptr[g]
        /\ \A g \in Fd : r.mask[g] = IF g = fd THEN s.events[c] ELSE q.mask[g]
        /\ r.index = q.index /\ r.events = s.events /\ r.channels_ = q.channels_
        /\ r.open = q.open /\ r.failed = q.failed
    BY <1>3, <2>a, EntrySet
  <2>4. Consistent(r)
    BY <1>1, <1>2, <1>3, <1>7, <2>1, <2>3, PollerAssumption
    DEF Sound, Consistent, OwnsFd, Pollers
  <2>10. Sound(r)
    <3>1. ASSUME NEW g \in Fd
          PROVE  /\ r.ptr[g] # NoChannel => FdOf[r.ptr[g]] = g /\ g \in r.open
                 /\ r.ptr[g] = NoChannel => r.mask[g] = {}
                 /\ r.channels_[g] # NoChannel => FdOf[r.channels_[g]] = g
      BY <1>1, <1>3, <2>1, <2>3, PollerAssumption DEF Sound
    <3>2. r.failed = {}
      BY <1>3, <2>3, <2>4 DEF Sound
    <3> QED
      BY <1>3, <2>3, <2>4, <3>1, <3>2 DEF Sound
  <2>11. ChangesOnly(c, q, r)
    BY <1>1, <1>2, <1>3, <1>7, <2>1, <2>3, <2>4
    DEF Pollers, ChangesOnly, Reportable
  <2>12. \A d \in Channel : r.events[d] = IF d = c THEN E ELSE q.events[d]
    BY <1>3, <2>3
  <2>13. r.index[c] = IF q.index[c] = kAdded /\ E = {} THEN kDeleted ELSE kAdded
    BY <1>7, <2>3
  <2> QED
    BY <2>10, <2>11, <2>12, <2>13
<1> QED
  BY <1>2, <1>5, <1>6, <1>7 DEF Pollers

\* removeChannel keeps a sound poller sound and takes the channel out of it, so
\* that it cannot be reported any more.
LEMMA RemoveSound ==
  ASSUME NEW q, Sound(q),
         NEW c \in Channel, OwnsFd(q, c),
         NEW r, r = removeChannel(q, c)
  PROVE  /\ Sound(r) /\ ChangesOnly(c, q, r)
         /\ r.index[c] = kNew /\ r.events = q.events
<1> DEFINE fd == FdOf[c]
           s == [q EXCEPT !.channels_[fd] = NoChannel]
<1>i. /\ kNew # kAdded /\ kNew # kDeleted /\ kAdded # kDeleted
      /\ kNew \in Indices /\ kAdded \in Indices /\ kDeleted \in Indices
  BY DEF kNew, kAdded, kDeleted, Indices
<1> USE <1>i
<1>1. fd \in Fd /\ fd \in q.open
  BY PollerAssumption DEF OwnsFd
<1>2. q \in Pollers
  BY DEF Sound
<1>3. /\ s \in Pollers
      /\ \A g \in Fd : s.channels_[g] = IF g = fd THEN NoChannel ELSE q.channels_[g]
      /\ s.index = q.index /\ s.events = q.events /\ s.open = q.open
      /\ s.ptr = q.ptr /\ s.mask = q.mask /\ s.failed = q.failed
  BY <1>1, <1>2 DEF Pollers
<1> DEFINE t == IF q.index[c] = kAdded THEN update(s, EPOLL_CTL_DEL, c) ELSE s
<1>4. r = set_index(t, c, kNew)
  BY DEF removeChannel
<1> HIDE DEF s, t
<1>5. /\ t \in Pollers
      /\ \A g \in Fd : t.ptr[g] = IF g = fd THEN NoChannel ELSE q.ptr[g]
      /\ \A g \in Fd : t.mask[g] = IF g = fd /\ q.index[c] = kAdded THEN {} ELSE q.mask[g]
      /\ t.index = q.index /\ t.events = q.events /\ t.channels_ = s.channels_
      /\ t.open = q.open /\ t.failed = q.failed
  <2>1. CASE q.index[c] = kAdded
    <3>1. q.ptr[fd] = c /\ c # NoChannel
      BY <1>1, <1>2, <2>1, PollerAssumption DEF Sound, Consistent
    <3>2. t = WithoutEntry(s, fd)
      BY <1>1, <1>3, <2>1, <3>1, UpdateSucceeds
      DEF t, EpollCtlSucceeds, EPOLL_CTL_ADD, EPOLL_CTL_DEL
    <3> QED
      BY <1>1, <1>3, <2>1, <3>2, EntryRemoved
  <2>2. CASE q.index[c] # kAdded
    <3>1. q.ptr[fd] = NoChannel
      BY <1>1, <1>2, <2>2, PollerAssumption DEF Sound, Consistent, OwnsFd, Pollers
    <3>2. t = s
      BY <2>2 DEF t
    <3> QED
      BY <1>1, <1>3, <2>2, <3>1, <3>2
  <2> QED
    BY <2>1, <2>2
<1> DEFINE v == set_index(t, c, kNew)
<1>6. /\ v \in Pollers
      /\ \A d \in Channel : v.index[d] = IF d = c THEN kNew ELSE t.index[d]
      /\ v.ptr = t.ptr /\ v.mask = t.mask /\ v.events = t.events
      /\ v.channels_ = t.channels_ /\ v.open = t.open /\ v.failed = t.failed
  <2>1. t \in Pollers
    BY <1>5
  <2> QED
    BY <2>1, IndexChanged
<1> HIDE DEF v
<1>7. Consistent(v)
  BY <1>1, <1>2, <1>3, <1>5, <1>6, PollerAssumption DEF Sound, Consistent, OwnsFd, Pollers
<1>8. Sound(v)
  <2>1. ASSUME NEW g \in Fd
        PROVE  /\ v.ptr[g] # NoChannel => FdOf[v.ptr[g]] = g /\ g \in v.open
               /\ v.channels_[g] # NoChannel => FdOf[v.channels_[g]] = g
    BY <1>3, <1>5, <1>6 DEF Sound
  <2>2. ASSUME NEW g \in Fd, v.ptr[g] = NoChannel
        PROVE  v.mask[g] = {}
    <3>1. CASE q.index[c] = kAdded
      BY <1>5, <1>6, <2>2, <3>1 DEF Sound
    <3>2. CASE q.index[c] # kAdded
      <4>1. q.ptr[fd] = NoChannel
        BY <1>1, <1>2, <3>2, PollerAssumption DEF Sound, Consistent, OwnsFd, Pollers
      <4> QED
        BY <1>5, <1>6, <2>2, <3>2, <4>1 DEF Sound
    <3> QED
      BY <3>1, <3>2
  <2> QED
    BY <1>5, <1>6, <1>7, <2>1, <2>2 DEF Sound
<1>9. ChangesOnly(c, q, v) /\ v.index[c] = kNew /\ v.events = q.events
  BY <1>1, <1>2, <1>3, <1>5, <1>6 DEF Pollers, ChangesOnly, Reportable
<1> QED
  BY <1>4, <1>8, <1>9 DEF v

\* close() of a descriptor no channel in the poller has keeps the poller sound.
LEMMA CloseSound ==
  ASSUME NEW q, Sound(q),
         NEW fd \in Fd, \A c \in Channel : FdOf[c] = fd => q.index[c] = kNew,
         NEW r, r = Close(q, fd)
  PROVE  /\ Sound(r)
         /\ r.index = q.index /\ r.open = q.open \ {fd}
         /\ Reportable(r) \subseteq Reportable(q)
<1> DEFINE t == WithoutEntry(q, fd)
<1>1. q \in Pollers
  BY DEF Sound
<1>2. q.ptr[fd] = NoChannel
  BY <1>1, PollerAssumption DEF Sound, Consistent, Pollers, kNew, kAdded
<1>3. /\ t \in Pollers
      /\ \A g \in Fd : t.ptr[g] = q.ptr[g]
      /\ \A g \in Fd : t.mask[g] = IF g = fd THEN {} ELSE q.mask[g]
      /\ t.index = q.index /\ t.events = q.events /\ t.channels_ = q.channels_
      /\ t.open = q.open /\ t.failed = q.failed
  BY <1>1, <1>2, EntryRemoved
<1> HIDE DEF t
<1> DEFINE v == [t EXCEPT !.open = t.open \ {fd}]
<1>4. /\ v \in Pollers
      /\ v.open = t.open \ {fd}
      /\ v.ptr = t.ptr /\ v.mask = t.mask /\ v.events = t.events /\ v.index = t.index
      /\ v.channels_ = t.channels_ /\ v.failed = t.failed
  <2>1. t \in Pollers
    BY <1>3
  <2> QED
    BY <2>1 DEF Pollers
<1>5. r = v
  BY DEF Close, t
<1> HIDE DEF v
<1>6. Consistent(v)
  <2> SUFFICES ASSUME NEW c \in Channel
               PROVE  /\ (v.index[c] = kAdded) <=> (v.ptr[FdOf[c]] = c)
                      /\ (v.index[c] = kAdded) => (v.mask[FdOf[c]] = v.events[c])
                      /\ (v.index[c] # kNew) <=> (v.channels_[FdOf[c]] = c)
    BY DEF Consistent
  <2>1. FdOf[c] \in Fd
    BY PollerAssumption
  <2>2. /\ v.index[c] = q.index[c] /\ v.events[c] = q.events[c]
        /\ v.ptr[FdOf[c]] = q.ptr[FdOf[c]]
        /\ v.channels_[FdOf[c]] = q.channels_[FdOf[c]]
        /\ FdOf[c] # fd => v.mask[FdOf[c]] = q.mask[FdOf[c]]
    BY <1>3, <1>4, <2>1
  <2> QED
    BY <2>2 DEF Sound, Consistent, kNew, kAdded
<1>7. Sound(v) /\ v.index = q.index /\ v.open = q.open \ {fd} /\ Reportable(v) \subseteq Reportable(q)
  BY <1>1, <1>2, <1>3, <1>4, <1>6 DEF Sound, Reportable
<1> QED
  BY <1>5, <1>7

\* A new channel is in no poller, and its construction disturbs no other.
LEMMA ConstructSound ==
  ASSUME NEW q, Sound(q),
         NEW c \in Channel, q.index[c] = kNew,
         NEW r, r = construct(q, c)
  PROVE  Sound(r) /\ ChangesOnly(c, q, r) /\ r.index[c] = kNew
<1>1. q \in Pollers
  BY DEF Sound
<1> DEFINE v == [q EXCEPT !.index[c] = kNew, !.events[c] = {}]
<1>2. /\ v \in Pollers
      /\ \A d \in Channel : v.index[d] = q.index[d]
      /\ \A d \in Channel : v.events[d] = IF d = c THEN {} ELSE q.events[d]
      /\ v.ptr = q.ptr /\ v.mask = q.mask /\ v.open = q.open
      /\ v.channels_ = q.channels_ /\ v.failed = q.failed
  BY <1>1 DEF Pollers
<1>3. r = v
  BY DEF construct
<1> HIDE DEF v
<1>4. Consistent(v)
  BY <1>1, <1>2 DEF Sound, Consistent, kNew, kAdded
<1>5. Sound(v) /\ ChangesOnly(c, q, v) /\ v.index[c] = kNew
  BY <1>1, <1>2, <1>4 DEF Sound, ChangesOnly, Reportable
<1> QED
  BY <1>3, <1>5

\* Opening a descriptor changes nothing else.
LEMMA OpenSound ==
  ASSUME NEW q, Sound(q), NEW fd \in Fd,
         NEW r, r = [q EXCEPT !.open = q.open \cup {fd}]
  PROVE  /\ Sound(r)
         /\ r.index = q.index /\ r.open = q.open \cup {fd}
         /\ Reportable(r) = Reportable(q)
<1>1. q \in Pollers
  BY DEF Sound
<1>2. /\ r \in Pollers
      /\ r.open = q.open \cup {fd}
      /\ r.index = q.index /\ r.events = q.events /\ r.channels_ = q.channels_
      /\ r.ptr = q.ptr /\ r.mask = q.mask /\ r.failed = q.failed
  BY <1>1 DEF Pollers
<1> QED
  BY <1>2 DEF Sound, Consistent, Reportable

\* A new poller is sound, and has nothing to report.
LEMMA NewPollerSound ==
  /\ Sound(NewPoller)
  /\ Reportable(NewPoller) = {}
  /\ \A c \in Channel : NewPoller.index[c] = kNew
<1>1. NewPoller \in Pollers
  BY DEF NewPoller, Pollers
<1>2. Sound(NewPoller)
  BY <1>1, PollerAssumption DEF NewPoller, Sound, Consistent, kNew, kAdded
<1>3. Reportable(NewPoller) = {}
  BY DEF NewPoller, Reportable
<1>4. \A c \in Channel : NewPoller.index[c] = kNew
  BY DEF NewPoller
<1> QED
  BY <1>2, <1>3, <1>4

-----------------------------------------------------------------------------
(* What holds of the operations even when epoll_ctl fails *)

\* r is a poller, and has an entry that q has not at c's descriptor only, c's.
EntersOnly(c, q, r) ==
  /\ r \in Pollers
  /\ \A g \in Fd : r.ptr[g] \in {q.ptr[g], NoChannel} \/ (g = FdOf[c] /\ r.ptr[g] = c)

\* One epoll_ctl, successful or not, concerns one descriptor.
LEMMA UpdateTyped ==
  ASSUME NEW q \in Pollers, NEW c \in Channel,
         NEW op \in {EPOLL_CTL_ADD, EPOLL_CTL_MOD, EPOLL_CTL_DEL}
  PROVE  EntersOnly(c, q, update(q, op, c))
<1>1. FdOf[c] \in Fd
  BY PollerAssumption
<1>2. CASE EpollCtlSucceeds(q, op, FdOf[c])
  <2>1. CASE op = EPOLL_CTL_DEL
    BY <1>1, <1>2, <2>1, UpdateSucceeds, EntryRemoved DEF EntersOnly
  <2>2. CASE op # EPOLL_CTL_DEL
    BY <1>1, <1>2, <2>2, UpdateSucceeds, EntrySet DEF EntersOnly
  <2> QED
    BY <2>1, <2>2
<1>3. CASE ~EpollCtlSucceeds(q, op, FdOf[c])
  <2> DEFINE r == [q EXCEPT !.failed = q.failed \cup {op}]
  <2>1. r \in Pollers /\ r.ptr = q.ptr
    BY DEF Pollers
  <2>2. update(q, op, c) = r
    BY <1>3 DEF update
  <2> HIDE DEF r
  <2> QED
    BY <2>1, <2>2 DEF EntersOnly
<1> QED
  BY <1>2, <1>3

\* So does a change of a channel's events,
LEMMA SetEventsTyped ==
  ASSUME NEW q \in Pollers, NEW c \in Channel, NEW E \in SUBSET Events
  PROVE  EntersOnly(c, q, setEvents(q, c, E))
<1> DEFINE s == [q EXCEPT !.events[c] = E]
           u == [s EXCEPT !.channels_[FdOf[c]] = c]
           r == updateChannel(s, c)
<1>1. FdOf[c] \in Fd /\ {kNew, kAdded, kDeleted} = Indices
  BY PollerAssumption DEF Indices
<1>2. s \in Pollers /\ s.ptr = q.ptr
  BY DEF Pollers
<1>3. setEvents(q, c, E) = r
  BY DEF setEvents
<1> HIDE DEF s
<1>4. u \in Pollers /\ u.ptr = q.ptr
  BY <1>1, <1>2 DEF Pollers
<1> HIDE DEF u
<1>5. s.index[c] \in Indices
  BY <1>1, <1>2 DEF Pollers
<1>6. CASE s.index[c] = kNew
  <2> DEFINE t == set_index(u, c, kAdded)
  <2>1. t \in Pollers /\ t.ptr = q.ptr
    BY <1>1, <1>4, IndexChanged
  <2>2. r = update(t, EPOLL_CTL_ADD, c)
    BY <1>6 DEF updateChannel, u, kNew, kAdded, kDeleted
  <2> HIDE DEF t, r
  <2>3. EntersOnly(c, t, r)
    BY <2>1, <2>2, UpdateTyped
  <2> QED
    BY <1>3, <2>1, <2>3 DEF EntersOnly
<1>7. CASE s.index[c] = kDeleted
  <2> DEFINE t == set_index(s, c, kAdded)
  <2>1. t \in Pollers /\ t.ptr = q.ptr
    BY <1>1, <1>2, IndexChanged
  <2>2. r = update(t, EPOLL_CTL_ADD, c)
    BY <1>7 DEF updateChannel, kNew, kAdded, kDeleted
  <2> HIDE DEF t, r
  <2>3. EntersOnly(c, t, r)
    BY <2>1, <2>2, UpdateTyped
  <2> QED
    BY <1>3, <2>1, <2>3 DEF EntersOnly
<1>8. CASE s.index[c] = kAdded /\ s.events[c] = {}
  <2> DEFINE t == update(s, EPOLL_CTL_DEL, c)
  <2>1. EntersOnly(c, s, t)
    BY <1>2, UpdateTyped
  <2>2. r = set_index(t, c, kDeleted)
    BY <1>8 DEF updateChannel, kNew, kAdded, kDeleted
  <2> HIDE DEF t, r
  <2> QED
    BY <1>1, <1>2, <1>3, <2>1, <2>2, IndexChanged DEF EntersOnly
<1>9. CASE s.index[c] = kAdded /\ s.events[c] # {}
  <2>1. r = update(s, EPOLL_CTL_MOD, c)
    BY <1>9 DEF updateChannel, kNew, kAdded, kDeleted
  <2> HIDE DEF r
  <2> QED
    BY <1>2, <1>3, <2>1, UpdateTyped, SMTT(30) DEF EntersOnly
<1> QED
  BY <1>5, <1>6, <1>7, <1>8, <1>9 DEF Indices

\* removeChannel,
LEMMA RemoveTyped ==
  ASSUME NEW q \in Pollers, NEW c \in Channel
  PROVE  EntersOnly(c, q, removeChannel(q, c))
<1> DEFINE e == [q EXCEPT !.channels_[FdOf[c]] = NoChannel]
           t == IF q.index[c] = kAdded THEN update(e, EPOLL_CTL_DEL, c) ELSE e
<1>1. FdOf[c] \in Fd /\ kNew \in Indices
  BY PollerAssumption DEF Indices
<1>2. e \in Pollers /\ e.ptr = q.ptr
  BY <1>1 DEF Pollers
<1>3. removeChannel(q, c) = set_index(t, c, kNew)
  BY DEF removeChannel
<1> HIDE DEF e
<1>4. EntersOnly(c, q, t)
  BY <1>2, UpdateTyped, SMTT(30) DEF EntersOnly
<1> HIDE DEF t
<1> QED
  BY <1>1, <1>3, <1>4, IndexChanged DEF EntersOnly

\* and the opening and closing of one.
LEMMA OpenTyped ==
  ASSUME NEW q \in Pollers, NEW fd \in Fd, NEW c
  PROVE  /\ EntersOnly(c, q, [q EXCEPT !.open = @ \cup {fd}])
         /\ EntersOnly(c, q, Close(q, fd))
<1> DEFINE t == WithoutEntry(q, fd)
<1>1. EntersOnly(c, q, [q EXCEPT !.open = @ \cup {fd}])
  BY DEF EntersOnly, Pollers
<1>2. t \in Pollers /\ \A g \in Fd : t.ptr[g] \in {q.ptr[g], NoChannel}
  BY EntryRemoved
<1>3. Close(q, fd) = [t EXCEPT !.open = @ \ {fd}]
  BY DEF Close
<1> HIDE DEF t
<1>4. [t EXCEPT !.open = @ \ {fd}] \in Pollers /\ [t EXCEPT !.open = @ \ {fd}].ptr = t.ptr
  BY <1>2 DEF Pollers
<1> QED
  BY <1>1, <1>2, <1>3, <1>4 DEF EntersOnly
=============================================================================
