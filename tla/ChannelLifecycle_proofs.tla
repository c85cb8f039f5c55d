----------------------- MODULE ChannelLifecycle_proofs -----------------------
(***************************************************************************)
(* The safety invariants of ChannelLifecycle, for any set of channels.     *)
(***************************************************************************)
EXTENDS ChannelLifecycle, EPollPoller_proofs

-----------------------------------------------------------------------------
(* The invariant of ChannelLifecycle *)

\* Besides soundness: whatever is in the poller, in the active list or being
\* handled has been constructed and not destroyed.
IInv ==
  /\ TypeOK
  /\ Sound(p)
  /\ \A c \in Channel : p.index[c] # kNew => c \in alive
  /\ NoDanglingPointer

\* The inductive invariant holds in every reachable state.
THEOREM Invariant == Spec => []IInv
<1>1. Init => IInv
  <2> SUFFICES ASSUME Init PROVE IInv
    OBVIOUS
  <2>1. NewPoller \in Pollers
    BY DEF NewPoller, Pollers
  <2> QED
    BY <2>1, NewPollerSound DEF Init, IInv, TypeOK, NoDanglingPointer
<1>2. IInv /\ [Next]_vars => IInv'
  <2> SUFFICES ASSUME IInv, [Next]_vars
               PROVE  IInv'
    OBVIOUS
  <2>0. Sound(p) /\ p \in Pollers
    BY DEF IInv, Sound
  <2> USE DEF IInv, TypeOK, NoDanglingPointer
  <2>1. ASSUME NEW fd \in Fd, OpenFd(fd)
        PROVE  IInv'
    <3>1. Sound(p') /\ p'.index = p.index /\ Reportable(p') = Reportable(p)
      BY <2>0, <2>1, OpenSound DEF OpenFd
    <3> QED
      BY <2>1, <3>1 DEF OpenFd, Sound, Reportable
  <2>2. ASSUME NEW fd \in Fd, CloseFd(fd)
        PROVE  IInv'
    <3>1. Sound(p') /\ p'.index = p.index /\ Reportable(p') \subseteq Reportable(p)
      BY <2>0, <2>2, CloseSound DEF CloseFd
    <3> QED
      BY <2>2, <3>1 DEF CloseFd, Sound, Reportable
  <2>3. ASSUME NEW c \in Channel, newChannel(c)
        PROVE  IInv'
    <3>1. Sound(p') /\ ChangesOnly(c, p, p')
      BY <2>0, <2>3, ConstructSound DEF newChannel
    <3> QED
      BY <2>3, <3>1 DEF newChannel, ChangesOnly, Sound, Reportable
  <2>4. ASSUME NEW c \in Channel, ChangeEvents(c)
        PROVE  IInv'
    <3>1. PICK E \in SUBSET Events : p' = setEvents(p, c, E)
      BY <2>0, <2>4
      DEF ChangeEvents, enableReading, disenableReading, enableWriteing,
          disenableWriteing, disableAll, Events, Pollers
    <3>2. c \in alive /\ OwnsFd(p, c)
      BY <2>4 DEF ChangeEvents, MayUse
    <3>3. Sound(p') /\ ChangesOnly(c, p, p')
      BY <2>0, <3>1, <3>2, SetEventsSound
    <3> QED
      BY <2>4, <3>2, <3>3 DEF ChangeEvents, ChangesOnly, Sound, Reportable
  <2>5. ASSUME NEW c \in Channel, remove(c)
        PROVE  IInv'
    <3>1. c \in alive /\ OwnsFd(p, c)
      BY <2>5 DEF remove, MayUse
    <3>2. Sound(p') /\ ChangesOnly(c, p, p')
      BY <2>0, <2>5, <3>1, RemoveSound DEF remove
    <3> QED
      BY <2>5, <3>1, <3>2 DEF remove, ChangesOnly, Sound, Reportable
  <2>6. ASSUME NEW c \in Channel, destroy(c)
        PROVE  IInv'
    <3>1. c \notin Reportable(p)
      BY <2>0, <2>6 DEF destroy, Reportable, Sound, Consistent, kNew, kAdded
    <3> QED
      BY <2>6, <3>1 DEF destroy, Dispatching
  <2>7. ASSUME NEW c \in Channel, handleEvent(c)
        PROVE  IInv'
    BY <2>7 DEF handleEvent
  <2>8. CASE poll
    BY <2>0, <2>8 DEF poll, Reportable, Pollers
  <2>9. CASE handleEventReturns
    BY <2>9 DEF handleEventReturns
  <2>10. CASE UNCHANGED vars
    BY <2>10 DEF vars
  <2> QED
    BY <2>1, <2>2, <2>3, <2>4, <2>5, <2>6, <2>7, <2>8, <2>9, <2>10 DEF Next
<1> QED
  BY <1>1, <1>2, PTL DEF Spec

\* Every variable always has its type.
THEOREM TypeCorrect == Spec => []TypeOK
<1>1. IInv => TypeOK
  BY DEF IInv
<1> QED
  BY <1>1, Invariant, PTL

\* index_, the poller's map and the kernel's interest list always agree.
THEOREM IndexAlwaysAgrees == Spec => []IndexAgrees
<1>1. IInv => IndexAgrees
  BY DEF IInv, Sound, IndexAgrees
<1> QED
  BY <1>1, Invariant, PTL

\* No epoll_ctl ever fails, so that the poller's LOG_FATAL is never reached.
THEOREM NoEpollCtlFails == Spec => []EpollCtlNeverFails
<1>1. IInv => EpollCtlNeverFails
  BY DEF IInv, Sound, EpollCtlNeverFails
<1> QED
  BY <1>1, Invariant, PTL

\* No pointer to a destroyed channel is ever reported or handled.
THEOREM NoPointerDangles == Spec => []NoDanglingPointer
<1>1. IInv => NoDanglingPointer
  BY DEF IInv
<1> QED
  BY <1>1, Invariant, PTL
=============================================================================
