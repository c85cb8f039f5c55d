-------------------------- MODULE EventLoop_proofs --------------------------
(***************************************************************************)
(* Proofs about EventLoop, for any number of calling threads, functors and *)
(* channels, any eventfd limit and any bound on the queue.                 *)
(***************************************************************************)
EXTENDS EventLoop, SequenceTheorems, TLAPS

-----------------------------------------------------------------------------
(* Type correctness *)

\* Every step of any thread preserves the types.
LEMMA TypeInductive ==
  ASSUME TypeOK, [Next]_vars
  PROVE  TypeOK'
<1> USE EventLoopAssumption DEF TypeOK, Locations, Thread
<1>1. ASSUME NEW t \in Thread, NEW f \in Functor, queueInLoop(t, f)
      PROVE  TypeOK'
  BY <1>1 DEF queueInLoop
<1>2. ASSUME NEW t \in Thread, NEW f \in Functor, runInLoop(t, f)
      PROVE  TypeOK'
  <2>1. CASE isInLoopThread(t)
    <3>1. /\ running' = Append(running, f)
          /\ UNCHANGED <<pc, looping_, quit_, pendingFunctors_, wakeupFd_, call,
                         callingPendingFunctions_, functors, activeChannels_>>
      BY <1>2, <2>1 DEF runInLoop
    <3> QED
      BY <3>1
  <2>2. CASE ~isInLoopThread(t)
    BY <1>1, <1>2, <2>2 DEF runInLoop
  <2> QED
    BY <2>1, <2>2
<1>3. ASSUME NEW t \in Thread, queueInLoopWakes(t)
      PROVE  TypeOK'
  BY <1>3 DEF queueInLoopWakes, wakeup
<1>4. ASSUME NEW t \in Thread, quit(t)
      PROVE  TypeOK'
  BY <1>4 DEF quit
<1>5. ASSUME NEW t \in Thread, quitWakes(t)
      PROVE  TypeOK'
  BY <1>5 DEF quitWakes, wakeup
<1>6. CASE loop
  BY <1>6 DEF loop
<1>7. CASE loopPolls
  BY <1>7 DEF loopPolls
<1>8. CASE loopExits
  BY <1>8 DEF loopExits
<1>9. CASE pollReturns
  BY <1>9 DEF pollReturns
<1>10. CASE pollTimesOut
  BY <1>10 DEF pollTimesOut
<1>11. CASE handleRead
  BY <1>11 DEF handleRead
<1>12. ASSUME NEW c \in IoChannel, handleEvent(c)
       PROVE  TypeOK'
  BY <1>12 DEF handleEvent
<1>13. CASE handleEventReturns
  BY <1>13 DEF handleEventReturns
<1>14. CASE doPendingFunctors
  BY <1>14 DEF doPendingFunctors
<1>15. CASE swapFunctors
  BY <1>15 DEF swapFunctors
<1>16. CASE callFunctor
  BY <1>16, HeadTailProperties DEF callFunctor
<1>17. CASE callbackReturns
  <2>1. SubSeq(running, 1, Len(running) - 1) \in Seq(Functor)
    BY <1>17 DEF callbackReturns
  <2> QED
    BY <1>17, <2>1 DEF callbackReturns
<1>18. CASE doPendingFunctorsReturns
  BY <1>18 DEF doPendingFunctorsReturns
<1>19. CASE UNCHANGED vars
  BY <1>19 DEF vars
<1> QED
  BY <1>1, <1>2, <1>3, <1>4, <1>5, <1>6, <1>7, <1>8, <1>9, <1>10, <1>11,
     <1>12, <1>13, <1>14, <1>15, <1>16, <1>17, <1>18, <1>19
  DEF Next, Owner, Call

\* So does the constructor.
LEMMA TypeInitially == ASSUME Init PROVE TypeOK
<1>1. <<>> \in Seq(Functor)
  BY EmptySeq
<1>2. 0 \in 0..EventfdMax
  BY EventLoopAssumption
<1> QED
  BY <1>1, <1>2 DEF Init, TypeOK, Locations

\* The variables keep their types in every reachable state.
THEOREM TypeCorrect == Spec => []TypeOK
<1>1. Init => TypeOK
  BY TypeInitially
<1>2. TypeOK /\ [Next]_vars => TypeOK'
  BY TypeInductive
<1> QED
  BY <1>1, <1>2, PTL DEF Spec

-----------------------------------------------------------------------------
(* The inductive invariant *)

\* Where the owner can be, given what it is in the middle of.
OwnerPosition ==
  /\ callingPendingFunctions_ <=> pc \in {"swap", "run"}
  /\ functors # <<>> => pc = "run"
  /\ running # <<>> => pc \in {"created", "callback", "run"}
  /\ call[LoopThread] # "quitting"
  /\ call[LoopThread] = "queued" =>
       \/ pc \in {"callback", "run"}
       \/ pc = "created" /\ QueueBeforeLoop

\* Callbacks that the owner will not collect before it sleeps again are
\* announced.  Between the poller's return and the swap they need not be: the
\* owner is on its way to collect them.
QueuedIsAnnounced ==
  (~QueueBeforeLoop /\ pendingFunctors_ # <<>> /\ pc \in {"created", "check", "poll", "run"}) =>
    wakeupFd_ > 0 \/ \E t \in Thread : call[t] = "queued"

IInv ==
  /\ TypeOK
  /\ OwnerPosition
  /\ QueuedIsAnnounced
  /\ NoLostQuit
  /\ WakeupReadSucceeds

\* Only handleRead takes from the eventfd's counter, and a write leaves it readable.
LEMMA WakeupMakesReadable ==
  ASSUME TypeOK, wakeup
  PROVE  wakeupFd_' > 0
BY EventLoopAssumption DEF TypeOK, wakeup

\* The inductive invariant holds in every reachable state.
THEOREM Invariant == Spec => []IInv
<1>1. Init => IInv
  <2> SUFFICES ASSUME Init PROVE IInv
    OBVIOUS
  <2>1. TypeOK
    BY TypeInitially
  <2>2. call[LoopThread] = "none"
    BY DEF Init, Thread
  <2> QED
    BY <2>1, <2>2 DEF Init, IInv, OwnerPosition, QueuedIsAnnounced, NoLostQuit,
                      WakeupReadSucceeds
<1>2. IInv /\ [Next]_vars => IInv'
  <2> SUFFICES ASSUME IInv, [Next]_vars
               PROVE  IInv'
    OBVIOUS
  <2>t. TypeOK'
    BY TypeInductive DEF IInv
  <2>o. TypeOK /\ LoopThread \in Thread
    BY DEF IInv, Thread
  <2> DEFINE Rest == OwnerPosition /\ QueuedIsAnnounced /\ NoLostQuit /\ WakeupReadSucceeds
  <2>r. Rest
    BY DEF IInv
  <2> SUFFICES Rest'
    BY <2>t DEF IInv
  <2> USE <2>o, <2>r, EventLoopAssumption
      DEF OwnerPosition, QueuedIsAnnounced, NoLostQuit, WakeupReadSucceeds, TypeOK,
          MayCall, InUserCode, OwnerIsFree, isInLoopThread
  <2>1. ASSUME NEW t \in Thread, NEW f \in Functor, queueInLoop(t, f)
        PROVE  Rest'
    BY <2>1 DEF queueInLoop
  <2>2. ASSUME NEW t \in Thread, NEW f \in Functor, runInLoop(t, f)
        PROVE  Rest'
    <3>1. CASE t = LoopThread
      <4>1. /\ MayCall(t)
            /\ running' = Append(running, f)
            /\ UNCHANGED <<pc, looping_, quit_, pendingFunctors_, wakeupFd_, call,
                           callingPendingFunctions_, functors, activeChannels_>>
        BY <2>2, <3>1 DEF runInLoop
      <4> QED
        BY <3>1, <4>1
    <3>2. CASE t # LoopThread
      BY <2>1, <2>2, <3>2 DEF runInLoop
    <3> QED
      BY <3>1, <3>2
  <2>3. ASSUME NEW t \in Thread, queueInLoopWakes(t)
        PROVE  Rest'
    <3>1. CASE t # LoopThread \/ callingPendingFunctions_
      <4>1. wakeup
        BY <2>3, <3>1 DEF queueInLoopWakes
      <4>2. wakeupFd_' > 0
        BY <4>1, WakeupMakesReadable
      <4> QED
        BY <2>3, <4>2 DEF queueInLoopWakes
    <3>2. CASE t = LoopThread /\ ~callingPendingFunctions_
      BY <2>3, <3>2 DEF queueInLoopWakes
    <3> QED
      BY <3>1, <3>2
  <2>4. ASSUME NEW t \in Thread, quit(t)
        PROVE  Rest'
    BY <2>4 DEF quit
  <2>5. ASSUME NEW t \in Thread, quitWakes(t)
        PROVE  Rest'
    <3>1. wakeupFd_' > 0
      BY <2>5, WakeupMakesReadable DEF quitWakes
    <3> QED
      BY <2>5, <3>1 DEF quitWakes
  <2>6. CASE loop
    BY <2>6 DEF loop
  <2>7. CASE loopPolls
    BY <2>7 DEF loopPolls
  <2>8. CASE loopExits
    BY <2>8 DEF loopExits
  <2>9. CASE pollReturns
    BY <2>9 DEF pollReturns
  <2>10. CASE pollTimesOut
    BY <2>10 DEF pollTimesOut
  <2>11. CASE handleRead
    BY <2>11 DEF handleRead
  <2>12. ASSUME NEW c \in IoChannel, handleEvent(c)
         PROVE  Rest'
    BY <2>12 DEF handleEvent
  <2>13. CASE handleEventReturns
    BY <2>13 DEF handleEventReturns
  <2>14. CASE doPendingFunctors
    BY <2>14 DEF doPendingFunctors
  <2>15. CASE swapFunctors
    BY <2>15 DEF swapFunctors
  <2>16. CASE callFunctor
    BY <2>16 DEF callFunctor
  <2>17. CASE callbackReturns
    BY <2>17 DEF callbackReturns
  <2>18. CASE doPendingFunctorsReturns
    BY <2>18 DEF doPendingFunctorsReturns
  <2>19. CASE UNCHANGED vars
    BY <2>19 DEF vars
  <2> HIDE DEF Rest
  <2> QED
    BY <2>1, <2>2, <2>3, <2>4, <2>5, <2>6, <2>7, <2>8, <2>9, <2>10, <2>11,
       <2>12, <2>13, <2>14, <2>15, <2>16, <2>17, <2>18, <2>19
    DEF Next, Owner, Call
<1> QED
  BY <1>1, <1>2, PTL DEF Spec

\* No wake-up is lost, provided that the owner queues nothing before loop().
\* Without the proviso the statement is false.
THEOREM WakeupsAreNotLost ==
  ASSUME ~QueueBeforeLoop
  PROVE  Spec => []NoLostWakeup
<1>1. IInv => NoLostWakeup
  BY DEF IInv, QueuedIsAnnounced, NoLostWakeup
<1> QED
  BY <1>1, Invariant, PTL

\* The owner never sleeps on a quit that nobody is going to announce.
THEOREM QuitsAreNotLost == Spec => []NoLostQuit
<1>1. IInv => NoLostQuit
  BY DEF IInv
<1> QED
  BY <1>1, Invariant, PTL

\* handleRead's read never fails.
THEOREM ReadsSucceed == Spec => []WakeupReadSucceeds
<1>1. IInv => WakeupReadSucceeds
  BY DEF IInv
<1> QED
  BY <1>1, Invariant, PTL

-----------------------------------------------------------------------------
(* The loop implements TaskQueue *)

\* Queued callbacks are run one at a time, in order, each once: every step of
\* the loop is a step of the task queue or changes nothing of it.
THEOREM Refinement == Spec => TasksInOrder
<1>1. Init => Tasks!Init
  <2> SUFFICES ASSUME Init PROVE Tasks!Init
    OBVIOUS
  <2>1. <<>> \o <<>> = <<>>
    OBVIOUS
  <2> QED
    BY <2>1 DEF Init, Tasks!Init
<1>2. IInv /\ [Next]_vars => [Tasks!Next]_(Tasks!vars)
  <2> SUFFICES ASSUME IInv, [Next]_vars
               PROVE  Tasks!Next \/ UNCHANGED Tasks!vars
    OBVIOUS
  <2>0. /\ pendingFunctors_ \in Seq(Functor)
        /\ functors \in Seq(Functor)
        /\ running \in Seq(Functor)
        /\ functors # <<>> => pc = "run"
        /\ running # <<>> => pc \in {"created", "callback", "run"}
    BY DEF IInv, TypeOK, OwnerPosition
  <2> DEFINE queue == functors \o pendingFunctors_
  <2>1. ASSUME NEW t \in Thread, NEW f \in Functor, queueInLoop(t, f)
        PROVE  Tasks!Submit(f)
    <3>1. /\ pendingFunctors_' = Append(pendingFunctors_, f)
          /\ UNCHANGED <<functors, running>>
      BY <2>1 DEF queueInLoop
    <3>2. functors \o Append(pendingFunctors_, f) = Append(queue, f)
      BY <2>0
    <3> QED
      BY <3>1, <3>2 DEF Tasks!Submit
  <2>2. ASSUME NEW t \in Thread, NEW f \in Functor, runInLoop(t, f)
        PROVE  Tasks!Submit(f) \/ Tasks!RunInPlace(f)
    <3>1. CASE isInLoopThread(t)
      <4>1. /\ running' = Append(running, f)
            /\ UNCHANGED <<functors, pendingFunctors_>>
        BY <2>2, <3>1 DEF runInLoop
      <4> QED
        BY <4>1 DEF Tasks!RunInPlace
    <3>2. CASE ~isInLoopThread(t)
      BY <2>1, <2>2, <3>2 DEF runInLoop
    <3> QED
      BY <3>1, <3>2
  <2>3. ASSUME swapFunctors
        PROVE  UNCHANGED Tasks!vars
    <3>1. functors = <<>>
      BY <2>0, <2>3 DEF swapFunctors
    <3>2. /\ functors' = pendingFunctors_
          /\ pendingFunctors_' = <<>>
          /\ UNCHANGED running
      BY <2>3 DEF swapFunctors
    <3>3. <<>> \o pendingFunctors_ = pendingFunctors_ \o <<>>
      BY <2>0, ConcatEmptySeq
    <3> QED
      BY <3>1, <3>2, <3>3 DEF Tasks!vars
  <2>4. ASSUME callFunctor
        PROVE  Tasks!RunOldest
    <3>1. /\ running = <<>>
          /\ functors # <<>>
          /\ running' = <<Head(functors)>>
          /\ functors' = Tail(functors)
          /\ UNCHANGED pendingFunctors_
      BY <2>4 DEF callFunctor, OwnerIsFree
    <3>2. /\ queue # <<>>
          /\ Head(queue) = Head(functors)
          /\ Tail(queue) = Tail(functors) \o pendingFunctors_
      BY <2>0, <3>1
    <3> QED
      BY <3>1, <3>2 DEF Tasks!RunOldest
  <2>5. ASSUME callbackReturns
        PROVE  Tasks!Return
    BY <2>5 DEF callbackReturns, Tasks!Return
  <2>6. ASSUME UNCHANGED <<functors, pendingFunctors_, running>>
        PROVE  UNCHANGED Tasks!vars
    BY <2>6 DEF Tasks!vars
  <2>7. ASSUME NEW t \in Thread, queueInLoopWakes(t) \/ quit(t) \/ quitWakes(t)
        PROVE  UNCHANGED <<functors, pendingFunctors_, running>>
    BY <2>7 DEF queueInLoopWakes, quit, quitWakes
  <2>8. ASSUME \/ loop \/ loopPolls \/ loopExits \/ pollReturns \/ pollTimesOut
               \/ handleRead \/ handleEventReturns \/ doPendingFunctors
               \/ doPendingFunctorsReturns
        PROVE  UNCHANGED <<functors, pendingFunctors_, running>>
    BY <2>8 DEF loop, loopPolls, loopExits, pollReturns, pollTimesOut, handleRead,
                handleEventReturns, doPendingFunctors, doPendingFunctorsReturns
  <2>9. ASSUME NEW c \in IoChannel, handleEvent(c)
        PROVE  UNCHANGED <<functors, pendingFunctors_, running>>
    BY <2>9 DEF handleEvent
  <2>10. ASSUME UNCHANGED vars
         PROVE  UNCHANGED <<functors, pendingFunctors_, running>>
    BY <2>10 DEF vars
  <2> QED
    BY <2>1, <2>2, <2>3, <2>4, <2>5, <2>6, <2>7, <2>8, <2>9, <2>10
    DEF Next, Owner, Call, Tasks!Next
<1> QED
  BY <1>1, <1>2, Invariant, PTL DEF Spec, TasksInOrder, Tasks!Spec
=============================================================================
