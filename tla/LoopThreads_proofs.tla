------------------------- MODULE LoopThreads_proofs -------------------------
(***************************************************************************)
(* The safety properties of LoopThreads hold for any number of threads,    *)
(* whichever loops users quit.                                             *)
(***************************************************************************)
EXTENDS LoopThreads, TLAPS

USE LoopThreadsAssumption

\* The stages from the publication of the loop on, and those after its loop().
Published == {"published", "looping", "ended", "cleared", "returned"}
Over      == {"ended", "cleared", "returned"}

\* loop_ points to the loop from publish to clearLoop.
LoopPoints == \A i \in Threads : loop_[i] <=> at[i] \in {"published", "looping", "ended"}

\* start() has got past the threads before cur, and not to those behind it.
StartedInOrder ==
  /\ pc \in {"create", "sem", "wait"} =>
       /\ \A i \in Threads : i < cur => at[i] \in Published
       /\ \A i \in Threads : i > cur => at[i] = "none"
       /\ at[cur] = "none" <=> pc = "create"
  /\ pc \notin {"create", "sem", "wait"} => \A i \in Threads : at[i] \in Published

\* The destructor has got past the threads before cur.
DestroyedInOrder ==
  /\ pc \in {"create", "sem", "wait", "serve"} => destroyed = {}
  /\ pc \in {"check", "quit", "wake", "join"} => destroyed = {i \in Threads : i < cur}

\* A loop that no user quits is quit by the destructor only, and ends after that.
QuitByDestructor ==
  \A i \in Threads \ QuitByUsers :
    \/ ~quit_[i] /\ at[i] \notin Over
    \/ pc \in {"wake", "join"} /\ cur = i
    \/ i \in destroyed

\* getNextLoop has given the loops before next_ once more than the others.
DealtInTurn ==
  \E k \in Nat : \A i \in Threads : given[i] = IF i <= next_ THEN k + 1 ELSE k

IInv ==
  /\ TypeOK
  /\ LoopPoints
  /\ StartedInOrder
  /\ DestroyedInOrder
  /\ QuitByDestructor
  /\ ThreadEndsFirst

-----------------------------------------------------------------------------
(* Types *)

\* The variables have their types at first.
LEMMA InitTypes == Init => TypeOK
  BY DEF Init, TypeOK, Threads, Places, Stages

\* Every step keeps them.
LEMMA NextTypes == TypeOK /\ [Next]_vars => TypeOK'
<1> SUFFICES ASSUME TypeOK, [Next]_vars PROVE TypeOK'
  OBVIOUS
<1> USE DEF TypeOK, Threads, Places, Stages
<1>1. CASE start
  BY <1>1 DEF start
<1>2. CASE semWait
  BY <1>2 DEF semWait
<1>3. CASE startLoop
  <2>1. CASE loop_[cur]
    BY <1>3, <2>1 DEF startLoop
  <2>2. CASE ~loop_[cur]
    BY <1>3, <2>2 DEF startLoop
  <2> QED
    BY <2>1, <2>2
<1>4. CASE getNextLoop
  <2>1. next_ + 1 \in Threads /\ given[next_ + 1] + 1 \in 0..MaxGiven
    BY <1>4 DEF getNextLoop
  <2> QED
    BY <1>4, <2>1 DEF getNextLoop
<1>5. CASE destroyPool
  BY <1>5 DEF destroyPool
<1>6. CASE checkLoop
  <2>1. CASE loop_[cur]
    BY <1>6, <2>1 DEF checkLoop
  <2>2. CASE ~loop_[cur]
    <3>1. Destroys /\ UNCHANGED <<next_, given, at, loop_, sleeping, quit_>>
      BY <1>6, <2>2 DEF checkLoop
    <3>2. destroyed' \subseteq Threads
      BY <3>1 DEF Destroys
    <3>3. pc' \in Places /\ cur' \in Threads
      BY <3>1 DEF Destroys
    <3> QED
      BY <3>1, <3>2, <3>3
  <2> QED
    BY <2>1, <2>2
<1>7. CASE quit
  BY <1>7 DEF quit
<1>8. CASE quitWakes
  BY <1>8 DEF quitWakes
<1>9. CASE join
  BY <1>9 DEF join, Destroys
<1>10. ASSUME NEW i \in Threads, threadFunc(i) PROVE TypeOK'
  BY <1>10, ZenonT(60) DEF threadFunc, Moves, semPost, makeLoop, publish, loop, loopReturns, clearLoop,
               threadReturns
<1>11. ASSUME NEW i \in Threads, callbackQuits(i) \/ spuriousWakeup(i) PROVE TypeOK'
  BY <1>11 DEF callbackQuits, spuriousWakeup
<1>12. CASE UNCHANGED vars
  BY <1>12 DEF vars
<1> QED
  BY <1>1, <1>2, <1>3, <1>4, <1>5, <1>6, <1>7, <1>8, <1>9, <1>10, <1>11, <1>12 DEF Next, Base

\* The variables of the pool and its threads always have their types.
THEOREM TypeCorrect == Spec => []TypeOK
  BY InitTypes, NextTypes, PTL DEF Spec

-----------------------------------------------------------------------------
(* Even dealing *)

\* One more loop is given.
LEMMA GivingInTurn == TypeOK /\ DealtInTurn /\ getNextLoop => DealtInTurn'
<1> SUFFICES ASSUME TypeOK, DealtInTurn, getNextLoop PROVE DealtInTurn'
  OBVIOUS
<1> PICK k \in Nat : \A i \in Threads : given[i] = IF i <= next_ THEN k + 1 ELSE k
  BY DEF DealtInTurn
<1>1. \A i \in Threads : given'[i] = IF i <= next_ + 1 THEN k + 1 ELSE k
  BY DEF getNextLoop, TypeOK, Threads
<1>2. CASE next_ + 1 >= numThreads_
  <2>1. next_' = 0 /\ \A i \in Threads : given'[i] = k + 1
    BY <1>1, <1>2 DEF getNextLoop, TypeOK, Threads
  <2> QED
    BY <2>1 DEF DealtInTurn, Threads
<1>3. CASE ~(next_ + 1 >= numThreads_)
  BY <1>1, <1>3 DEF getNextLoop, DealtInTurn, TypeOK
<1> QED
  BY <1>2, <1>3

\* What users get is even: no loop is ever two connections ahead of another.
THEOREM EvenDealing == Spec => []DealtEvenly
<1>1. Init => DealtInTurn
  BY DEF Init, DealtInTurn, Threads
<1>2. TypeOK /\ DealtInTurn /\ [Next]_vars => DealtInTurn'
  <2>1. ASSUME [Next]_vars, ~getNextLoop PROVE UNCHANGED <<next_, given>>
    BY <2>1 DEF Next, Base, vars, start, semWait, startLoop, destroyPool, checkLoop, Destroys, quit,
                quitWakes, join, threadFunc, Moves, semPost, makeLoop, publish, loop, loopReturns,
                clearLoop, threadReturns, callbackQuits, spuriousWakeup
  <2>2. ASSUME DealtInTurn, UNCHANGED <<next_, given>> PROVE DealtInTurn'
    BY <2>2 DEF DealtInTurn
  <2> QED
    BY <2>1, <2>2, GivingInTurn
<1>3. TypeOK /\ DealtInTurn => DealtEvenly
  BY DEF DealtInTurn, DealtEvenly, TypeOK
<1> QED
  BY <1>1, <1>2, <1>3, TypeCorrect, PTL DEF Spec

-----------------------------------------------------------------------------
(* The order of publication, use and destruction *)

\* The order holds at first.
LEMMA InitOrder == Init => IInv
  BY InitTypes DEF Init, IInv, TypeOK, LoopPoints, StartedInOrder, DestroyedInOrder,
                   QuitByDestructor, ThreadEndsFirst, Threads, Over

\* The base thread's steps keep the order.
LEMMA BaseOrder == IInv /\ Base => IInv'
<1> SUFFICES ASSUME IInv, Base PROVE IInv'
  OBVIOUS
<1>0. TypeOK'
  BY NextTypes DEF IInv, Next
<1> USE DEF Threads, TypeOK, LoopPoints, StartedInOrder, DestroyedInOrder, QuitByDestructor,
            ThreadEndsFirst, Published, Over
<1>1. CASE start
  BY <1>0, <1>1 DEF start, IInv
<1>2. CASE semWait
  BY <1>0, <1>2 DEF semWait, IInv
<1>3. CASE startLoop
  BY <1>0, <1>3, SMTT(30) DEF startLoop, IInv
<1>4. CASE getNextLoop
  BY <1>0, <1>4 DEF getNextLoop, IInv
<1>5. CASE destroyPool
  <2>1. pc' = "check" /\ cur' = 1 /\ UNCHANGED <<at, loop_, quit_, destroyed>> /\ destroyed = {}
    BY <1>5 DEF destroyPool, IInv
  <2>2. DestroyedInOrder'
    BY <2>1
  <2>3. StartedInOrder' /\ LoopPoints' /\ ThreadEndsFirst'
    BY <1>5, <2>1 DEF destroyPool, IInv
  <2>4. QuitByDestructor'
    BY <1>5, <2>1 DEF destroyPool, IInv
  <2> QED
    BY <1>0, <2>2, <2>3, <2>4 DEF IInv
<1>6. CASE checkLoop
  <2>1. CASE loop_[cur]
    BY <1>0, <1>6, <2>1 DEF checkLoop, IInv
  <2>2. CASE ~loop_[cur]
    <3>1. cur \in QuitByUsers
      BY <1>6, <2>2 DEF checkLoop, IInv
    <3>2. destroyed' = destroyed \cup {cur} /\ UNCHANGED <<at, loop_, quit_>>
      BY <1>6, <2>2 DEF checkLoop, Destroys
    <3>3. ThreadEndsFirst' /\ LoopPoints'
      BY <3>1, <3>2 DEF IInv
    <3>4. StartedInOrder' /\ DestroyedInOrder' /\ QuitByDestructor'
      BY <1>6, <2>2, <3>2 DEF checkLoop, Destroys, IInv
    <3> QED
      BY <1>0, <3>3, <3>4 DEF IInv
  <2> QED
    BY <2>1, <2>2
<1>7. CASE quit
  BY <1>0, <1>7 DEF quit, IInv
<1>8. CASE quitWakes
  BY <1>0, <1>8 DEF quitWakes, IInv
<1>9. CASE join
  BY <1>0, <1>9 DEF join, Destroys, IInv
<1> QED
  BY <1>1, <1>2, <1>3, <1>4, <1>5, <1>6, <1>7, <1>8, <1>9 DEF Base

\* So do those of the threads,
LEMMA ThreadOrder ==
  ASSUME NEW i \in Threads, IInv, threadFunc(i) PROVE IInv'
<1>0. TypeOK'
  BY NextTypes DEF IInv, Next
<1> USE DEF Threads, TypeOK, LoopPoints, StartedInOrder, DestroyedInOrder, QuitByDestructor,
            ThreadEndsFirst, Published, Over, Moves
<1>1. CASE semPost(i)
  BY <1>0, <1>1 DEF semPost, IInv
<1>2. CASE makeLoop(i)
  BY <1>0, <1>2, SMTT(30) DEF makeLoop, IInv
<1>3. CASE publish(i)
  BY <1>0, <1>3 DEF publish, IInv
<1>4. CASE loop(i)
  BY <1>0, <1>4, SMTT(30) DEF loop, IInv
<1>5. CASE loopReturns(i)
  BY <1>0, <1>5, SMTT(30) DEF loopReturns, IInv
<1>6. CASE clearLoop(i)
  BY <1>0, <1>6, SMTT(30) DEF clearLoop, IInv
<1>7. CASE threadReturns(i)
  BY <1>0, <1>7, SMTT(30) DEF threadReturns, IInv
<1> QED
  BY <1>1, <1>2, <1>3, <1>4, <1>5, <1>6, <1>7 DEF threadFunc

\* and the users' calls, spurious wake-ups and stuttering.
LEMMA OtherOrder ==
  ASSUME IInv, (\E i \in Threads : callbackQuits(i) \/ spuriousWakeup(i)) \/ UNCHANGED vars
  PROVE  IInv'
<1>0. TypeOK'
  BY NextTypes DEF IInv, Next
<1> USE DEF Threads, TypeOK, LoopPoints, StartedInOrder, DestroyedInOrder, QuitByDestructor,
            ThreadEndsFirst, Published, Over
<1>1. ASSUME NEW i \in Threads, callbackQuits(i) PROVE IInv'
  BY <1>0, <1>1 DEF callbackQuits, IInv
<1>2. ASSUME NEW i \in Threads, spuriousWakeup(i) PROVE IInv'
  BY <1>0, <1>2 DEF spuriousWakeup, IInv
<1>3. CASE UNCHANGED vars
  BY <1>0, <1>3 DEF vars, IInv
<1> QED
  BY <1>1, <1>2, <1>3

\* The threads are published, used and destroyed in this order, always.
THEOREM Order == Spec => []IInv
<1>1. IInv /\ [Next]_vars => IInv'
  BY BaseOrder, ThreadOrder, OtherOrder DEF Next
<1> QED
  BY <1>1, InitOrder, PTL DEF Spec

\* Users get loops that exist, and the destructor uses one that exists, in spite
\* of its unlocked test of loop_.
THEOREM LoopsInUseLive == Spec => []LoopsInUseAreAlive
<1>1. ASSUME IInv, NEW i \in Threads \ QuitByUsers, pc \in {"serve", "quit"}, i \notin destroyed
      PROVE  Alive(i) /\ loop_[i]
  BY <1>1 DEF IInv, StartedInOrder, QuitByDestructor, LoopPoints, Published, Over, Alive
<1>2. ASSUME IInv PROVE LoopsInUseAreAlive
  <2>1. pc = "serve" => destroyed = {}
    BY <1>2 DEF IInv, DestroyedInOrder
  <2>2. pc = "quit" => cur \notin destroyed
    BY <1>2 DEF IInv, DestroyedInOrder, TypeOK, Threads
  <2> QED
    BY <1>1, <1>2, <2>1, <2>2 DEF LoopsInUseAreAlive
<1> QED
  BY <1>2, Order, PTL

\* No thread outlives the mutex and the condition variable it uses last.
THEOREM ThreadsEndFirst == Spec => []ThreadEndsFirst
<1>1. IInv => ThreadEndsFirst
  BY DEF IInv
<1> QED
  BY <1>1, Order, PTL
=============================================================================
