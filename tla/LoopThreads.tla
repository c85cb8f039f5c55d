---------------------------- MODULE LoopThreads -----------------------------
(***************************************************************************)
(* An EventLoopThreadPool: the base thread starts the EventLoopThreads one *)
(* after the other, deals their loops out, and destroys the pool; each     *)
(* thread makes an EventLoop on its stack, publishes a pointer to it and   *)
(* runs it.                                                                *)
(*                                                                         *)
(* Of an EventLoop only quit_ is left, and that loop() resets it; a loop   *)
(* that runs and finds quit_ set ends (EventLoop, QuitEndsRunningLoop).    *)
(* What the code does under an EventLoopThread's mutex_ is one step.       *)
(***************************************************************************)
EXTENDS Naturals

CONSTANTS
  numThreads_,
  MaxGiven,     \* bound on the calls of getNextLoop
  QuitByUsers   \* the threads whose loops the user's callbacks may quit

ASSUME LoopThreadsAssumption ==
  /\ numThreads_ \in Nat \ {0}
  /\ MaxGiven \in Nat
  /\ QuitByUsers \subseteq 1..numThreads_

VARIABLES
  pc,        \* where the base thread is, see Places
  cur,       \* the EventLoopThread it is at
  next_,     \* the index of the loop that getNextLoop gives next, from 0
  given,     \* given[i]: how often loop i was given
  at,        \* at[i]: where thread i is, see Stages
  loop_,     \* loop_[i]: whether the member loop_ of i points to its loop
  sleeping,  \* sleeping[i]: the base thread waits on cond_ of i
  quit_,     \* quit_[i]: the field of i's loop
  destroyed  \* the EventLoopThreads that are destroyed

vars == <<pc, cur, next_, given, at, loop_, sleeping, quit_, destroyed>>

Threads == 1..numThreads_

\* create: before startLoop of cur     sem: in sem_wait      wait: in the loop on cond_
\* serve: start() has returned         check: ~EventLoopThread of cur, before its test
\* quit: after the test     wake: in loop_->quit(), quit_ set     join: in thread_.join()
\* gone: the pool is destroyed
Places == {"create", "sem", "wait", "serve", "check", "quit", "wake", "join", "gone"}

\* none: no thread            spawned: tid_ not set        posted: sem_post done
\* made: loop constructed     published: loop_ set, before loop()
\* looping: in loop()         ended: loop() has returned   cleared: loop_ reset
\* returned: the loop is destroyed, threadFunc is left
Stages == {"none", "spawned", "posted", "made", "published", "looping", "ended",
           "cleared", "returned"}

\* i's EventLoop object exists.
Alive(i) == at[i] \in {"made", "published", "looping", "ended", "cleared"}

Init ==
  /\ pc = "create"
  /\ cur = 1
  /\ next_ = 0
  /\ given = [i \in Threads |-> 0]
  /\ at = [i \in Threads |-> "none"]
  /\ loop_ = [i \in Threads |-> FALSE]
  /\ sleeping = [i \in Threads |-> FALSE]
  /\ quit_ = [i \in Threads |-> FALSE]
  /\ destroyed = {}

-----------------------------------------------------------------------------
(* The base thread *)

\* Thread::start: the thread is spawned,
start ==
  /\ pc = "create"
  /\ pc' = "sem"
  /\ at' = [at EXCEPT ![cur] = "spawned"]
  /\ UNCHANGED <<cur, next_, given, loop_, sleeping, quit_, destroyed>>

\* and waited for until it has set tid_.
semWait ==
  /\ pc = "sem"
  /\ at[cur] # "spawned"
  /\ pc' = "wait"
  /\ UNCHANGED <<cur, next_, given, at, loop_, sleeping, quit_, destroyed>>

\* Fault: startLoop takes the first wake-up for the publication.
startLoopWaitsOnce ==
  /\ pc = "wait"
  /\ ~sleeping[cur]
  /\ IF cur = numThreads_ THEN pc' = "serve" /\ UNCHANGED cur
                          ELSE pc' = "create" /\ cur' = cur + 1
  /\ UNCHANGED <<next_, given, at, loop_, sleeping, quit_, destroyed>>

\* startLoop, the lock held: sleep while loop_ is null; otherwise return it.
startLoop ==
  /\ pc = "wait"
  /\ ~sleeping[cur]
  /\ IF loop_[cur]
       THEN /\ IF cur = numThreads_ THEN pc' = "serve" /\ UNCHANGED cur
                                    ELSE pc' = "create" /\ cur' = cur + 1
            /\ UNCHANGED sleeping
       ELSE /\ sleeping' = [sleeping EXCEPT ![cur] = TRUE]
            /\ UNCHANGED <<pc, cur>>
  /\ UNCHANGED <<next_, given, at, loop_, quit_, destroyed>>

\* cond_.wait may return without a notification.
spuriousWakeup(i) ==
  /\ sleeping[i]
  /\ sleeping' = [sleeping EXCEPT ![i] = FALSE]
  /\ UNCHANGED <<pc, cur, next_, given, at, loop_, quit_, destroyed>>

\* Fault: next_ wraps one too late.
getNextLoopWrapsLate ==
  /\ pc = "serve"
  /\ next_ < numThreads_
  /\ given[next_ + 1] < MaxGiven
  /\ given' = [given EXCEPT ![next_ + 1] = @ + 1]
  /\ next_' = IF next_ >= numThreads_ THEN 0 ELSE next_ + 1
  /\ UNCHANGED <<pc, cur, at, loop_, sleeping, quit_, destroyed>>

\* Fault: next_ wraps before the last loop.
getNextLoopSkipsLast ==
  /\ pc = "serve"
  /\ given[next_ + 1] < MaxGiven
  /\ given' = [given EXCEPT ![next_ + 1] = @ + 1]
  /\ next_' = IF next_ + 2 >= numThreads_ THEN 0 ELSE next_ + 1
  /\ UNCHANGED <<pc, cur, at, loop_, sleeping, quit_, destroyed>>

getNextLoop ==
  /\ pc = "serve"
  /\ given[next_ + 1] < MaxGiven
  /\ given' = [given EXCEPT ![next_ + 1] = @ + 1]
  /\ next_' = IF next_ + 1 >= numThreads_ THEN 0 ELSE next_ + 1
  /\ UNCHANGED <<pc, cur, at, loop_, sleeping, quit_, destroyed>>

\* ~EventLoopThreadPool destroys its threads in order.
destroyPool ==
  /\ pc = "serve"
  /\ pc' = "check"
  /\ cur' = 1
  /\ UNCHANGED <<next_, given, at, loop_, sleeping, quit_, destroyed>>

\* ~EventLoopThread of cur is done, with it its thread_, mutex_ and cond_.
Destroys ==
  /\ destroyed' = destroyed \cup {cur}
  /\ IF cur = numThreads_ THEN pc' = "gone" /\ UNCHANGED cur
                          ELSE pc' = "check" /\ cur' = cur + 1

\* ~EventLoopThread reads loop_, not under mutex_; when it is null the thread is
\* detached (~Thread).
checkLoop ==
  /\ pc = "check"
  /\ IF loop_[cur] THEN pc' = "quit" /\ UNCHANGED <<cur, destroyed>> ELSE Destroys
  /\ UNCHANGED <<next_, given, at, loop_, sleeping, quit_>>

\* Fault: the loop is not told to quit.
quitForgotten ==
  /\ pc = "quit"
  /\ pc' = "wake"
  /\ UNCHANGED <<cur, next_, given, at, loop_, sleeping, quit_, destroyed>>

\* loop_->quit() sets quit_,
quit ==
  /\ pc = "quit"
  /\ quit_' = [quit_ EXCEPT ![cur] = TRUE]
  /\ pc' = "wake"
  /\ UNCHANGED <<cur, next_, given, at, loop_, sleeping, destroyed>>

\* and wakes the loop, through the same pointer; that it is needed for the loop to
\* see quit_ is EventLoop's matter.
quitWakes ==
  /\ pc = "wake"
  /\ pc' = "join"
  /\ UNCHANGED <<cur, next_, given, at, loop_, sleeping, quit_, destroyed>>

\* Fault: the thread is detached and not waited for.
joinDetaches ==
  /\ pc = "join"
  /\ Destroys
  /\ UNCHANGED <<next_, given, at, loop_, sleeping, quit_>>

join ==
  /\ pc = "join"
  /\ at[cur] = "returned"
  /\ Destroys
  /\ UNCHANGED <<next_, given, at, loop_, sleeping, quit_>>

-----------------------------------------------------------------------------
(* Thread i *)

Moves(i, from, to) == at[i] = from /\ at' = [at EXCEPT ![i] = to]

\* tid_ is set and the semaphore posted.
semPost(i) ==
  /\ Moves(i, "spawned", "posted")
  /\ UNCHANGED <<pc, cur, next_, given, loop_, sleeping, quit_, destroyed>>

\* EventLoop loop, and the init callback.
makeLoop(i) ==
  /\ Moves(i, "posted", "made")
  /\ UNCHANGED <<pc, cur, next_, given, loop_, sleeping, quit_, destroyed>>

\* Fault: notify_one is missing.
publishSilently(i) ==
  /\ Moves(i, "made", "published")
  /\ loop_' = [loop_ EXCEPT ![i] = TRUE]
  /\ UNCHANGED <<pc, cur, next_, given, sleeping, quit_, destroyed>>

\* loop_ = &loop and cond_.notify_one(), under the lock.
publish(i) ==
  /\ Moves(i, "made", "published")
  /\ loop_' = [loop_ EXCEPT ![i] = TRUE]
  /\ sleeping' = [sleeping EXCEPT ![i] = FALSE]
  /\ UNCHANGED <<pc, cur, next_, given, quit_, destroyed>>

\* loop() begins: it resets quit_.
loop(i) ==
  /\ Moves(i, "published", "looping")
  /\ quit_' = [quit_ EXCEPT ![i] = FALSE]
  /\ UNCHANGED <<pc, cur, next_, given, loop_, sleeping, destroyed>>

\* A user's callback quits the loop its connection was given to.
callbackQuits(i) ==
  /\ i \in QuitByUsers
  /\ given[i] > 0
  /\ at[i] = "looping"
  /\ quit_' = [quit_ EXCEPT ![i] = TRUE]
  /\ UNCHANGED <<pc, cur, next_, given, at, loop_, sleeping, destroyed>>

loopReturns(i) ==
  /\ quit_[i]
  /\ Moves(i, "looping", "ended")
  /\ UNCHANGED <<pc, cur, next_, given, loop_, sleeping, quit_, destroyed>>

\* loop_ = nullptr, under the lock.
clearLoop(i) ==
  /\ Moves(i, "ended", "cleared")
  /\ loop_' = [loop_ EXCEPT ![i] = FALSE]
  /\ UNCHANGED <<pc, cur, next_, given, sleeping, quit_, destroyed>>

\* The lock is released and then the loop destroyed, in this order.
threadReturns(i) ==
  /\ Moves(i, "cleared", "returned")
  /\ UNCHANGED <<pc, cur, next_, given, loop_, sleeping, quit_, destroyed>>

-----------------------------------------------------------------------------

Base ==
  \/ start \/ semWait \/ startLoop \/ getNextLoop
  \/ destroyPool \/ checkLoop \/ quit \/ quitWakes \/ join

threadFunc(i) ==
  \/ semPost(i) \/ makeLoop(i) \/ publish(i) \/ loop(i)
  \/ loopReturns(i) \/ clearLoop(i) \/ threadReturns(i)

Next ==
  \/ Base
  \/ \E i \in Threads : threadFunc(i) \/ callbackQuits(i) \/ spuriousWakeup(i)

Spec == Init /\ [][Next]_vars

\* Runnable threads run.  Nobody need destroy the pool or quit a loop, and cond_
\* need not wake up by itself.
Fairness ==
  /\ WF_vars(start \/ semWait \/ startLoop \/ checkLoop \/ quit \/ quitWakes \/ join)
  /\ \A i \in Threads : WF_vars(threadFunc(i))

FairSpec == Spec /\ Fairness

-----------------------------------------------------------------------------
(* Properties *)

\* Every variable has its type.  (EventLoopThread.h, EventLoopThreadPool.h)
TypeOK ==
  /\ pc \in Places
  /\ cur \in Threads
  /\ next_ \in 0..(numThreads_ - 1)
  /\ given \in [Threads -> 0..MaxGiven]
  /\ at \in [Threads -> Stages]
  /\ loop_ \in [Threads -> BOOLEAN]
  /\ sleeping \in [Threads -> BOOLEAN]
  /\ quit_ \in [Threads -> BOOLEAN]
  /\ destroyed \subseteq Threads

\* Every loop that getNextLoop can give is there, whatever woke startLoop up, and
\* the one ~EventLoopThread is about to quit is, too; unless a user has quit it.
\* (EventLoopThread.cc:19-22 reads and uses loop_ without the mutex.)
LoopsInUseAreAlive ==
  \A i \in Threads \ QuitByUsers :
    /\ pc = "serve" => Alive(i)
    /\ pc = "quit" /\ cur = i => Alive(i) /\ loop_[i]

\* A thread has left threadFunc before mutex_ and cond_, which it uses last, are
\* destroyed (EventLoopThread.cc:23), unless a user has quit its loop.
ThreadEndsFirst == \A i \in destroyed \ QuitByUsers : at[i] = "returned"

\* Connections are dealt out evenly.
DealtEvenly == \A i, j \in Threads : given[i] <= given[j] + 1

\* start() returns: the notification of the new loop is not missed.
StartReturns == <>(pc = "serve")

\* A loop that runs when it is told to quit ends, and its thread is joined.
RunningLoopIsJoined ==
  \A i \in Threads : (pc = "quit" /\ cur = i /\ at[i] = "looping") ~> (i \in destroyed)

\* The loop is still there when quit() wakes it, quit_ being set: ~EventLoopThread
\* (EventLoopThread.cc:21) keeps it by nothing.
QuitUsesLiveLoop == pc = "wake" => Alive(cur)

\* ~EventLoopThread "exits the thread's event loop" (EventLoopThread.cc:15): the
\* destruction of the pool ends, however soon after start() it begins.
DestructionEnds == (pc = "check") ~> (pc = "gone")
=============================================================================
