----------------------------- MODULE EventLoop -----------------------------
(***************************************************************************)
(* One EventLoop object: the thread that owns it and runs loop(), the      *)
(* other threads that call queueInLoop, runInLoop and quit on it, the      *)
(* vector pendingFunctors_ behind its mutex, and the eventfd that wakes    *)
(* the owner out of epoll_wait.                                            *)
(*                                                                         *)
(* The owner's position in loop() is pc.  A call another thread makes is   *)
(* split where the code lets go of the lock or of an atomic: the queue is  *)
(* extended (or quit_ set) in one step, the eventfd is written in a later  *)
(* one, and the owner may do anything in between.                          *)
(***************************************************************************)
EXTENDS Naturals, Sequences

CONSTANTS
  Callers,         \* threads other than the owner that hold a pointer to the loop
  LoopThread,      \* the owner: the thread whose tid is threadId_
  Functor,         \* the callbacks that are passed to the loop
  IoChannel,       \* the channels of the poller other than wakeupChannel_
  WakeupChannel,   \* wakeupChannel_
  EventfdMax,      \* counter value at which a write to the eventfd gets EAGAIN
  MaxPending,      \* bound on the length of pendingFunctors_
  MaxDepth,        \* bound on the nesting of callbacks run in place
  QueueBeforeLoop  \* whether the owner may call queueInLoop before loop()

ASSUME EventLoopAssumption ==
  /\ LoopThread \notin Callers
  /\ WakeupChannel \notin IoChannel
  /\ EventfdMax \in Nat \ {0}
  /\ MaxPending \in Nat
  /\ MaxDepth \in Nat
  /\ QueueBeforeLoop \in BOOLEAN

VARIABLES
  pc,                       \* where the owner is in loop(), see Locations
  looping_,
  quit_,
  pendingFunctors_,         \* queued callbacks, guarded by mutex_
  callingPendingFunctions_,
  functors,                 \* what doPendingFunctors swapped out and has not called
  running,                  \* callbacks the owner is inside of, outermost first
  activeChannels_,          \* reported by the last poll and not handled yet
  wakeupFd_,                \* the counter of the eventfd
  call                      \* call[t]: what t has yet to do in queueInLoop or quit

vars == <<pc, looping_, quit_, pendingFunctors_, callingPendingFunctions_,
          functors, running, activeChannels_, wakeupFd_, call>>

Thread == Callers \cup {LoopThread}

\* created:  before loop()                exited:   loop() returned
\* check:    at while(!quit_)             poll:     in epoll_wait
\* dispatch: between two active channels  callback: inside an I/O channel's handler
\* swap:     about to swap the vectors    run:      calling the functors
Locations ==
  {"created", "check", "poll", "dispatch", "callback", "swap", "run", "exited"}

isInLoopThread(t) == t = LoopThread

\* The owner executes code of the library's user: before loop(), in an I/O
\* callback, or in a functor.
InUserCode == pc \in {"created", "callback"} \/ running # <<>>

\* t may enter a member function of the loop.
MayCall(t) ==
  /\ call[t] = "none"
  /\ isInLoopThread(t) => InUserCode

\* The owner is back in its own loop: it is in no functor and in no call.
OwnerIsFree == call[LoopThread] = "none" /\ running = <<>>

Init ==
  /\ pc = "created"
  /\ looping_ = FALSE
  /\ quit_ = FALSE
  /\ pendingFunctors_ = <<>>
  /\ callingPendingFunctions_ = FALSE
  /\ functors = <<>>
  /\ running = <<>>
  /\ activeChannels_ = {}
  /\ wakeupFd_ = 0
  /\ call = [t \in Thread |-> "none"]

-----------------------------------------------------------------------------
(* Calls, by any thread *)

\* Fault: the write is taken to succeed always.
wakeupUnlimited == wakeupFd_' = wakeupFd_ + 1

\* write(wakeupFd_, 1): adds to the counter, or fails with EAGAIN when it is full.
wakeup == wakeupFd_' = IF wakeupFd_ < EventfdMax THEN wakeupFd_ + 1 ELSE wakeupFd_

\* The locked part of queueInLoop.
queueInLoop(t, f) ==
  /\ MayCall(t)
  /\ (isInLoopThread(t) /\ pc = "created") => QueueBeforeLoop
  /\ Len(pendingFunctors_) < MaxPending
  /\ pendingFunctors_' = Append(pendingFunctors_, f)
  /\ call' = [call EXCEPT ![t] = "queued"]
  /\ UNCHANGED <<pc, looping_, quit_, callingPendingFunctions_, functors,
                 running, activeChannels_, wakeupFd_>>

\* Fault: `|| callingPendingFunctions_' is missing.
queueInLoopWakesOthersOnly(t) ==
  /\ call[t] = "queued"
  /\ call' = [call EXCEPT ![t] = "none"]
  /\ IF ~isInLoopThread(t) THEN wakeup ELSE UNCHANGED wakeupFd_
  /\ UNCHANGED <<pc, looping_, quit_, pendingFunctors_, callingPendingFunctions_,
                 functors, running, activeChannels_>>

\* The rest of queueInLoop: wake the owner unless it is known to be awake.
queueInLoopWakes(t) ==
  /\ call[t] = "queued"
  /\ call' = [call EXCEPT ![t] = "none"]
  /\ IF ~isInLoopThread(t) \/ callingPendingFunctions_
       THEN wakeup
       ELSE UNCHANGED wakeupFd_
  /\ UNCHANGED <<pc, looping_, quit_, pendingFunctors_, callingPendingFunctions_,
                 functors, running, activeChannels_>>

\* runInLoop: the owner calls cb at once, any other thread queues it.
runInLoop(t, f) ==
  IF isInLoopThread(t)
    THEN /\ MayCall(t)
         /\ Len(running) < MaxDepth
         /\ running' = Append(running, f)
         /\ UNCHANGED <<pc, looping_, quit_, pendingFunctors_, wakeupFd_, call,
                        callingPendingFunctions_, functors, activeChannels_>>
    ELSE queueInLoop(t, f)

\* Fault: quit wakes nobody.
quitSilently(t) ==
  /\ MayCall(t)
  /\ quit_' = TRUE
  /\ UNCHANGED <<pc, looping_, pendingFunctors_, callingPendingFunctions_,
                 functors, running, activeChannels_, wakeupFd_, call>>

\* quit sets quit_; a thread other than the owner still has to wake the owner.
quit(t) ==
  /\ MayCall(t)
  /\ quit_' = TRUE
  /\ call' = [call EXCEPT ![t] = IF isInLoopThread(t) THEN "none" ELSE "quitting"]
  /\ UNCHANGED <<pc, looping_, pendingFunctors_, callingPendingFunctions_,
                 functors, running, activeChannels_, wakeupFd_>>

quitWakes(t) ==
  /\ call[t] = "quitting"
  /\ call' = [call EXCEPT ![t] = "none"]
  /\ wakeup
  /\ UNCHANGED <<pc, looping_, quit_, pendingFunctors_, callingPendingFunctions_,
                 functors, running, activeChannels_>>

-----------------------------------------------------------------------------
(* The owner: loop() and doPendingFunctors() *)

loop ==
  /\ pc = "created"
  /\ OwnerIsFree
  /\ pc' = "check"
  /\ looping_' = TRUE
  /\ quit_' = FALSE
  /\ UNCHANGED <<pendingFunctors_, callingPendingFunctions_, functors, running,
                 activeChannels_, wakeupFd_, call>>

\* while(!quit_) holds: activeChannels_ is cleared and poll entered.
loopPolls ==
  /\ pc = "check"
  /\ ~quit_
  /\ pc' = "poll"
  /\ activeChannels_' = {}
  /\ UNCHANGED <<looping_, quit_, pendingFunctors_, callingPendingFunctions_,
                 functors, running, wakeupFd_, call>>

loopExits ==
  /\ pc = "check"
  /\ quit_
  /\ pc' = "exited"
  /\ looping_' = FALSE
  /\ UNCHANGED <<quit_, pendingFunctors_, callingPendingFunctions_, functors,
                 running, activeChannels_, wakeupFd_, call>>

\* epoll_wait reports some of the ready channels: any I/O channel may be ready,
\* the wake-up channel is as long as its counter is not zero.  Not all ready
\* channels need fit in the event list.
pollReturns ==
  /\ pc = "poll"
  /\ pc' = "dispatch"
  /\ \E ready \in SUBSET (IoChannel \cup {WakeupChannel}) :
       /\ ready # {}
       /\ WakeupChannel \in ready => wakeupFd_ > 0
       /\ activeChannels_' = ready
  /\ UNCHANGED <<looping_, quit_, pendingFunctors_, callingPendingFunctions_,
                 functors, running, wakeupFd_, call>>

\* Fault: the event list is read although epoll_wait has filled in nothing.
pollTimesOutReadsStaleEvents ==
  /\ pc = "poll"
  /\ wakeupFd_ = 0
  /\ pc' = "dispatch"
  /\ activeChannels_' = {WakeupChannel}
  /\ UNCHANGED <<looping_, quit_, pendingFunctors_, callingPendingFunctions_,
                 functors, running, wakeupFd_, call>>

\* kPollTimeMs passed, or a signal, with nothing ready.
pollTimesOut ==
  /\ pc = "poll"
  /\ wakeupFd_ = 0
  /\ pc' = "dispatch"
  /\ UNCHANGED <<looping_, quit_, pendingFunctors_, callingPendingFunctions_,
                 functors, running, activeChannels_, wakeupFd_, call>>

\* EventLoop::handleRead: reading an eventfd takes the whole counter.
handleRead ==
  /\ pc = "dispatch"
  /\ WakeupChannel \in activeChannels_
  /\ activeChannels_' = activeChannels_ \ {WakeupChannel}
  /\ wakeupFd_' = 0
  /\ UNCHANGED <<pc, looping_, quit_, pendingFunctors_, callingPendingFunctions_,
                 functors, running, call>>

\* Another channel's handleEvent, entered and left.
handleEvent(c) ==
  /\ pc = "dispatch"
  /\ c \in activeChannels_
  /\ activeChannels_' = activeChannels_ \ {c}
  /\ pc' = "callback"
  /\ UNCHANGED <<looping_, quit_, pendingFunctors_, callingPendingFunctions_,
                 functors, running, wakeupFd_, call>>

handleEventReturns ==
  /\ pc = "callback"
  /\ OwnerIsFree
  /\ pc' = "dispatch"
  /\ UNCHANGED <<looping_, quit_, pendingFunctors_, callingPendingFunctions_,
                 functors, running, activeChannels_, wakeupFd_, call>>

\* doPendingFunctors up to the lock.
doPendingFunctors ==
  /\ pc = "dispatch"
  /\ activeChannels_ = {}
  /\ pc' = "swap"
  /\ callingPendingFunctions_' = TRUE
  /\ UNCHANGED <<looping_, quit_, pendingFunctors_, functors, running,
                 activeChannels_, wakeupFd_, call>>

\* Fault: the vector is copied, not swapped.
swapFunctorsCopies ==
  /\ pc = "swap"
  /\ pc' = "run"
  /\ functors' = pendingFunctors_
  /\ UNCHANGED <<looping_, quit_, pendingFunctors_, callingPendingFunctions_, running,
                 activeChannels_, wakeupFd_, call>>

\* functors.swap(pendingFunctors_), under the lock.
swapFunctors ==
  /\ pc = "swap"
  /\ pc' = "run"
  /\ functors' = pendingFunctors_
  /\ pendingFunctors_' = <<>>
  /\ UNCHANGED <<looping_, quit_, callingPendingFunctions_, running,
                 activeChannels_, wakeupFd_, call>>

\* The next functor is called.
callFunctor ==
  /\ pc = "run"
  /\ OwnerIsFree
  /\ functors # <<>>
  /\ running' = <<Head(functors)>>
  /\ functors' = Tail(functors)
  /\ UNCHANGED <<pc, looping_, quit_, pendingFunctors_, callingPendingFunctions_,
                 activeChannels_, wakeupFd_, call>>

\* A callback returns, to the caller of runInLoop or to doPendingFunctors.
callbackReturns ==
  /\ running # <<>>
  /\ call[LoopThread] = "none"
  /\ running' = SubSeq(running, 1, Len(running) - 1)
  /\ UNCHANGED <<pc, looping_, quit_, pendingFunctors_, callingPendingFunctions_,
                 functors, activeChannels_, wakeupFd_, call>>

\* Fault: doPendingFunctors goes on until the queue is empty.
doPendingFunctorsDrains ==
  /\ pc = "run"
  /\ OwnerIsFree
  /\ functors = <<>>
  /\ callingPendingFunctions_' = (pendingFunctors_ # <<>>)
  /\ pc' = IF pendingFunctors_ = <<>> THEN "check" ELSE "swap"
  /\ UNCHANGED <<looping_, quit_, pendingFunctors_, functors, running,
                 activeChannels_, wakeupFd_, call>>

\* All functors of the batch were called.
doPendingFunctorsReturns ==
  /\ pc = "run"
  /\ OwnerIsFree
  /\ functors = <<>>
  /\ callingPendingFunctions_' = FALSE
  /\ pc' = "check"
  /\ UNCHANGED <<looping_, quit_, pendingFunctors_, functors, running,
                 activeChannels_, wakeupFd_, call>>

-----------------------------------------------------------------------------

Owner ==
  \/ loop \/ loopPolls \/ loopExits
  \/ pollReturns \/ pollTimesOut
  \/ handleRead \/ (\E c \in IoChannel : handleEvent(c)) \/ handleEventReturns
  \/ doPendingFunctors \/ swapFunctors \/ callFunctor \/ callbackReturns
  \/ doPendingFunctorsReturns

Call(t) ==
  \/ \E f \in Functor : queueInLoop(t, f) \/ runInLoop(t, f)
  \/ queueInLoopWakes(t)
  \/ quit(t)
  \/ quitWakes(t)

Next == Owner \/ \E t \in Thread : Call(t)

Spec == Init /\ [][Next]_vars

(***************************************************************************)
(* Fairness.  A runnable thread runs: the owner's own steps and the second *)
(* half of a call that has begun are weakly fair.  epoll_wait returns once *)
(* the eventfd is readable.  User code is assumed to terminate: the owner  *)
(* calls loop(), a functor and an I/O callback return, however many calls  *)
(* they make (strong fairness, because each call in progress disables the  *)
(* return).  Nothing is assumed of I/O events, of the poll timeout, or of  *)
(* anyone starting a new call.                                             *)
(***************************************************************************)
Fairness ==
  /\ SF_vars(loop)
  /\ WF_vars(loopPolls \/ loopExits)
  /\ WF_vars(pollReturns /\ wakeupFd_ > 0)
  /\ WF_vars(handleRead \/ \E c \in IoChannel : handleEvent(c))
  /\ SF_vars(handleEventReturns)
  /\ WF_vars(doPendingFunctors)
  /\ WF_vars(swapFunctors)
  /\ WF_vars(callFunctor)
  /\ SF_vars(callbackReturns /\ Len(running) = 1)
  /\ WF_vars(callbackReturns)
  /\ WF_vars(doPendingFunctorsReturns)
  /\ \A t \in Thread : WF_vars(queueInLoopWakes(t) \/ quitWakes(t))

FairSpec == Spec /\ Fairness

-----------------------------------------------------------------------------
(* Properties *)

\* Every variable has its type.  (EventLoop.h:58-74)
TypeOK ==
  /\ pc \in Locations
  /\ looping_ \in BOOLEAN
  /\ quit_ \in BOOLEAN
  /\ pendingFunctors_ \in Seq(Functor)
  /\ callingPendingFunctions_ \in BOOLEAN
  /\ functors \in Seq(Functor)
  /\ running \in Seq(Functor)
  /\ activeChannels_ \in SUBSET (IoChannel \cup {WakeupChannel})
  /\ wakeupFd_ \in 0..EventfdMax
  /\ call \in [Thread -> {"none", "queued", "quitting"}]

\* No wake-up is lost: while the owner sleeps in epoll_wait with callbacks
\* queued, the eventfd is readable or a thread in queueInLoop is about to make
\* it so.  This is what the test `!isInLoopThread() || callingPendingFunctions_`
\* and the position of callingPendingFunctions_ around the swap must achieve.
NoLostWakeup ==
  (pc = "poll" /\ pendingFunctors_ # <<>>) =>
    wakeupFd_ > 0 \/ \E t \in Thread : call[t] = "queued"

\* Nor is a quit lost while the loop runs: the owner never sleeps on a quit_
\* that nobody is going to announce.
NoLostQuit ==
  (pc = "poll" /\ quit_) =>
    wakeupFd_ > 0 \/ \E t \in Thread : call[t] = "quitting"

\* The counter is read only when it is not zero, so that the 8-byte read in
\* handleRead never fails: it is reset by nobody between epoll_wait and the
\* handler.
WakeupReadSucceeds == WakeupChannel \in activeChannels_ => wakeupFd_ > 0

\* The loop runs queued callbacks one at a time, in order, each once: a batch
\* that was swapped out comes before everything queued since.
Tasks == INSTANCE TaskQueue WITH
  Task <- Functor, queue <- functors \o pendingFunctors_

TasksInOrder == Tasks!Spec

\* A queued callback is called, without waiting for the poll timeout and
\* whatever the I/O channels do, unless somebody quits the loop.
QueuedIsCalled ==
  \A f \in Functor :
    (\E i \in DOMAIN pendingFunctors_ : pendingFunctors_[i] = f)
      ~> (quit_ \/ \E i \in DOMAIN running : running[i] = f)

\* A batch ends even if its callbacks keep queueing new ones: that is why
\* doPendingFunctors swaps, and the poller is not starved.
BatchEnds == (pc = "swap") ~> (pc = "check")

\* A quit that is seen while the loop runs ends it.
QuitEndsRunningLoop == (quit_ /\ pc # "created") ~> (pc = "exited")

\* queueInLoop "puts cb in the queue, wakes the loop's thread and executes cb"
\* (EventLoop.h:34): no callback is left when the loop has ended.
NoneLeftAtExit == pc = "exited" => pendingFunctors_ = <<>>
=============================================================================
