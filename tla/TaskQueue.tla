----------------------------- MODULE TaskQueue -----------------------------
(***************************************************************************)
(* What an EventLoop promises to the threads that hand it callbacks, with  *)
(* nothing said of polling, wake-ups, locks or quitting: tasks that were   *)
(* queued are started one at a time, in the order in which they were       *)
(* queued, each one once; a task run in place by the loop's own thread     *)
(* runs nested inside whatever that thread is doing.                       *)
(*                                                                         *)
(* EventLoop implements this specification: see Tasks in EventLoop.tla.    *)
(***************************************************************************)
EXTENDS Naturals, Sequences

CONSTANT Task

VARIABLES
  queue,    \* tasks accepted and not started, oldest first
  running   \* tasks the loop thread is inside of, outermost first

vars == <<queue, running>>

Init ==
  /\ queue = <<>>
  /\ running = <<>>

\* Some thread queues a task.
Submit(f) ==
  /\ queue' = Append(queue, f)
  /\ UNCHANGED running

\* The loop thread, inside no task, starts the oldest queued one.
RunOldest ==
  /\ running = <<>>
  /\ queue # <<>>
  /\ running' = <<Head(queue)>>
  /\ queue' = Tail(queue)

\* The loop thread runs a task at once, ahead of everything queued.
RunInPlace(f) ==
  /\ running' = Append(running, f)
  /\ UNCHANGED queue

\* The innermost task returns.
Return ==
  /\ running # <<>>
  /\ running' = SubSeq(running, 1, Len(running) - 1)
  /\ UNCHANGED queue

Next ==
  \/ \E f \in Task : Submit(f) \/ RunInPlace(f)
  \/ RunOldest
  \/ Return

Spec == Init /\ [][Next]_vars
=============================================================================
