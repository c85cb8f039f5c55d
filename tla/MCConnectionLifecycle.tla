----------------------- MODULE MCConnectionLifecycle -----------------------
(***************************************************************************)
(* ConnectionLifecycle on small instances: the connections, and the users' *)
(* threads, are interchangeable.                                           *)
(***************************************************************************)
EXTENDS ConnectionLifecycle, TLC

Symmetric == Permutations(Conn) \cup Permutations(User)

Usage(sameLoop, remote, local, stops) ==
  [sameLoop |-> sameLoop, remote |-> remote, local |-> local, stops |-> stops]

\* A server with one loop, and one with a loop for I/O, both destroyed some day.
OneLoopOrTwo ==
  {Usage(TRUE, {"send"}, Operations, TRUE),
   Usage(FALSE, {"send"}, {}, TRUE),
   Usage(FALSE, {"shutdown"}, {"shutdown", "send"}, TRUE)}

ForceClosing == {Usage(FALSE, {"shutdown", "forceClose"}, {"shutdown", "forceClose"}, FALSE)}

SendingAndShutting == {Usage(TRUE, {"send", "shutdown"}, {}, FALSE)}

Shutting == {Usage(FALSE, {"shutdown"}, {"shutdown"}, FALSE)}

Stopping == {Usage(FALSE, {"shutdown"}, {"shutdown"}, TRUE)}
=============================================================================
