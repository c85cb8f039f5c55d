---------------------------- MODULE MCEventLoop ----------------------------
(***************************************************************************)
(* EventLoop with two other threads, two functors and one I/O channel.     *)
(***************************************************************************)
EXTENDS EventLoop

CONSTANTS c1, c2, f1, f2, io

MCCallers == {c1, c2}
MCFunctor == {f1, f2}
MCIoChannel == {io}
=============================================================================
