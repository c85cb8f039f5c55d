------------------------- MODULE MCChannelLifecycle -------------------------
(***************************************************************************)
(* ChannelLifecycle on three channels, two of which share a descriptor.    *)
(***************************************************************************)
EXTENDS ChannelLifecycle

CONSTANTS c1, c2, c3, fd1, fd2

MCChannel == {c1, c2, c3}
MCFd == {fd1, fd2}
MCFdOf == [c \in MCChannel |-> IF c = c3 THEN fd2 ELSE fd1]
=============================================================================
