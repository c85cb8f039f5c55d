--------------------------- MODULE ServerSession ----------------------------
(***************************************************************************)
(* What a TcpServer promises to its user about its connections: the        *)
(* connection callback says up, then down, each once, and a connection is  *)
(* destroyed after that, or with the server.  Once it is destroyed nothing *)
(* more is heard of it.  ConnectionLifecycle implements this               *)
(* specification: see Session in ConnectionLifecycle.tla.                  *)
(***************************************************************************)
EXTENDS Naturals

CONSTANT Conn

VARIABLES
  ups, downs,   \* how often the callback has found a connection up, down
  gone,         \* the connections that have been destroyed
  serving       \* the server's destructor has not begun

vars == <<ups, downs, gone, serving>>

Init ==
  /\ ups = [c \in Conn |-> 0]
  /\ downs = [c \in Conn |-> 0]
  /\ gone = {}
  /\ serving = TRUE

SaysUp(c) ==
  /\ c \notin gone
  /\ ups[c] = 0 /\ downs[c] = 0
  /\ ups' = [ups EXCEPT ![c] = 1]
  /\ UNCHANGED <<downs, gone, serving>>

\* The last reference may go when the callback returns.
SaysDown(c) ==
  /\ c \notin gone
  /\ ups[c] = 1 /\ downs[c] = 0
  /\ downs' = [downs EXCEPT ![c] = 1]
  /\ gone' \in {gone, gone \cup {c}}
  /\ UNCHANGED <<ups, serving>>

\* Connections are destroyed: those that went down, or any with the server.
Go ==
  /\ gone \subseteq gone' /\ gone' \subseteq Conn
  /\ serving => \A c \in gone' \ gone : downs[c] = 1
  /\ UNCHANGED <<ups, downs, serving>>

Stop ==
  /\ serving' = FALSE
  /\ UNCHANGED <<ups, downs, gone>>

Next == Go \/ Stop \/ \E c \in Conn : SaysUp(c) \/ SaysDown(c)

Spec == Init /\ [][Next]_vars
=============================================================================
