--------------------------- MODULE ClientSession ----------------------------
(***************************************************************************)
(* What a TcpClient promises to the one who uses it: one thing at a time,  *)
(* either an attempt to connect or a connection that the callback has      *)
(* reported up, and no attempt that nobody asked for.  Client implements   *)
(* this specification: see Session in Client.tla.                          *)
(***************************************************************************)
VARIABLES
  phase,    \* "idle", "dialing" or "up"
  asked     \* a call of connect, or the client itself after a connection went
            \* down, has asked for an attempt that is not answered yet

vars == <<phase, asked>>

Init ==
  /\ phase = "idle"
  /\ asked = FALSE

Ask ==
  /\ ~asked
  /\ asked' = TRUE
  /\ UNCHANGED phase

\* The request starts an attempt, or is dropped: the client was stopped, or the
\* attempt failed at once.
Answer ==
  /\ asked
  /\ asked' = FALSE
  /\ phase = "idle"
  /\ phase' \in {"idle", "dialing"}

Connected == phase = "dialing" /\ phase' = "up" /\ UNCHANGED asked

\* The attempt is given up, or the connection goes down.
Ended == phase # "idle" /\ phase' = "idle" /\ UNCHANGED asked

Next == Ask \/ Answer \/ Connected \/ Ended

Spec == Init /\ [][Next]_vars
=============================================================================
