------------------------------ MODULE MCClient ------------------------------
(***************************************************************************)
(* Client on a small instance.  Users' threads disconnect, or the          *)
(* connection's callbacks force it to close, not both.                     *)
(***************************************************************************)
EXTENDS Client

DisconnectsOrForces ==
  {[remote |-> {"connect", "disconnect", "stop"}, local |-> {}],
   [remote |-> {"connect", "stop"}, local |-> {"forceClose"}]}
=============================================================================
