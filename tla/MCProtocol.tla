----------------------------- MODULE MCProtocol -----------------------------
(***************************************************************************)
(* A header of two units and packets of three; four are more than the      *)
(* decoder takes.  A connection buffers two, so no packet fits at once.    *)
(***************************************************************************)
EXTENDS Protocol

=============================================================================
