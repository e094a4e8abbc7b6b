------------------------------- MODULE MCPins -------------------------------
(* Pins with as many frames as one statement needs. *)
EXTENDS Pins
=============================================================================
