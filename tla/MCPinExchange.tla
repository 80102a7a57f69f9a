---------------------------- MODULE MCPinExchange ----------------------------
(***************************************************************************)
(* Instances of PinExchange for TLC.                                       *)
(***************************************************************************)
EXTENDS PinExchange
=============================================================================
