---------------------------- MODULE MCAgentEvents ----------------------------
(***************************************************************************)
(* Instances of AgentEvents for TLC.                                       *)
(***************************************************************************)
EXTENDS AgentEvents

CONSTANTS c, x, d

\* Two states of the connection: one may overtake, supersede or repeat another.
TwoOfOne == [k \in Key |-> IF k = c THEN 2 ELSE 1]
=============================================================================
