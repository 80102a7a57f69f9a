--------------------------- MODULE MCConnectionNode ---------------------------
(***************************************************************************)
(* Instances of ConnectionNode for TLC.                                    *)
(***************************************************************************)
EXTENDS ConnectionProperties, TLC

\* Identifiers are interchangeable; the properties of a run that uses this
\* symmetry are safety properties.
Interchangeable == Permutations(Task) \cup Permutations(Invite)
                     \cup Permutations(AgentConn) \cup Permutations(Cred)
=============================================================================
