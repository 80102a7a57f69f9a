------------------------------ MODULE MCQueries ------------------------------
(***************************************************************************)
(* Instances of QueryNode for TLC.                                         *)
(***************************************************************************)
EXTENDS QueryProperties, TLC

\* Call slots and the queries that are not asked by a user are
\* interchangeable; used with safety properties only.
Alike == Permutations(Call) \cup Permutations(Query \ Root)
=============================================================================
