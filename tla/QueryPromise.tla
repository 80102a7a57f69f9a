----------------------------- MODULE QueryPromise -----------------------------
(***************************************************************************)
(* What a tree of queries promises, whatever fails on the way: a company   *)
(* that regards a query as resolved has got its answer to the company that *)
(* asked, and the answers it was put together from had all arrived before. *)
(***************************************************************************)
CONSTANTS Query, Nothing

VARIABLES
    heard,   \* the queries whose asker holds an answer
    given    \* per query, the queries its answerer drew on, once it has answered

promiseVars == <<heard, given>>

PromiseInit == heard = {} /\ given = [q \in Query |-> Nothing]

Hear(q) == heard' = heard \cup {q} /\ UNCHANGED given

\* An answer that was heard is given, on the strength of answers heard before.
Give(q) ==
    /\ q \in heard
    /\ \E S \in SUBSET heard : given' = [given EXCEPT ![q] = S]
    /\ UNCHANGED heard

\* A failure afterwards, or another form, makes the answerer drop its own copy.
Withdraw(q) == given' = [given EXCEPT ![q] = Nothing] /\ UNCHANGED heard

PromiseNext == \E q \in Query : Hear(q) \/ Give(q) \/ Withdraw(q)
PromiseSpec == PromiseInit /\ [][PromiseNext]_promiseVars
=============================================================================
