--------------------------- MODULE QueryProperties ---------------------------
(***************************************************************************)
(* What the queries of several companies have to get right.                *)
(***************************************************************************)
EXTENDS QueryNode

Heard(q)    == mine[q].answer # NoAnswer
PartsOf(a)  == IF a = NoAnswer THEN {} ELSE {x[1] : x \in a.parts}
Resolved(q) == theirs[q].st = "resolved"

\* Whoever regards a query as resolved knows that the asker holds an answer,
\* and that every part of its own was answered to it: queryRow.response is
\* written only once the reply is in, by the form and by handleParentQuery.
AnswersArrive ==
    \A q \in Query : Resolved(q) =>
        /\ theirs[q].answer # NoAnswer /\ Heard(q)
        /\ \A c \in PartsOf(theirs[q].answer) : Heard(c)

\* With one response page per query and nothing going wrong, both companies
\* hold the same answer when the answering one regards the query as resolved.
SameAnswer ==
    \A q \in Query : Resolved(q) => mine[q].answer = theirs[q].answer

\* An aggregated answer has the current answer of every child: no child is
\* left out because its response was handled at the same time as another's.
NoPartMissing ==
    \A p \in Query : Resolved(p) /\ Children(p) # {} =>
        \A c \in Children(p) :
            Heard(c) /\ <<c, mine[c].answer.value>> \in theirs[p].answer.parts

\* No query is forgotten: when nothing is under way any more, a forwarded
\* query waits for a child that is not resolved.
NotForgotten ==
    Quiet => \A p \in Query : theirs[p].st = "forwarded" =>
                 \E c \in Children(p) : mine[c].st # "resolved"

\* An answer a user has seen is never replaced by another one, although the
\* test for an earlier answer and the update are separate statements.
AnswerStands ==
    [][\A q \in Query : Heard(q) => mine'[q].answer = mine[q].answer]_queryVars

\* Every form, every handler and every call nested in a handler ends: nobody
\* waits for ever for somebody who waits.
Settles == <>[]Quiet

\* The answered queries behave as the promise says.
Promise == INSTANCE QueryPromise WITH
    Nothing <- NoAnswer,
    heard   <- {q \in Query : Heard(q)},
    given   <- [q \in Query |-> IF Resolved(q) THEN PartsOf(theirs[q].answer)
                                ELSE NoAnswer]
KeepsPromise == Promise!PromiseSpec

-----------------------------------------------------------------------------
\* "if all child responded, respond to the parent query"
\* (services/drpcEvents/index.ts:302): with every child answered and nothing
\* under way, the parent is answered.
ParentResponds ==
    Quiet => \A p \in Query :
        /\ theirs[p].st = "forwarded" /\ Children(p) # {}
        /\ \A c \in Children(p) : Heard(c)
        => Resolved(p)
=============================================================================
