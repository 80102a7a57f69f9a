------------------------------ MODULE QueryNode ------------------------------
(***************************************************************************)
(* The queries of all the nodes: users who ask, forward and answer, the    *)
(* DRPC handlers, connections that go down and processes that restart.     *)
(***************************************************************************)
EXTENDS QueryRequests, QueryResponses

\* One of the two parties disconnects; nothing verifies the connection again.
Hangup(q) ==
    /\ "hangup" \in Faults /\ up[q]
    /\ up' = [up EXCEPT ![q] = FALSE]
    /\ UNCHANGED <<parent, mine, theirs, ask, say, fwd>>

\* The process that answers n and asks the children of n restarts (NoQuery:
\* the one that asks the roots).  Its forms and handlers are gone; the rows
\* stay as they are.  A handler's call dies with it.
Crash(n) ==
    LET asker(q)  == mine[q].st # "none" /\ parent[q] = n
        stop(rec) == IF rec.at # "free" /\ asker(rec.q)
                     THEN [rec EXCEPT !.at = "done"] ELSE rec
        left(rec) == IF rec.at # "free" /\ rec.q = n
                     THEN Leave(rec) ELSE rec
    IN
    /\ "crash" \in Faults
    /\ ask' = [q \in Query |->
                  IF asker(q) THEN Leave(ask[q])
                  ELSE IF q = n /\ ask[q].at # "none" THEN [ask[q] EXCEPT !.at = "done"]
                  ELSE ask[q]]
    /\ say' = [r \in Call |-> LET rec == left(stop(say[r]))
                              IN  IF rec.at = "free" THEN Free ELSE Put(rec)]
    /\ fwd' = IF n = NoQuery THEN fwd ELSE [fwd EXCEPT ![n] = NotForwarding]
    /\ UNCHANGED <<parent, mine, theirs, up>>

-----------------------------------------------------------------------------
AskStep(q) == \/ ReceiveRequest(q) \/ AckRequest(q) \/ LogRequest(q)
              \/ RequestEnds(q) \/ RequestFails(q)

ForwardStep(p) == (\E c \in Query : AskChild(p, c) \/ ChildRejected(p, c)) \/ EndForward(p)

SayStep(r) == \/ ReceiveResponse(r) \/ StoreResponse(r) \/ AckResponse(r)
              \/ CheckParent(r) \/ NotAllAnswered(r) \/ FailChild(r)
              \/ FormEnds(r) \/ FormFails(r)

NestedStep(r) == \E s \in Call : \/ AnswerParent(r, s) \/ ParentAnswered(r, s)
                                 \/ ParentNotAnswered(r, s)

UserStep ==
    \/ \E q \in Query : Request(q)
    \/ \E p \in Query, S \in SUBSET Query, v \in Value : BeginForward(p, S, v)
    \/ \E q \in Query, v \in Value, r \in Call : Respond(q, v, r)

FaultStep ==
    \/ \E q \in Query : RequestHandlerFails(q) \/ RequestLost(q) \/ Hangup(q)
    \/ \E r \in Call : ResponseHandlerFails(r) \/ ResponseLost(r) \/ ParentFails(r)
    \/ \E n \in Query \cup {NoQuery} : Crash(n)

QueryNext ==
    \/ UserStep \/ FaultStep
    \/ \E q \in Query : AskStep(q) \/ ForwardStep(q)
    \/ \E r \in Call : SayStep(r) \/ NestedStep(r)

QuerySpec == QueryInit /\ [][QueryNext]_queryVars

\* A process serves its requests and its events, and the cloudagent ends every
\* call it waits for.  Nobody has to ask or to answer, and nothing has to fail.
QueryFairSpec ==
    /\ QuerySpec
    /\ \A q \in Query : WF_queryVars(AskStep(q)) /\ WF_queryVars(ForwardStep(q))
    /\ \A r \in Call : WF_queryVars(SayStep(r)) /\ WF_queryVars(NestedStep(r))
=============================================================================
