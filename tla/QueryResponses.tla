---------------------------- MODULE QueryResponses ----------------------------
(***************************************************************************)
(* Answering a query: the response form, which sends submit_query_response,*)
(* and the DRPC handler of the node that asked.  A handler that stores the *)
(* answer of a child goes on to answer the parent when it finds every      *)
(* child answered (handleParentQuery): a second request, sent and awaited  *)
(* from within the first one's handler.                                    *)
(***************************************************************************)
EXTENDS QueryTables

NewCall(q, a, w, c) ==
    [at |-> "sent", q |-> q, answer |-> a, within |-> w, caller |-> c, reply |-> "none"]

At(r, l) == r \in InFlight /\ say[r].at = l

\* A slot is free again when its handler and its caller are both done.
Put(rec) == IF rec.at = "done" /\ rec.caller = "gone" THEN Free ELSE rec

Goto(r, l) ==
    say' = [say EXCEPT ![r] = Put([@ EXCEPT !.at = l])]

\* The handler sends its reply and is done.
ReplyWith(r, x) ==
    say' = [say EXCEPT ![r] = Put(Tell([@ EXCEPT !.at = "done"], x))]

\* The caller of r stops waiting.
CallerGone(r) == [say EXCEPT ![r] = Put(Leave(@))]

\* Seeded bug: only a lost message ends the wait.
WaitsForEver(r) == say[r].reply = "none" /\ "lost" \in Faults

\* No reply will come, or the cloudagent stops waiting for it.
NoReply(r) == say[r].reply = "none" /\ (say[r].at = "done" \/ "lost" \in Faults)

-----------------------------------------------------------------------------
(* handleQueryResponse *)

\* response_id is there, the connection is verified_both and the row has no
\* response yet.
MayAnswer(q) == theirs[q].st # "none" /\ theirs[q].answer = NoAnswer /\ up[q]

Respond(q, v, r) ==
    /\ MayAnswer(q) /\ Offered(q) /\ OpenForms(q) < Tabs
    /\ say[r] = Free
    /\ say' = [say EXCEPT ![r] = NewCall(q, [value |-> v, parts |-> {}], NoCall, "form")]
    /\ UNCHANGED <<parent, mine, theirs, ask, fwd, up>>

\* Seeded bug: an error reply is a reply.
FormEndsOnAnyReply(r) ==
    /\ r \in InFlight /\ say[r].caller = "form" /\ say[r].reply # "none"
    /\ theirs' = [theirs EXCEPT ![say[r].q] = [st |-> "resolved", answer |-> say[r].answer]]
    /\ say' = CallerGone(r)
    /\ UNCHANGED <<parent, mine, ask, fwd, up>>

\* The reply acknowledges the response: both sides hold it now.
FormEnds(r) ==
    /\ r \in InFlight /\ say[r].caller = "form" /\ say[r].reply = "ack"
    /\ theirs' = [theirs EXCEPT ![say[r].q] = [st |-> "resolved", answer |-> say[r].answer]]
    /\ say' = CallerGone(r)
    /\ UNCHANGED <<parent, mine, ask, fwd, up>>

\* Any failure: errored, whatever the row is by now.
FormFails(r) ==
    /\ r \in InFlight /\ say[r].caller = "form"
    /\ \/ say[r].reply = "error"
       \/ NoReply(r)
       \/ say[r].reply = "ack" /\ "fail" \in Faults
    /\ theirs' = [theirs EXCEPT ![say[r].q].st = "errored"]
    /\ say' = CallerGone(r)
    /\ UNCHANGED <<parent, mine, ask, fwd, up>>

-----------------------------------------------------------------------------
(* handleSubmitQueryResponse *)

\* A row that has a response already ends the handler without a reply.
ReceiveResponse(r) ==
    /\ At(r, "sent")
    /\ Goto(r, IF mine[say[r].q].answer = NoAnswer THEN "read" ELSE "done")
    /\ UNCHANGED <<parent, mine, theirs, ask, fwd, up>>

\* The update does not repeat the test.
StoreResponse(r) ==
    /\ At(r, "read")
    /\ mine' = [mine EXCEPT ![say[r].q] = [st |-> "resolved", answer |-> say[r].answer]]
    /\ Goto(r, IF parent[say[r].q] = NoQuery THEN "acking" ELSE "parent")
    /\ UNCHANGED <<parent, theirs, ask, fwd, up>>

AckResponse(r) ==
    /\ At(r, "acking")
    /\ ReplyWith(r, "ack")
    /\ UNCHANGED <<parent, mine, theirs, ask, fwd, up>>

\* A statement of handleSubmitQueryResponse throws: an error is sent.
ResponseHandlerFails(r) ==
    /\ "fail" \in Faults
    /\ At(r, "sent") \/ At(r, "read") \/ At(r, "failing") \/ At(r, "acking")
    /\ ReplyWith(r, "error")
    /\ UNCHANGED <<parent, mine, theirs, ask, fwd, up>>

ResponseLost(r) ==
    /\ "lost" \in Faults
    /\ At(r, "sent")
    /\ Goto(r, "done")
    /\ UNCHANGED <<parent, mine, theirs, ask, fwd, up>>

-----------------------------------------------------------------------------
(* handleParentQuery *)

Up(r) == parent[say[r].q]

\* Seeded bug: the first answer is enough.
SomeAnswered(p) == \E c \in Children(p) : mine[c].st = "resolved"

AllAnswered(p) == \A c \in Children(p) : mine[c].st = "resolved"
Aggregate(p) ==
    [value |-> theirs[p].answer.value,
     parts |-> {<<c, mine[c].answer.value>> :
                   c \in {d \in Children(p) : mine[d].answer # NoAnswer}}]

\* Seeded bug: a child of a parent that is not forwarded yet stays resolved.
CheckParentQuietly(r) ==
    /\ At(r, "parent")
    /\ Goto(r, IF theirs[Up(r)].st = "forwarded" THEN "children" ELSE "acking")
    /\ UNCHANGED <<parent, mine, theirs, ask, fwd, up>>

\* The parent must be forwarded and hold our own part.
CheckParent(r) ==
    /\ At(r, "parent")
    /\ Goto(r, IF theirs[Up(r)].st = "forwarded" THEN "children" ELSE "failing")
    /\ UNCHANGED <<parent, mine, theirs, ask, fwd, up>>

\* The parent's answer is sent, with the children's as its partial responses.
AnswerParent(r, s) ==
    /\ At(r, "children") /\ AllAnswered(Up(r))
    /\ theirs[Up(r)].answer # NoAnswer
    /\ say[s] = Free
    /\ say' = [say EXCEPT
                  ![r].at = "asking",
                  ![s] = NewCall(Up(r), Aggregate(Up(r)), r, "handler")]
    /\ UNCHANGED <<parent, mine, theirs, ask, fwd, up>>

NotAllAnswered(r) ==
    /\ At(r, "children") /\ ~AllAnswered(Up(r))
    /\ Goto(r, "acking")
    /\ UNCHANGED <<parent, mine, theirs, ask, fwd, up>>

ParentFails(r) ==
    /\ "fail" \in Faults
    /\ At(r, "parent") \/ At(r, "children")
    /\ Goto(r, "failing")
    /\ UNCHANGED <<parent, mine, theirs, ask, fwd, up>>

\* Seeded bug: the parent keeps its own part only.
ParentAnsweredAlone(r, s) ==
    /\ At(r, "asking") /\ s \in InFlight
    /\ say[s].within = r /\ say[s].caller = "handler" /\ say[s].reply = "ack"
    /\ theirs' = [theirs EXCEPT ![say[s].q].st = "resolved"]
    /\ say' = [CallerGone(s) EXCEPT ![r].at = "acking"]
    /\ UNCHANGED <<parent, mine, ask, fwd, up>>

\* Seeded bug: the reply is not looked at.
ParentAnsweredOnAnyReply(r, s) ==
    /\ At(r, "asking") /\ s \in InFlight
    /\ say[s].within = r /\ say[s].caller = "handler" /\ say[s].reply # "none"
    /\ theirs' = [theirs EXCEPT ![say[s].q] = [st |-> "resolved", answer |-> say[s].answer]]
    /\ say' = [CallerGone(s) EXCEPT ![r].at = "acking"]
    /\ UNCHANGED <<parent, mine, ask, fwd, up>>

\* The reply to the parent's answer, awaited by the handler of r.
ParentAnswered(r, s) ==
    /\ At(r, "asking") /\ s \in InFlight
    /\ say[s].within = r /\ say[s].caller = "handler" /\ say[s].reply = "ack"
    /\ theirs' = [theirs EXCEPT ![say[s].q] = [st |-> "resolved", answer |-> say[s].answer]]
    /\ say' = [CallerGone(s) EXCEPT ![r].at = "acking"]
    /\ UNCHANGED <<parent, mine, ask, fwd, up>>

ParentNotAnswered(r, s) ==
    /\ At(r, "asking") /\ s \in InFlight
    /\ say[s].within = r /\ say[s].caller = "handler"
    /\ \/ say[s].reply = "error"
       \/ NoReply(s)
       \/ say[s].reply = "ack" /\ "fail" \in Faults
    /\ say' = [CallerGone(s) EXCEPT ![r].at = "failing"]
    /\ UNCHANGED <<parent, mine, theirs, ask, fwd, up>>

\* Every error of handleParentQuery ends here: the child, whose answer is
\* stored, becomes errored; its sender still gets the ack.
FailChild(r) ==
    /\ At(r, "failing")
    /\ mine' = [mine EXCEPT ![say[r].q].st = "errored"]
    /\ Goto(r, "acking")
    /\ UNCHANGED <<parent, theirs, ask, fwd, up>>
=============================================================================
