---------------------------- MODULE QueryRequests ----------------------------
(***************************************************************************)
(* Asking a query: the forms of the queries controller that send           *)
(* submit_query_request, and the DRPC handler of the node that receives    *)
(* it.  The caller waits for the reply; the handler replies through its    *)
(* own cloudagent.                                                         *)
(***************************************************************************)
EXTENDS QueryTables

\* Seeded bug: the asker's row starts with the status of the answerer's.
SendAsInput(q, p) ==
    /\ parent' = [parent EXCEPT ![q] = p]
    /\ mine'   = [mine EXCEPT ![q].st = "pending_your_input"]
    /\ ask'    = [ask EXCEPT ![q] = [caller |-> "form", at |-> "sent", reply |-> "none"]]

\* handleQueryRequest up to its await: the connection is verified_both, the
\* row is inserted and the request is on its way.  For a child, p is the query
\* that is forwarded.
Send(q, p) ==
    /\ parent' = [parent EXCEPT ![q] = p]
    /\ mine'   = [mine EXCEPT ![q].st = "pending_their_input"]
    /\ ask'    = [ask EXCEPT ![q] = [caller |-> "form", at |-> "sent", reply |-> "none"]]

\* The carbon embodiment and BAV request forms.
Request(q) ==
    /\ q \in Unasked \cap Root /\ up[q]
    /\ Send(q, NoQuery)
    /\ UNCHANGED <<theirs, say, fwd, up>>

\* The partial form: every chosen connection and the query's own are
\* verified_both and the query has a response_id.  Neither its status nor its
\* response is looked at; the page is offered while the row waits for input.
BeginForward(p, S, v) ==
    /\ theirs[p].st # "none" /\ ~fwd[p].on /\ OpenForms(p) < Tabs
    /\ Offered(p)
    /\ S # {} /\ S \subseteq Unasked \ Root
    /\ up[p] /\ \A c \in S : up[c]
    /\ \A o \in Query : fwd[o].on => S \cap fwd[o].todo = {}
    /\ fwd' = [fwd EXCEPT ![p] = [on |-> TRUE, todo |-> S, sent |-> {},
                                  rejected |-> FALSE, value |-> v]]
    /\ UNCHANGED <<parent, mine, theirs, ask, say, up>>

AskChild(p, c) ==
    /\ fwd[p].on /\ c \in fwd[p].todo \cap Unasked /\ up[c]
    /\ Send(c, p)
    /\ fwd' = [fwd EXCEPT ![p].todo = @ \ {c}, ![p].sent = @ \cup {c}]
    /\ UNCHANGED <<theirs, say, up>>

\* The connection is no longer verified_both, or the insert fails: the
\* promise of this child is rejected, the others go on.
ChildRejected(p, c) ==
    /\ fwd[p].on /\ c \in fwd[p].todo
    /\ ~up[c] \/ "fail" \in Faults
    /\ fwd' = [fwd EXCEPT ![p].todo = @ \ {c}, ![p].rejected = TRUE]
    /\ UNCHANGED <<parent, mine, theirs, ask, say, up>>

\* allSettled: a child that errored counts as settled.  One rejected promise
\* and the parent is left as it is, its children under way.
EndForward(p) ==
    /\ fwd[p].on /\ fwd[p].todo = {}
    /\ \A c \in fwd[p].sent : ask[c].caller = "gone"
    /\ theirs' = IF fwd[p].rejected THEN theirs
                 ELSE [theirs EXCEPT ![p] = [st |-> "forwarded",
                          answer |-> [value |-> fwd[p].value, parts |-> {}]]]
    /\ fwd' = [fwd EXCEPT ![p] = NotForwarding]
    /\ UNCHANGED <<parent, mine, ask, say, up>>

-----------------------------------------------------------------------------
\* handleSubmitQueryRequest.
ReceiveRequest(q) ==
    /\ ask[q].at = "sent"
    /\ theirs' = [theirs EXCEPT ![q] = [st |-> "pending_your_input", answer |-> NoAnswer]]
    /\ ask' = [ask EXCEPT ![q].at = "inserted"]
    /\ UNCHANGED <<parent, mine, say, fwd, up>>

AckRequest(q) ==
    /\ ask[q].at = "inserted"
    /\ ask' = [ask EXCEPT ![q] = Tell([@ EXCEPT !.at = "acked"], "ack")]
    /\ UNCHANGED <<parent, mine, theirs, say, fwd, up>>

\* The insert into query_rpc.
LogRequest(q) ==
    /\ ask[q].at = "acked"
    /\ ask' = [ask EXCEPT ![q].at = "done"]
    /\ UNCHANGED <<parent, mine, theirs, say, fwd, up>>

\* The catch block: a row that was inserted becomes errored whatever it holds
\* by now, and an error is sent, too late where the ack went out before.
RequestHandlerFails(q) ==
    /\ "fail" \in Faults
    /\ ask[q].at \in {"sent", "inserted", "acked"}
    /\ theirs' = IF ask[q].at = "sent" THEN theirs
                 ELSE [theirs EXCEPT ![q].st = "errored"]
    /\ ask' = [ask EXCEPT ![q] = Tell([@ EXCEPT !.at = "done"], "error")]
    /\ UNCHANGED <<parent, mine, say, fwd, up>>

RequestLost(q) ==
    /\ "lost" \in Faults
    /\ ask[q].at = "sent"
    /\ ask' = [ask EXCEPT ![q].at = "done"]
    /\ UNCHANGED <<parent, mine, theirs, say, fwd, up>>

-----------------------------------------------------------------------------
\* submitDrpcQueryAndStoreResult, called for a request.
RequestEnds(q) ==
    /\ ask[q].caller = "form" /\ ask[q].reply = "ack"
    /\ ask' = [ask EXCEPT ![q] = Leave(@)]
    /\ UNCHANGED <<parent, mine, theirs, say, fwd, up>>

\* An error reply, no reply before the cloudagent's time is up, or a statement
\* after the reply that fails: the row becomes errored whatever it is by now.
RequestFails(q) ==
    /\ ask[q].caller = "form"
    /\ \/ ask[q].reply = "error"
       \/ ask[q].reply = "none" /\ (ask[q].at = "done" \/ "lost" \in Faults)
       \/ ask[q].reply = "ack" /\ "fail" \in Faults
    /\ mine' = [mine EXCEPT ![q].st = "errored"]
    /\ ask' = [ask EXCEPT ![q] = Leave(@)]
    /\ UNCHANGED <<parent, theirs, say, fwd, up>>
=============================================================================
