----------------------------- MODULE QueryTables -----------------------------
(***************************************************************************)
(* Queries between companies.  A query has a row in the "query" table of   *)
(* the node that asked it (role requester) and a row in the table of the   *)
(* node that has to answer it (role responder).  A company that cannot     *)
(* answer alone forwards: it asks child queries of its own, whose rows     *)
(* carry parent_id, and answers the parent once every child is answered.   *)
(*                                                                         *)
(* A query of the model stands for both rows and for the DRPC request that *)
(* created the second.  Query p is also the name of the node that answers  *)
(* p, which is the node that asks the children of p; NoQuery is the node   *)
(* that asks the root queries.                                             *)
(***************************************************************************)
EXTENDS Integers, FiniteSets

CONSTANTS
    Query,     \* queries that may ever be asked
    Root,      \* those a user asks; the others are asked by forwarding
    NoQuery,   \* parent_id = null
    Call,      \* slots for submit_query_response requests in flight
    NoCall,    \* a response that is not sent from within a handler
    Value,     \* what a user may answer
    NoAnswer,  \* response = null
    Tabs,      \* bound: response pages of one query under way at a time
    Faults     \* what may go wrong: "fail", "lost", "crash", "stale", "hangup"

\* The values null stands for are not identifiers.
ASSUME NullsAreNotQueries ==
    Root \subseteq Query /\ NoQuery \notin Query /\ NoCall \notin Call /\ Tabs \in Nat

\* A node serves finitely many requests at a time.
ASSUME CallsAreFinite == IsFiniteSet(Call)

VARIABLES
    parent,   \* query.parent_id of the requester's row
    mine,     \* the requester's row: status and response
    theirs,   \* the responder's row: status and response
    ask,      \* the submit_query_request: its caller, its handler, its reply
    say,      \* the submit_query_response requests in flight
    fwd,      \* forwarding requests in flight, by the query they forward
    up        \* the connection of the query's two parties is verified_both

queryVars == <<parent, mine, theirs, ask, say, fwd, up>>

\* A response: the company's own figure and the (child, figure) pairs of its
\* partialResponses.
Answer == [value : Value, parts : SUBSET (Query \X Value)]
Answers == Answer \cup {NoAnswer}

ASSUME NullIsNoAnswer == NoAnswer \notin Answer

MineStatus   == {"none", "pending_their_input", "resolved", "errored"}
TheirsStatus == {"none", "pending_your_input", "forwarded", "resolved", "errored"}

\* A call of the client that waits for a DRPC reply.
Reply  == {"none", "ack", "error"}
Caller == {"none", "form", "handler", "gone"}

\* A reply reaches a caller that still waits, and the first one counts.
Tell(rec, x) ==
    IF rec.caller # "gone" /\ rec.reply = "none" THEN [rec EXCEPT !.reply = x] ELSE rec

\* The caller has its reply, gave up, or its process is gone.
Leave(rec) == [rec EXCEPT !.caller = "gone", !.reply = "none"]

NotAsked == [caller |-> "none", at |-> "none", reply |-> "none"]
AskSteps == {"none", "sent", "inserted", "acked", "done"}
SaySteps == {"sent", "read", "parent", "children", "asking", "failing", "acking", "done"}

Free == [at |-> "free"]
Said == [at : SaySteps, q : Query, answer : Answer, within : Call \cup {NoCall},
         caller : {"form", "handler", "gone"}, reply : Reply]

NotForwarding == [on |-> FALSE]
Forwarding == [on : {TRUE}, todo : SUBSET Query, sent : SUBSET Query,
               rejected : BOOLEAN, value : Value]

QueryTypeOK ==
    /\ parent \in [Query -> Query \cup {NoQuery}]
    /\ mine   \in [Query -> [st : MineStatus, answer : Answers]]
    /\ theirs \in [Query -> [st : TheirsStatus, answer : Answers]]
    /\ ask    \in [Query -> [caller : Caller, at : AskSteps, reply : Reply]]
    /\ say    \in [Call -> Said \cup {Free}]
    /\ fwd    \in [Query -> Forwarding \cup {NotForwarding}]
    /\ up     \in [Query -> BOOLEAN]

QueryInit ==
    /\ parent = [q \in Query |-> NoQuery]
    /\ mine   = [q \in Query |-> [st |-> "none", answer |-> NoAnswer]]
    /\ theirs = [q \in Query |-> [st |-> "none", answer |-> NoAnswer]]
    /\ ask    = [q \in Query |-> NotAsked]
    /\ say    = [r \in Call |-> Free]
    /\ fwd    = [q \in Query |-> NotForwarding]
    /\ up     = [q \in Query |-> TRUE]

-----------------------------------------------------------------------------
Unasked     == {q \in Query : mine[q].st = "none"}
Children(p) == {q \in Query : parent[q] = p /\ mine[q].st # "none"}
InFlight    == {r \in Call : say[r].at # "free"}

\* The response pages of q whose form is under way.
OpenForms(q) ==
    Cardinality({r \in InFlight : say[r].q = q /\ say[r].caller = "form"})
      + IF fwd[q].on THEN 1 ELSE 0

\* The list links to the response page while the row waits for our input; a
\* page opened earlier can still be submitted.
Offered(q) == theirs[q].st = "pending_your_input" \/ "stale" \in Faults

\* Everything the handlers and the forms of a query still have to do is done.
Quiet ==
    /\ InFlight = {}
    /\ \A q \in Query : ~fwd[q].on /\ ask[q].at \in {"none", "done"}
                        /\ ask[q].caller \in {"none", "gone"}
=============================================================================
