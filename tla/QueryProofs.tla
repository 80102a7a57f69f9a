----------------------------- MODULE QueryProofs -----------------------------
(***************************************************************************)
(* Theorems about QueryNode, for every set of queries, calls and values:   *)
(* first what holds whatever fails, then what holds while nothing does.    *)
(***************************************************************************)
EXTENDS QueryProperties, FiniteSetTheorems, TLAPS

(* What a slot becomes when its handler or its caller goes on is a slot. *)
LEMMA PutOK ==
  ASSUME NEW rec \in Said
  PROVE  Put(rec) \in Said \cup {Free}
BY DEF Put

LEMMA TellOK ==
  ASSUME NEW rec \in Said, NEW x \in Reply
  PROVE  Tell(rec, x) \in Said
BY DEF Tell, Said

LEMMA LeaveOK ==
  ASSUME NEW rec \in Said
  PROVE  Leave(rec) \in Said
BY DEF Leave, Said, Reply

(* A slot in flight holds a call. *)
LEMMA InFlightOK ==
  ASSUME QueryTypeOK, NEW r \in InFlight
  PROVE  r \in Call /\ say[r] \in Said
BY DEF InFlight, QueryTypeOK, Free

LEMMA GotoOK ==
  ASSUME QueryTypeOK, NEW r \in InFlight, NEW l \in SaySteps, Goto(r, l)
  PROVE  say' \in [Call -> Said \cup {Free}]
<1>1. r \in Call /\ [say[r] EXCEPT !.at = l] \in Said
  BY InFlightOK DEF Said
<1> QED BY <1>1, PutOK DEF Goto, QueryTypeOK

LEMMA ReplyOK ==
  ASSUME QueryTypeOK, NEW r \in InFlight, NEW x \in Reply, ReplyWith(r, x)
  PROVE  say' \in [Call -> Said \cup {Free}]
<1>1. r \in Call /\ [say[r] EXCEPT !.at = "done"] \in Said
  BY InFlightOK DEF Said, SaySteps
<1>2. Tell([say[r] EXCEPT !.at = "done"], x) \in Said
  BY <1>1, TellOK
<1> QED BY <1>1, <1>2, PutOK DEF ReplyWith, QueryTypeOK

LEMMA GoneOK ==
  ASSUME QueryTypeOK, NEW r \in InFlight
  PROVE  CallerGone(r) \in [Call -> Said \cup {Free}]
<1>1. r \in Call /\ Leave(say[r]) \in Said
  BY InFlightOK, LeaveOK
<1> QED BY <1>1, PutOK DEF CallerGone, QueryTypeOK

(* Rows and calls exist for queries that were asked, and a handler goes on to
   a parent only for a query that has one. *)
Linked ==
    /\ \A q \in Query : theirs[q].st = "none" => theirs[q].answer = NoAnswer
    /\ \A q \in Query : theirs[q].st # "none" \/ ask[q].at # "none" => mine[q].st # "none"
    /\ \A p \in Query : fwd[p].on => theirs[p].st # "none"
    /\ \A r \in InFlight :
          /\ mine[say[r].q].st # "none" /\ theirs[say[r].q].st # "none"
          /\ say[r].within # r
          /\ say[r].at \in {"parent", "children", "asking", "failing"} => Up(r) \in Query

LEMMA QueryTypeInit == QueryInit => QueryTypeOK
BY DEF QueryInit, QueryTypeOK, MineStatus, TheirsStatus, Answers, NotAsked, Caller,
       AskSteps, Reply, Free, NotForwarding

(* Asking and forwarding keep the types. *)
LEMMA QueryTypeRequests ==
  ASSUME QueryTypeOK, NEW q \in Query,
         \/ Request(q)
         \/ \E S \in SUBSET Query, v \in Value : BeginForward(q, S, v)
         \/ ForwardStep(q)
         \/ AskStep(q) \/ RequestHandlerFails(q) \/ RequestLost(q) \/ Hangup(q)
  PROVE  QueryTypeOK'
<1> USE DEF QueryTypeOK, MineStatus, TheirsStatus, Caller, AskSteps, Reply
<1>s. ASSUME NEW c \in Query, NEW p \in Query \cup {NoQuery}, Send(c, p)
      PROVE  /\ parent' \in [Query -> Query \cup {NoQuery}]
             /\ mine' \in [Query -> [st : MineStatus, answer : Answers]]
             /\ ask' \in [Query -> [caller : Caller, at : AskSteps, reply : Reply]]
  BY ZenonT(30), <1>s DEF Send
<1>f. ASSUME fwd[q].on PROVE fwd[q] \in Forwarding
  BY <1>f DEF NotForwarding
<1>1. CASE Request(q)
  BY <1>1, <1>s DEF Request
<1>2. CASE \E S \in SUBSET Query, v \in Value : BeginForward(q, S, v)
  <2>1. PICK S \in SUBSET Query, v \in Value : BeginForward(q, S, v)
    BY <1>2
  <2> DEFINE f == [on |-> TRUE, todo |-> S, sent |-> {}, rejected |-> FALSE, value |-> v]
  <2>2. f \in Forwarding
    BY DEF Forwarding
  <2> QED BY <2>1, <2>2 DEF BeginForward
<1>3. ASSUME NEW c \in Query, AskChild(q, c) PROVE QueryTypeOK'
  <2>1. [fwd[q] EXCEPT !.todo = @ \ {c}, !.sent = @ \cup {c}] \in Forwarding
    BY <1>3, <1>f DEF AskChild, Forwarding
  <2>2. fwd' = [fwd EXCEPT ![q] = [fwd[q] EXCEPT !.todo = @ \ {c}, !.sent = @ \cup {c}]]
    BY <1>3, <1>f DEF AskChild, Forwarding
  <2> QED BY <1>3, <1>s, <2>1, <2>2 DEF AskChild
<1>4. ASSUME NEW c \in Query, ChildRejected(q, c) PROVE QueryTypeOK'
  <2>1. [fwd[q] EXCEPT !.todo = @ \ {c}, !.rejected = TRUE] \in Forwarding
    BY <1>4, <1>f DEF ChildRejected, Forwarding
  <2>2. fwd' = [fwd EXCEPT ![q] = [fwd[q] EXCEPT !.todo = @ \ {c}, !.rejected = TRUE]]
    BY <1>4, <1>f DEF ChildRejected, Forwarding
  <2> QED BY <1>4, <2>1, <2>2 DEF ChildRejected
<1>5. CASE EndForward(q)
  <2>1. [value |-> fwd[q].value, parts |-> {}] \in Answers
    BY <1>5, <1>f DEF EndForward, Forwarding, Answers, Answer
  <2> QED BY <1>5, <2>1 DEF EndForward
<1>6. CASE ReceiveRequest(q)
  BY <1>6 DEF ReceiveRequest, Answers
<1>7. CASE AskStep(q) /\ ~ReceiveRequest(q)
  <2>1. CASE AckRequest(q)
    BY ZenonT(30), <2>1 DEF AckRequest, Tell
  <2>2. CASE LogRequest(q)
    BY <2>2 DEF LogRequest
  <2>3. CASE RequestEnds(q)
    BY <2>3 DEF RequestEnds, Leave
  <2>4. CASE RequestFails(q)
    BY ZenonT(30), <2>4 DEF RequestFails, Leave
  <2> QED BY <1>7, <2>1, <2>2, <2>3, <2>4 DEF AskStep
<1>8. CASE RequestHandlerFails(q)
  <2>1. [ask[q] EXCEPT !.at = "done"] \in [caller : Caller, at : AskSteps, reply : Reply]
    OBVIOUS
  <2>2. Tell([ask[q] EXCEPT !.at = "done"], "error")
          \in [caller : Caller, at : AskSteps, reply : Reply]
    BY <2>1 DEF Tell
  <2>3. [theirs[q] EXCEPT !.st = "errored"] \in [st : TheirsStatus, answer : Answers]
    OBVIOUS
  <2>4. theirs' \in [Query -> [st : TheirsStatus, answer : Answers]]
    BY <1>8, <2>3 DEF RequestHandlerFails
  <2>5. ask' \in [Query -> [caller : Caller, at : AskSteps, reply : Reply]]
    <3>1. ask' = [ask EXCEPT ![q] = Tell([ask[q] EXCEPT !.at = "done"], "error")]
      BY <1>8 DEF RequestHandlerFails
    <3> HIDE DEF Tell
    <3> QED BY <2>2, <3>1
  <2>6. UNCHANGED <<parent, mine, say, fwd, up>>
    BY <1>8 DEF RequestHandlerFails
  <2> QED BY <2>4, <2>5, <2>6
<1>9. CASE RequestLost(q)
  BY <1>9 DEF RequestLost
<1>10. CASE Hangup(q)
  BY <1>10 DEF Hangup
<1> QED BY <1>1, <1>2, <1>3, <1>4, <1>5, <1>6, <1>7, <1>8, <1>9, <1>10 DEF ForwardStep

(* Answering keeps the types. *)
LEMMA QueryTypeResponses ==
  ASSUME QueryTypeOK, Linked, NEW r \in Call,
         \/ \E q \in Query, v \in Value : Respond(q, v, r)
         \/ SayStep(r) \/ NestedStep(r)
         \/ ResponseHandlerFails(r) \/ ResponseLost(r) \/ ParentFails(r)
  PROVE  QueryTypeOK'
<1>0. CASE \E q \in Query, v \in Value : Respond(q, v, r)
  <2>1. PICK q \in Query, v \in Value : Respond(q, v, r)
    BY <1>0
  <2>2. NewCall(q, [value |-> v, parts |-> {}], NoCall, "form") \in Said
    BY DEF NewCall, Said, SaySteps, Answer, Reply
  <2> QED BY <2>1, <2>2 DEF Respond, QueryTypeOK
<1>a. ASSUME NEW l, At(r, l) PROVE r \in InFlight
  BY <1>a DEF At
<1>1. CASE ReceiveResponse(r)
  BY <1>1, <1>a, GotoOK DEF ReceiveResponse, QueryTypeOK, SaySteps
<1>2. CASE StoreResponse(r)
  <2>1. say[r] \in Said
    BY <1>2, InFlightOK DEF StoreResponse, At
  <2>2. mine' \in [Query -> [st : MineStatus, answer : Answers]]
    BY <1>2, <2>1 DEF StoreResponse, QueryTypeOK, Said, MineStatus, Answers
  <2> QED BY <1>2, <1>a, <2>2, GotoOK DEF StoreResponse, QueryTypeOK, SaySteps
<1>3. CASE AckResponse(r)
  BY <1>3, <1>a, ReplyOK DEF AckResponse, QueryTypeOK, Reply
<1>4. CASE CheckParent(r)
  BY <1>4, <1>a, GotoOK DEF CheckParent, QueryTypeOK, SaySteps
<1>5. CASE NotAllAnswered(r)
  BY <1>5, <1>a, GotoOK DEF NotAllAnswered, QueryTypeOK, SaySteps
<1>6. CASE FailChild(r)
  <2>1. mine' \in [Query -> [st : MineStatus, answer : Answers]]
    BY ZenonT(30), <1>6 DEF FailChild, QueryTypeOK, MineStatus
  <2> QED BY <1>6, <2>1, <1>a, GotoOK DEF FailChild, QueryTypeOK, SaySteps
<1>7. CASE FormEnds(r)
  <2>1. say[r] \in Said
    BY <1>7, InFlightOK DEF FormEnds
  <2>2. theirs' \in [Query -> [st : TheirsStatus, answer : Answers]]
    BY <1>7, <2>1 DEF FormEnds, QueryTypeOK, Said, TheirsStatus, Answers
  <2> QED BY <1>7, <2>2, GoneOK DEF FormEnds, QueryTypeOK
<1>8. CASE FormFails(r)
  <2>2. theirs' \in [Query -> [st : TheirsStatus, answer : Answers]]
    BY ZenonT(30), <1>8 DEF FormFails, QueryTypeOK, TheirsStatus
  <2> QED BY <1>8, <2>2, GoneOK DEF FormFails, QueryTypeOK
<1>9. ASSUME NEW s \in Call, AnswerParent(r, s) PROVE QueryTypeOK'
  <2>1. r \in InFlight /\ say[r] \in Said
    BY <1>9, InFlightOK DEF AnswerParent, At
  <2>2. Up(r) \in Query /\ theirs[Up(r)].answer # NoAnswer
    BY <1>9, <2>1 DEF AnswerParent, Linked, At
  <2>3. \A c \in Query : mine[c].answer # NoAnswer => mine[c].answer \in Answer
    BY DEF QueryTypeOK, Answers
  <2>4. Aggregate(Up(r)) \in Answer
    BY <2>2, <2>3 DEF Aggregate, Answer, Answers, QueryTypeOK, Children
  <2>5. NewCall(Up(r), Aggregate(Up(r)), r, "handler") \in Said
    BY <2>2, <2>4 DEF NewCall, Said, SaySteps, Reply
  <2>6. [say[r] EXCEPT !.at = "asking"] \in Said
    BY <2>1 DEF Said, SaySteps
  <2> QED BY <1>9, <2>1, <2>5, <2>6 DEF AnswerParent, QueryTypeOK
<1>q. ASSUME NEW s \in Call, ParentAnswered(r, s) \/ ParentNotAnswered(r, s)
      PROVE QueryTypeOK'
  <2>1. /\ r \in InFlight /\ s \in InFlight /\ say[r] \in Said /\ say[s] \in Said
        /\ say[r].at = "asking" /\ Up(r) \in Query
    BY <1>q, InFlightOK DEF ParentAnswered, ParentNotAnswered, At, Linked
  <2>2. ASSUME NEW l \in SaySteps, say' = [CallerGone(s) EXCEPT ![r].at = l], r # s
        PROVE  say' \in [Call -> Said \cup {Free}]
    <3>1. CallerGone(s)[r] = say[r] /\ [say[r] EXCEPT !.at = l] \in Said
      BY <2>1, <2>2, GoneOK DEF CallerGone, Said, QueryTypeOK
    <3> QED BY <2>2, <3>1, GoneOK, <2>1
  <2>3. r # s
    BY <1>q, <2>1 DEF ParentAnswered, ParentNotAnswered, Linked
  <2>4. theirs' \in [Query -> [st : TheirsStatus, answer : Answers]]
    BY SMTT(20), <1>q, <2>1 DEF ParentAnswered, ParentNotAnswered, QueryTypeOK, Said, TheirsStatus, Answers
  <2> QED BY <1>q, <2>2, <2>3, <2>4 DEF ParentAnswered, ParentNotAnswered, QueryTypeOK, SaySteps
<1>x. CASE ResponseHandlerFails(r)
  BY <1>x, <1>a, ReplyOK DEF ResponseHandlerFails, QueryTypeOK, Reply
<1>y. CASE ResponseLost(r)
  BY <1>y, <1>a, GotoOK DEF ResponseLost, QueryTypeOK, SaySteps
<1>z. CASE ParentFails(r)
  BY <1>z, <1>a, GotoOK DEF ParentFails, QueryTypeOK, SaySteps
<1> QED BY <1>0, <1>1, <1>2, <1>3, <1>4, <1>5, <1>6, <1>7, <1>8, <1>9, <1>q, <1>x, <1>y, <1>z
        DEF SayStep, NestedStep

(* A restart keeps the types. *)
LEMMA QueryTypeCrash ==
  ASSUME QueryTypeOK, NEW n \in Query \cup {NoQuery}, Crash(n)
  PROVE  QueryTypeOK'
<1>1. say' \in [Call -> Said \cup {Free}]
  <2> DEFINE asker(q)  == mine[q].st # "none" /\ parent[q] = n
             stop(rec) == IF rec.at # "free" /\ asker(rec.q)
                          THEN [rec EXCEPT !.at = "done"] ELSE rec
             left(rec) == IF rec.at # "free" /\ rec.q = n
                          THEN Leave(rec) ELSE rec
             new(rec)  == IF left(stop(rec)).at = "free" THEN Free
                          ELSE Put(left(stop(rec)))
  <2>1. say' = [r \in Call |-> new(say[r])]
    BY DEF Crash
  <2>2. ASSUME NEW rec \in Said PROVE new(rec) \in Said \cup {Free}
    <3>1. stop(rec) \in Said
      BY DEF Said, SaySteps
    <3>2. left(stop(rec)) \in Said
      BY <3>1, LeaveOK
    <3> QED BY <3>2, PutOK
  <2>3. new(Free) = Free
    BY DEF Free
  <2> HIDE DEF new
  <2> QED BY <2>1, <2>2, <2>3 DEF QueryTypeOK
<1>2. ask' \in [Query -> [caller : Caller, at : AskSteps, reply : Reply]]
  <2>1. ASSUME NEW q \in Query
        PROVE  /\ Leave(ask[q]) \in [caller : Caller, at : AskSteps, reply : Reply]
               /\ [ask[q] EXCEPT !.at = "done"] \in [caller : Caller, at : AskSteps, reply : Reply]
               /\ ask[q] \in [caller : Caller, at : AskSteps, reply : Reply]
    BY DEF QueryTypeOK, Leave, Caller, AskSteps, Reply
  <2> QED BY <2>1 DEF Crash
<1>3. fwd' \in [Query -> Forwarding \cup {NotForwarding}]
  BY DEF Crash, QueryTypeOK
<1> QED BY <1>1, <1>2, <1>3 DEF Crash, QueryTypeOK

(* What QueryNext can do, by the query or the call that does it. *)
LEMMA QuerySteps ==
  ASSUME QueryNext
  PROVE  \/ \E q \in Query :
               \/ Request(q)
               \/ \E S \in SUBSET Query, v \in Value : BeginForward(q, S, v)
               \/ ForwardStep(q) \/ AskStep(q)
               \/ RequestHandlerFails(q) \/ RequestLost(q) \/ Hangup(q)
         \/ \E r \in Call :
               \/ \E q \in Query, v \in Value : Respond(q, v, r)
               \/ SayStep(r) \/ NestedStep(r)
               \/ ResponseHandlerFails(r) \/ ResponseLost(r) \/ ParentFails(r)
         \/ \E n \in Query \cup {NoQuery} : Crash(n)
BY DEF QueryNext, UserStep, FaultStep

-----------------------------------------------------------------------------
(* Why answers arrive: an answer is in the asker's row before the handler
   replies, and nothing takes it out again. *)
Sound ==
    /\ \A q \in Query : mine[q].st = "resolved" => Heard(q)
    /\ \A r \in InFlight :
          /\ say[r].at \in {"parent", "children", "asking", "failing", "acking"}
               \/ say[r].reply = "ack" => Heard(say[r].q)
          /\ \A c \in PartsOf(say[r].answer) : Heard(c)
    /\ AnswersArrive

QueryInv == QueryTypeOK /\ Linked /\ Sound

LEMMA QueryInvInit == QueryInit => QueryInv
<1> SUFFICES ASSUME QueryInit PROVE Linked /\ Sound
  BY QueryTypeInit DEF QueryInv
<1>1. InFlight = {} /\ \A q \in Query : mine[q].st = "none" /\ theirs[q].st = "none"
        /\ theirs[q].answer = NoAnswer /\ ask[q].at = "none"
        /\ ~fwd[q].on
  BY DEF QueryInit, InFlight, Free, NotAsked, NotForwarding
<1> QED BY <1>1 DEF Linked, Sound, AnswersArrive, Resolved

(* What asking and forwarding leave alone: the answers the askers hold, the
   calls, and what the answerers regard as resolved. *)
Kept ==
    /\ say' = say
    /\ \A c \in Query :
          /\ mine'[c].answer = mine[c].answer
          /\ mine'[c].st = "resolved" => mine[c].st = "resolved"
          /\ mine[c].st # "none" => mine'[c].st # "none" /\ parent'[c] = parent[c]
          /\ Resolved(c)' => Resolved(c) /\ theirs'[c] = theirs[c]
          /\ theirs'[c].st = "none" => theirs'[c].answer = NoAnswer
          /\ theirs[c].st # "none" => theirs'[c].st # "none"
          /\ fwd'[c].on => theirs'[c].st # "none"
          /\ theirs'[c].st # "none" \/ ask'[c].at # "none" => mine'[c].st # "none"

LEMMA KeptIsEnough ==
  ASSUME QueryInv, Kept
  PROVE  Linked' /\ Sound'
<1>1. InFlight' = InFlight /\ \A r \in InFlight : say[r].q \in Query
  BY InFlightOK DEF Kept, InFlight, QueryInv, Said
<1>2. \A c \in Query : Heard(c)' <=> Heard(c)
  BY DEF Kept, Heard
<1>3. Linked'
  BY <1>1 DEF Kept, QueryInv, Linked, Up
<1>4. \A a \in Answers : PartsOf(a) \subseteq Query
  BY DEF PartsOf, Answers, Answer
<1>5. AnswersArrive'
  BY <1>2, <1>4 DEF Kept, QueryInv, Sound, AnswersArrive, QueryTypeOK
<1>6. \A r \in InFlight : PartsOf(say[r].answer) \subseteq Query
  BY <1>4, InFlightOK DEF QueryInv, Said, Answers
<1> QED BY <1>1, <1>2, <1>3, <1>5, <1>6 DEF Kept, QueryInv, Sound

LEMMA SendKeeps ==
  ASSUME QueryInv, NEW q \in Unasked, NEW p \in Query \cup {NoQuery}, Send(q, p),
         UNCHANGED <<say, theirs>>, \A c \in Query : fwd'[c].on => fwd[c].on
  PROVE  Kept
<1>1. q \in Query /\ mine[q].st = "none" /\ theirs[q].st = "none"
  BY DEF Unasked, QueryInv, Linked
<1>2. mine' = [mine EXCEPT ![q].st = "pending_their_input"] /\ q \in DOMAIN mine
  BY <1>1 DEF Send, QueryInv, QueryTypeOK
<1>3. \A c \in Query : /\ mine'[c].answer = mine[c].answer
                       /\ c # q => mine'[c] = mine[c] /\ parent'[c] = parent[c]
                                     /\ ask'[c] = ask[c]
                       /\ mine'[q].st = "pending_their_input"
  BY <1>1, <1>2 DEF Send, QueryInv, QueryTypeOK
<1> QED BY <1>1, <1>3 DEF Kept, QueryInv, Linked, Resolved

(* Asking and forwarding leave the answers where they are. *)
LEMMA QueryInvRequests ==
  ASSUME QueryInv, NEW q \in Query,
         \/ Request(q)
         \/ \E S \in SUBSET Query, v \in Value : BeginForward(q, S, v)
         \/ ForwardStep(q)
         \/ AskStep(q) \/ RequestHandlerFails(q) \/ RequestLost(q) \/ Hangup(q)
  PROVE  Kept
<1> USE DEF QueryInv, QueryTypeOK, Resolved
<1>0. QueryInv /\ Linked
  BY DEF QueryInv
<1>1. CASE Request(q)
  BY <1>1, SendKeeps DEF Request
<1>2. ASSUME UNCHANGED <<parent, mine, theirs, ask, say>>,
             \A c \in Query : fwd'[c].on => fwd[c].on \/ theirs[c].st # "none"
      PROVE  Kept
  BY <1>2, <1>0 DEF Kept, Linked
<1>3. ASSUME NEW S \in SUBSET Query, NEW v \in Value, BeginForward(q, S, v) PROVE Kept
  <2>1. \A c \in Query : fwd'[c].on => fwd[c].on \/ c = q
    BY <1>3 DEF BeginForward
  <2> QED BY <1>2, <1>3, <2>1 DEF BeginForward
<1>4. ASSUME NEW c \in Query, AskChild(q, c) PROVE Kept
  <2>1. \A p \in Query : fwd'[p].on => fwd[p].on
    BY <1>4 DEF AskChild
  <2> QED BY <1>4, <2>1, SendKeeps DEF AskChild
<1>5. ASSUME NEW c \in Query, ChildRejected(q, c) PROVE Kept
  <2>1. \A p \in Query : fwd'[p].on => fwd[p].on
    BY <1>5 DEF ChildRejected
  <2> QED BY <1>2, <1>5, <2>1 DEF ChildRejected
<1>6. ASSUME UNCHANGED <<parent, mine, say>>,
             NEW x, theirs' = [theirs EXCEPT ![q] = x], x.st \notin {"none", "resolved"},
             \A c \in Query : ask'[c].at # "none" => ask[c].at # "none",
             theirs[q].st # "none" \/ ask[q].at # "none",
             \A c \in Query : fwd'[c].on => fwd[c].on
      PROVE  Kept
  BY <1>0, <1>6 DEF Kept, Linked
<1>7. CASE EndForward(q)
  <2>1. \A p \in Query : fwd'[p].on => fwd[p].on
    BY <1>7 DEF EndForward, NotForwarding
  <2>2. CASE fwd[q].rejected
    BY <1>2, <1>7, <2>1, <2>2 DEF EndForward
  <2>3. CASE ~fwd[q].rejected
    <3> DEFINE x == [st |-> "forwarded", answer |-> [value |-> fwd[q].value, parts |-> {}]]
    <3>1. theirs' = [theirs EXCEPT ![q] = x] /\ x.st = "forwarded"
      BY <1>7, <2>3 DEF EndForward
    <3>2. theirs[q].st # "none"
      BY <1>7, <1>0 DEF EndForward, Linked
    <3> HIDE DEF x
    <3> QED BY <1>6, <1>7, <2>1, <3>1, <3>2 DEF EndForward
  <2> QED BY <2>2, <2>3
<1>8. CASE ReceiveRequest(q)
  <2> DEFINE x == [st |-> "pending_your_input", answer |-> NoAnswer]
  <2>1. theirs' = [theirs EXCEPT ![q] = x] /\ x.st = "pending_your_input"
    BY <1>8 DEF ReceiveRequest
  <2>2. \A c \in Query : ask'[c].at # "none" => ask[c].at # "none"
    BY <1>8 DEF ReceiveRequest
  <2> HIDE DEF x
  <2> QED BY <1>6, <1>8, <2>1, <2>2 DEF ReceiveRequest
<1>9. ASSUME UNCHANGED <<parent, mine, theirs, say, fwd>>,
             \A c \in Query : ask'[c].at # "none" => ask[c].at # "none"
      PROVE  Kept
  BY <1>0, <1>9 DEF Kept, Linked
<1>10. CASE AckRequest(q) \/ LogRequest(q) \/ RequestLost(q)
  <2>1. \A c \in Query : ask'[c].at # "none" => ask[c].at # "none"
    BY <1>10 DEF AckRequest, LogRequest, RequestLost, Tell
  <2> QED BY <1>9, <1>10, <2>1 DEF AckRequest, LogRequest, RequestLost
<1>11. ASSUME ask' = [ask EXCEPT ![q] = Leave(ask[q])]
       PROVE  \A c \in Query : ask'[c].at # "none" => ask[c].at # "none"
  BY <1>11 DEF Leave
<1>12. CASE RequestEnds(q)
  BY <1>9, <1>11, <1>12 DEF RequestEnds
<1>13. CASE RequestFails(q)
  <2>1. ask' = [ask EXCEPT ![q] = Leave(ask[q])]
    BY <1>13 DEF RequestFails
  <2>2. \A c \in Query : ask'[c].at # "none" => ask[c].at # "none"
    BY <1>11, <2>1
  <2>3. mine' = [mine EXCEPT ![q] = [mine[q] EXCEPT !.st = "errored"]]
    BY <1>13 DEF RequestFails
  <2>4. \A c \in Query : /\ mine'[c].answer = mine[c].answer
                         /\ c # q => mine'[c] = mine[c]
                         /\ mine'[q].st = "errored"
    BY <2>3
  <2> QED BY <1>0, <1>13, <2>2, <2>4 DEF RequestFails, Kept, Linked
<1>14. CASE RequestHandlerFails(q)
  <2>1. \A c \in Query : ask'[c].at # "none" => ask[c].at # "none"
    BY <1>14 DEF RequestHandlerFails, Tell
  <2>2. CASE ask[q].at = "sent"
    BY <1>9, <1>14, <2>1, <2>2 DEF RequestHandlerFails
  <2>3. CASE ask[q].at # "sent"
    <3> DEFINE x == [theirs[q] EXCEPT !.st = "errored"]
    <3>1. theirs' = [theirs EXCEPT ![q] = x] /\ x.st = "errored"
      BY <1>14, <2>3 DEF RequestHandlerFails
    <3> HIDE DEF x
    <3> QED BY <1>6, <1>14, <2>1, <3>1 DEF RequestHandlerFails
  <2> QED BY <2>2, <2>3
<1>15. CASE Hangup(q)
  BY <1>2, <1>15 DEF Hangup
<1> QED BY <1>1, <1>3, <1>4, <1>5, <1>7, <1>8, <1>10, <1>12, <1>13, <1>14, <1>15
        DEF ForwardStep, AskStep

-----------------------------------------------------------------------------
(* What answering may do to the slots: the calls that are in flight afterwards
   are calls from before that differ in their progress only, or satisfy what
   every call has to satisfy. *)
CallOK(rec, r) ==
    /\ mine[rec.q].st # "none" /\ theirs[rec.q].st # "none" /\ rec.within # r
    /\ rec.at \in {"parent", "children", "asking", "failing"} => parent[rec.q] \in Query
    /\ rec.at \in {"parent", "children", "asking", "failing", "acking"}
         \/ rec.reply = "ack" => Heard(rec.q)
    /\ \A c \in PartsOf(rec.answer) : Heard(c)

(* The answers that are held after a step. *)
Grows ==
    /\ \A q \in Query : /\ Heard(q) => Heard(q)'
                        /\ mine[q].st # "none" => mine'[q].st # "none"
                        /\ mine'[q].st = "resolved" => Heard(q)'
                        /\ theirs[q].st # "none" <=> theirs'[q].st # "none"
                        /\ theirs'[q].st = "none" => theirs'[q].answer = theirs[q].answer
                        /\ ask'[q].at = "none" <=> ask[q].at = "none"
                        /\ fwd'[q].on => fwd[q].on
                        /\ Resolved(q)' => \/ Resolved(q) /\ theirs'[q] = theirs[q]
                                          \/ /\ theirs'[q].answer # NoAnswer /\ Heard(q)
                                             /\ \A c \in PartsOf(theirs'[q].answer) : Heard(c)
    /\ parent' = parent
    /\ \A r \in InFlight' : CallOK(say[r], r)'

LEMMA GrowsIsEnough ==
  ASSUME QueryInv, QueryTypeOK', Grows
  PROVE  Linked' /\ Sound'
<1>1. \A a \in Answers : PartsOf(a) \subseteq Query
  BY DEF PartsOf, Answers, Answer
<1>2. \A q \in Query : PartsOf(theirs[q].answer) \subseteq Query
                       /\ PartsOf(theirs'[q].answer) \subseteq Query
  BY <1>1 DEF QueryInv, QueryTypeOK
<1>3. AnswersArrive'
  BY <1>2 DEF Grows, QueryInv, Sound, AnswersArrive
<1>4. Linked'
  BY DEF Grows, QueryInv, Linked, CallOK, Up
<1> QED BY <1>3, <1>4 DEF Grows, QueryInv, Sound, CallOK

(* No row disappears, no answer is taken back. *)
Monotone ==
    \A q \in Query : /\ Heard(q) => Heard(q)'
                     /\ mine[q].st # "none" => mine'[q].st # "none"
                     /\ theirs[q].st # "none" => theirs'[q].st # "none"

(* A call from before still satisfies what it has to. *)
LEMMA OldCallOK ==
  ASSUME QueryInv, NEW r \in InFlight, parent' = parent,
         Monotone,
         NEW rec \in Said, rec.q = say[r].q, rec.answer = say[r].answer,
         rec.within = say[r].within, rec.reply = "ack" => say[r].reply = "ack" \/ Heard(rec.q),
         rec.at \in {"parent", "children", "asking", "failing"} =>
            parent[rec.q] \in Query,
         rec.at \in {"parent", "children", "asking", "failing", "acking"} => Heard(rec.q)'
  PROVE  /\ mine'[rec.q].st # "none" /\ theirs'[rec.q].st # "none" /\ rec.within # r
         /\ rec.at \in {"parent", "children", "asking", "failing"} => parent'[rec.q] \in Query
         /\ rec.at \in {"parent", "children", "asking", "failing", "acking"}
              \/ rec.reply = "ack" => Heard(rec.q)'
         /\ \A c \in PartsOf(rec.answer) : Heard(c)'
<1>1. r \in Call /\ say[r] \in Said /\ rec.q \in Query
  BY InFlightOK DEF QueryInv, Said
<1>2. PartsOf(rec.answer) \subseteq Query
  BY DEF PartsOf, Said, Answer
<1> QED BY <1>1, <1>2 DEF QueryInv, Linked, Sound, Monotone

(* A call nobody touched. *)
LEMMA SameCallOK ==
  ASSUME QueryInv, NEW r \in InFlight, parent' = parent, say'[r] = say[r],
         Monotone
  PROVE  CallOK(say[r], r)'
<1>1. say[r] \in Said /\ say[r].q \in Query
  BY InFlightOK DEF QueryInv, Said
<1>2. /\ say[r].at \in {"parent", "children", "asking", "failing"} => parent[say[r].q] \in Query
      /\ say[r].at \in {"parent", "children", "asking", "failing", "acking"} => Heard(say[r].q)'
  BY <1>1 DEF QueryInv, Linked, Sound, Up, Monotone
<1> QED BY <1>1, <1>2, OldCallOK DEF CallOK

(* The acting call goes on, the others stay. *)
LEMMA MoveOK ==
  ASSUME QueryInv, NEW r \in InFlight, NEW rec \in Said, parent' = parent,
         say' = [say EXCEPT ![r] = Put(rec)],
         Monotone,
         rec.q = say[r].q, rec.answer = say[r].answer, rec.within = say[r].within,
         rec.reply = "ack" => say[r].reply = "ack" \/ Heard(rec.q),
         rec.at \in {"parent", "children", "asking", "failing"} => parent[rec.q] \in Query,
         rec.at \in {"parent", "children", "asking", "failing", "acking"} => Heard(rec.q)'
  PROVE  \A x \in InFlight' : CallOK(say[x], x)'
<1>1. r \in Call /\ say \in [Call -> Said \cup {Free}]
  BY InFlightOK DEF QueryInv, QueryTypeOK
<1>2. ASSUME NEW x \in InFlight', x # r PROVE CallOK(say[x], x)'
  <2>1. x \in InFlight /\ say'[x] = say[x]
    BY <1>1, <1>2 DEF InFlight
  <2> QED BY <2>1, SameCallOK
<1>3. ASSUME r \in InFlight' PROVE CallOK(say[r], r)'
  <2>1. say'[r] = rec
    BY <1>1, <1>3 DEF InFlight, Put, Free
  <2> QED BY <2>1, OldCallOK DEF CallOK
<1> QED BY <1>2, <1>3

(* Steps of a handler that touch no row. *)
LEMMA GrowsByCall ==
  ASSUME QueryInv, UNCHANGED <<parent, mine, theirs, ask, fwd>>,
         \A x \in InFlight' : CallOK(say[x], x)'
  PROVE  Grows
<1>1. \A q \in Query : /\ Heard(q)' <=> Heard(q)
                       /\ Resolved(q)' <=> Resolved(q)
                       /\ mine[q].st = "resolved" => Heard(q)
  BY DEF QueryInv, Sound, Heard, Resolved
<1> QED BY <1>1 DEF Grows

LEMMA GotoGrows ==
  ASSUME QueryInv, NEW r \in InFlight, NEW l \in SaySteps, Goto(r, l),
         UNCHANGED <<parent, mine, theirs, ask, fwd>>,
         l \in {"parent", "children", "asking", "failing"} => Up(r) \in Query,
         l \in {"parent", "children", "asking", "failing", "acking"} => Heard(say[r].q)
  PROVE  Grows
<1>1. say[r] \in Said /\ [say[r] EXCEPT !.at = l] \in Said
  BY InFlightOK DEF QueryInv, Said
<1>2. PICK rec \in Said : rec = [say[r] EXCEPT !.at = l]
  BY <1>1
<1>3. /\ rec.q = say[r].q /\ rec.answer = say[r].answer /\ rec.within = say[r].within
      /\ rec.reply = say[r].reply /\ rec.at = l
  BY <1>1, <1>2 DEF Said
<1>4. say' = [say EXCEPT ![r] = Put(rec)]
  BY <1>2 DEF Goto
<1>5. Monotone
  BY DEF Monotone, Heard
<1>6. /\ rec.at \in {"parent", "children", "asking", "failing"} => parent[rec.q] \in Query
      /\ rec.at \in {"parent", "children", "asking", "failing", "acking"} => Heard(rec.q)'
  BY <1>3 DEF Heard, Up
<1>7. \A x \in InFlight' : CallOK(say[x], x)'
  BY <1>3, <1>4, <1>5, <1>6, MoveOK
<1> QED BY <1>7, GrowsByCall

LEMMA ReplyGrows ==
  ASSUME QueryInv, NEW r \in InFlight, NEW x \in Reply, ReplyWith(r, x),
         UNCHANGED <<parent, mine, theirs, ask, fwd>>,
         x = "ack" => Heard(say[r].q)
  PROVE  Grows
<1>1. say[r] \in Said /\ [say[r] EXCEPT !.at = "done"] \in Said
  BY InFlightOK DEF QueryInv, Said, SaySteps
<1>2. PICK rec \in Said : rec = Tell([say[r] EXCEPT !.at = "done"], x)
  BY <1>1, TellOK
<1>3. /\ rec.q = say[r].q /\ rec.answer = say[r].answer /\ rec.within = say[r].within
      /\ rec.reply = say[r].reply \/ rec.reply = x
      /\ rec.at = "done"
  BY <1>1, <1>2 DEF Said, Tell
<1>4. say' = [say EXCEPT ![r] = Put(rec)]
  BY <1>2 DEF ReplyWith
<1>5. Monotone
  BY DEF Monotone, Heard
<1>6. rec.reply = "ack" => say[r].reply = "ack" \/ Heard(rec.q)
  BY <1>3 DEF Heard
<1>7. \A y \in InFlight' : CallOK(say[y], y)'
  BY <1>3, <1>4, <1>5, <1>6, MoveOK
<1> QED BY <1>7, GrowsByCall

(* The caller leaves: its slot keeps what it has. *)
LEMMA GoneGrows ==
  ASSUME QueryInv, NEW r \in InFlight, say' = CallerGone(r), UNCHANGED <<parent, mine>>,
         \A q \in Query : theirs[q].st # "none" => theirs'[q].st # "none"
  PROVE  \A x \in InFlight' : CallOK(say[x], x)'
<1>1. say[r] \in Said /\ Leave(say[r]) \in Said
  BY InFlightOK, LeaveOK DEF QueryInv
<1>2. PICK rec \in Said : rec = Leave(say[r])
  BY <1>1
<1>3. /\ rec.q = say[r].q /\ rec.answer = say[r].answer /\ rec.within = say[r].within
      /\ rec.reply = "none" /\ rec.at = say[r].at
  BY <1>1, <1>2 DEF Said, Leave
<1>4. say' = [say EXCEPT ![r] = Put(rec)]
  BY <1>2 DEF CallerGone
<1>5. Monotone
  BY DEF Monotone, Heard
<1>6. /\ rec.at \in {"parent", "children", "asking", "failing"} => parent[rec.q] \in Query
      /\ rec.at \in {"parent", "children", "asking", "failing", "acking"} => Heard(rec.q)'
  BY <1>3 DEF QueryInv, Linked, Sound, Up, Heard
<1> QED BY <1>3, <1>4, <1>5, <1>6, MoveOK

(* Answering only adds answers, and a call goes on only as far as they allow. *)
LEMMA QueryInvResponses ==
  ASSUME QueryInv, NEW r \in Call,
         \/ \E q \in Query, v \in Value : Respond(q, v, r)
         \/ SayStep(r) \/ NestedStep(r)
         \/ ResponseHandlerFails(r) \/ ResponseLost(r) \/ ParentFails(r)
  PROVE  Grows
<1>a. ASSUME NEW l, At(r, l)
      PROVE  /\ r \in InFlight /\ say[r] \in Said /\ say[r].at = l
             /\ l \in {"parent", "children", "asking", "failing"} => Up(r) \in Query
             /\ l \in {"parent", "children", "asking", "failing", "acking"} => Heard(say[r].q)
  BY <1>a, InFlightOK DEF At, QueryInv, Linked, Sound
<1>0. CASE \E q \in Query, v \in Value : Respond(q, v, r)
  <2>1. PICK q \in Query, v \in Value : Respond(q, v, r)
    BY <1>0
  <2>2. \A x \in InFlight' : x # r => x \in InFlight /\ say'[x] = say[x]
    BY <2>1 DEF Respond, InFlight, QueryInv, QueryTypeOK
  <2>3. say'[r] = NewCall(q, [value |-> v, parts |-> {}], NoCall, "form")
    BY <2>1 DEF Respond, QueryInv, QueryTypeOK
  <2>4. mine[q].st # "none" /\ theirs[q].st # "none" /\ NoCall # r
    BY <2>1, NullsAreNotQueries DEF Respond, MayAnswer, QueryInv, Linked
  <2>5. CallOK(say[r], r)'
    BY <2>1, <2>3, <2>4 DEF Respond, CallOK, NewCall, PartsOf
  <2>6. Monotone
    BY <2>1 DEF Respond, Heard, Monotone
  <2>7. \A x \in InFlight' : CallOK(say[x], x)'
    BY <2>1, <2>2, <2>5, <2>6, SameCallOK DEF Respond
  <2> QED BY <2>1, <2>7, GrowsByCall DEF Respond
<1>1. CASE ReceiveResponse(r)
  BY <1>1, <1>a, GotoGrows DEF ReceiveResponse, SaySteps
<1>3. CASE AckResponse(r)
  BY <1>3, <1>a, ReplyGrows DEF AckResponse, Reply
<1>4. CASE CheckParent(r)
  BY <1>4, <1>a, GotoGrows DEF CheckParent, SaySteps
<1>5. CASE NotAllAnswered(r)
  BY <1>5, <1>a, GotoGrows DEF NotAllAnswered, SaySteps
<1>x. CASE ResponseHandlerFails(r)
  BY <1>x, <1>a, ReplyGrows DEF ResponseHandlerFails, Reply
<1>y. CASE ResponseLost(r)
  BY <1>y, <1>a, GotoGrows DEF ResponseLost, SaySteps
<1>z. CASE ParentFails(r)
  BY <1>z, <1>a, GotoGrows DEF ParentFails, SaySteps
<1>m. ASSUME At(r, "read") \/ At(r, "failing"),
             NEW row, row.st # "none", mine' = [mine EXCEPT ![say[r].q] = row],
             row.answer # NoAnswer,
             NEW l \in SaySteps, Goto(r, l), UNCHANGED <<parent, theirs, ask, fwd>>,
             l = "parent" => Up(r) \in Query, l \in {"parent", "acking"}
      PROVE  Grows
  <2>1. r \in InFlight /\ say[r] \in Said /\ say[r].q \in Query
        /\ [say[r] EXCEPT !.at = l] \in Said
    BY <1>m, <1>a DEF Said
  <2>2. PICK rec \in Said : rec = [say[r] EXCEPT !.at = l]
    BY <2>1
  <2>3. /\ rec.q = say[r].q /\ rec.answer = say[r].answer /\ rec.within = say[r].within
        /\ rec.reply = say[r].reply /\ rec.at = l
        /\ say' = [say EXCEPT ![r] = Put(rec)]
    BY <1>m, <2>1, <2>2 DEF Said, Goto
  <2>4. \A q \in Query : IF q = rec.q THEN mine'[q] = row ELSE mine'[q] = mine[q]
    BY <1>m, <2>1, <2>3 DEF QueryInv, QueryTypeOK
  <2>5. \A q \in Query : /\ Heard(q) => Heard(q)'
                         /\ mine[q].st # "none" => mine'[q].st # "none"
                         /\ mine'[q].st = "resolved" => Heard(q)'
    BY <1>m, <2>4 DEF Heard, QueryInv, Sound
  <2>6. Heard(rec.q)'
    BY <1>m, <2>1, <2>3, <2>4 DEF Heard
  <2>7. rec.at \in {"parent", "children", "asking", "failing"} => parent[rec.q] \in Query
    BY <1>m, <2>3 DEF Up
  <2>8. \A x \in InFlight' : CallOK(say[x], x)'
    BY <1>m, <2>1, <2>3, <2>5, <2>6, <2>7, MoveOK DEF Monotone
  <2>9. \A q \in Query : Resolved(q)' <=> Resolved(q)
    BY <1>m DEF Resolved
  <2> QED BY <1>m, <2>5, <2>8, <2>9 DEF Grows, QueryInv, Linked
<1>2. CASE StoreResponse(r)
  <2>1. say[r] \in Said /\ say[r].q \in Query /\ say[r].answer # NoAnswer
    BY <1>2, <1>a, NullIsNoAnswer DEF StoreResponse, Said
  <2>2. parent[say[r].q] \in Query \cup {NoQuery}
    BY <2>1 DEF QueryInv, QueryTypeOK
  <2>3. IF parent[say[r].q] = NoQuery THEN Goto(r, "acking")
        ELSE Goto(r, "parent") /\ Up(r) \in Query
    BY <1>2, <2>2 DEF StoreResponse, Up
  <2> DEFINE row == [st |-> "resolved", answer |-> say[r].answer]
  <2>4. row.st # "none" /\ row.answer # NoAnswer /\ mine' = [mine EXCEPT ![say[r].q] = row]
    BY <1>2, <2>1 DEF StoreResponse
  <2> HIDE DEF row
  <2> QED BY <1>2, <1>m, <2>3, <2>4 DEF StoreResponse, SaySteps
<1>6. CASE FailChild(r)
  <2> DEFINE row == [mine[say[r].q] EXCEPT !.st = "errored"]
  <2>1. say[r].q \in Query /\ Heard(say[r].q)
    BY <1>6, <1>a DEF FailChild, Said
  <2>2. row.st # "none" /\ row.answer # NoAnswer /\ mine' = [mine EXCEPT ![say[r].q] = row]
    BY <1>6, <2>1 DEF FailChild, Heard, QueryInv, QueryTypeOK
  <2> HIDE DEF row
  <2> QED BY <1>6, <1>m, <2>2 DEF FailChild, SaySteps
<1>t. ASSUME NEW q \in Query, NEW row, theirs' = [theirs EXCEPT ![q] = row],
             theirs[q].st # "none", row.st # "none",
             row.st = "resolved" => /\ row.answer # NoAnswer /\ Heard(q)
                                    /\ \A c \in PartsOf(row.answer) : Heard(c),
             UNCHANGED <<parent, mine, ask, fwd>>,
             \A x \in InFlight' : CallOK(say[x], x)'
      PROVE  Grows
  <2>1. \A c \in Query : IF c = q THEN theirs'[c] = row ELSE theirs'[c] = theirs[c]
    BY <1>t DEF QueryInv, QueryTypeOK
  <2>2. \A c \in Query : /\ Heard(c)' <=> Heard(c)
                         /\ mine[c].st = "resolved" => Heard(c)
    BY <1>t DEF Heard, QueryInv, Sound
  <2> QED BY <1>t, <2>1, <2>2 DEF Grows, Resolved
<1>c. ASSUME r \in InFlight
      PROVE  /\ say[r] \in Said /\ say[r].q \in Query /\ theirs[say[r].q].st # "none"
             /\ say[r].answer # NoAnswer /\ PartsOf(say[r].answer) \subseteq Query
             /\ say[r].reply = "ack" => Heard(say[r].q)
             /\ \A c \in PartsOf(say[r].answer) : Heard(c)
  BY <1>c, InFlightOK, NullIsNoAnswer DEF QueryInv, Linked, Sound, Said, PartsOf, Answer
<1>7. CASE FormEnds(r)
  <2>1. r \in InFlight /\ say[r].reply = "ack"
    BY <1>7 DEF FormEnds
  <2>2. PICK q, row : /\ q \in Query /\ q = say[r].q
                     /\ row = [st |-> "resolved", answer |-> say[r].answer]
    BY <1>c, <2>1
  <2>3. theirs' = [theirs EXCEPT ![q] = row]
    BY <1>7, <2>2 DEF FormEnds
  <2>4. \A c \in Query : theirs[c].st # "none" => theirs'[c].st # "none"
    BY <2>2, <2>3 DEF QueryInv, QueryTypeOK
  <2>5. \A x \in InFlight' : CallOK(say[x], x)'
    BY <1>7, <2>1, <2>4, GoneGrows DEF FormEnds
  <2>6. /\ theirs[q].st # "none" /\ Heard(q) /\ row.answer # NoAnswer
        /\ \A c \in PartsOf(row.answer) : Heard(c)
    BY <1>c, <2>1, <2>2
  <2>7. row.st = "resolved" /\ UNCHANGED <<parent, mine, ask, fwd>>
    BY <1>7, <2>2 DEF FormEnds
  <2> QED BY <1>t, <2>2, <2>3, <2>5, <2>6, <2>7
<1>8. CASE FormFails(r)
  <2>1. r \in InFlight
    BY <1>8 DEF FormFails
  <2>2. PICK q, row : /\ q \in Query /\ q = say[r].q
                     /\ row = [theirs[q] EXCEPT !.st = "errored"]
    BY <1>c, <2>1
  <2>3. theirs' = [theirs EXCEPT ![q] = row] /\ row.st = "errored"
    BY <1>8, <2>2 DEF FormFails, QueryInv, QueryTypeOK
  <2>4. \A c \in Query : theirs[c].st # "none" => theirs'[c].st # "none"
    BY <2>2, <2>3 DEF QueryInv, QueryTypeOK
  <2>5. \A x \in InFlight' : CallOK(say[x], x)'
    BY <1>8, <2>1, <2>4, GoneGrows DEF FormFails
  <2> QED BY <1>8, <1>c, <1>t, <2>1, <2>2, <2>3, <2>5 DEF FormFails
<1>9. ASSUME NEW s \in Call, AnswerParent(r, s) PROVE Grows
  <2>1. /\ r \in InFlight /\ say[r] \in Said /\ Up(r) \in Query /\ r # s
        /\ Heard(say[r].q) /\ theirs[Up(r)].st # "none" /\ mine[Up(r)].st # "none"
    BY <1>9, <1>a DEF AnswerParent, InFlight, Free, QueryInv, Linked
  <2>2. PICK rec \in Said : rec = [say[r] EXCEPT !.at = "asking"]
    BY <2>1 DEF Said, SaySteps
  <2>3. PICK new : new = NewCall(Up(r), Aggregate(Up(r)), r, "handler")
    OBVIOUS
  <2>4. /\ say'[r] = rec /\ say'[s] = new
        /\ \A x \in InFlight' : x \notin {r, s} => x \in InFlight /\ say'[x] = say[x]
    BY <1>9, <2>1, <2>2, <2>3 DEF AnswerParent, InFlight, QueryInv, QueryTypeOK
  <2>5. Monotone
    BY <1>9 DEF AnswerParent, Monotone, Heard
  <2>6. CallOK(say[r], r)'
    <3>1. /\ rec.q = say[r].q /\ rec.answer = say[r].answer /\ rec.within = say[r].within
          /\ rec.reply = say[r].reply /\ rec.at = "asking" /\ parent[rec.q] \in Query
          /\ Heard(rec.q)'
      BY <1>9, <2>1, <2>2 DEF Said, Up, AnswerParent, Heard
    <3> QED BY <1>9, <2>1, <2>4, <2>5, <3>1, OldCallOK DEF CallOK, AnswerParent
  <2>7. CallOK(say[s], s)'
    <3>1. \A c \in PartsOf(Aggregate(Up(r))) : Heard(c)
      BY DEF PartsOf, Aggregate, Heard
    <3>2. /\ new.q = Up(r) /\ new.answer = Aggregate(Up(r)) /\ new.within = r
          /\ new.at = "sent" /\ new.reply = "none"
      BY <2>3 DEF NewCall
    <3>3. \A c \in PartsOf(new.answer) : Heard(c)'
      BY <1>9, <3>1, <3>2 DEF AnswerParent, Heard
    <3> QED BY <1>9, <2>1, <2>4, <3>2, <3>3 DEF CallOK, AnswerParent
  <2>8. \A x \in InFlight' : CallOK(say[x], x)'
    BY <1>9, <2>4, <2>5, <2>6, <2>7, SameCallOK DEF AnswerParent
  <2> QED BY <1>9, <2>8, GrowsByCall DEF AnswerParent
<1>n. ASSUME NEW s \in InFlight, say[r].at = "asking", r \in InFlight, say[s].within = r,
             NEW l \in {"acking", "failing"},
             say' = [CallerGone(s) EXCEPT ![r].at = l], UNCHANGED <<parent, mine>>,
             \A q \in Query : theirs[q].st # "none" => theirs'[q].st # "none"
      PROVE  \A x \in InFlight' : CallOK(say[x], x)'
  <2>1. /\ r # s /\ s \in Call /\ say[s] \in Said /\ say[r] \in Said
        /\ Leave(say[s]) \in Said /\ [say[r] EXCEPT !.at = l] \in Said
    BY <1>n, <1>c, InFlightOK, LeaveOK DEF QueryInv, Linked, Said, SaySteps
  <2>2. PICK rec \in Said, old \in Said :
          rec = [say[r] EXCEPT !.at = l] /\ old = Leave(say[s])
    BY <2>1
  <2>3. /\ say'[r] = rec
        /\ s \in InFlight' => say'[s] = old
        /\ \A x \in InFlight' : x \notin {r, s} => x \in InFlight /\ say'[x] = say[x]
    BY <1>n, <2>1, <2>2 DEF CallerGone, Put, Free, InFlight, QueryInv, QueryTypeOK
  <2>4. Monotone
    BY <1>n DEF Monotone, Heard
  <2>5. CallOK(say[r], r)'
    <3>1. /\ rec.q = say[r].q /\ rec.answer = say[r].answer /\ rec.within = say[r].within
          /\ rec.reply = say[r].reply /\ rec.at = l
      BY <2>1, <2>2 DEF Said
    <3>2. parent[rec.q] \in Query /\ Heard(rec.q)'
      BY <1>n, <3>1 DEF QueryInv, Linked, Sound, Up, Heard
    <3> QED BY <1>n, <2>3, <2>4, <3>1, <3>2, OldCallOK DEF CallOK
  <2>6. ASSUME s \in InFlight' PROVE CallOK(say[s], s)'
    <3>1. /\ old.q = say[s].q /\ old.answer = say[s].answer /\ old.within = say[s].within
          /\ old.reply = "none" /\ old.at = say[s].at
      BY <2>1, <2>2 DEF Said, Leave
    <3>2. /\ old.at \in {"parent", "children", "asking", "failing"} => parent[old.q] \in Query
          /\ old.at \in {"parent", "children", "asking", "failing", "acking"} => Heard(old.q)'
      BY <1>n, <3>1 DEF QueryInv, Linked, Sound, Up, Heard
    <3> QED BY <1>n, <2>3, <2>4, <2>6, <3>1, <3>2, OldCallOK DEF CallOK
  <2> QED BY <1>n, <2>3, <2>4, <2>5, <2>6, SameCallOK
<1>p. ASSUME NEW s \in Call, ParentAnswered(r, s) PROVE Grows
  <2>1. /\ s \in InFlight /\ r \in InFlight /\ say[r].at = "asking" /\ say[s].within = r
        /\ say[s].reply = "ack" /\ say' = [CallerGone(s) EXCEPT ![r].at = "acking"]
    BY <1>p DEF ParentAnswered, At
  <2>2. PICK q, row : /\ q \in Query /\ q = say[s].q
                     /\ row = [st |-> "resolved", answer |-> say[s].answer]
    BY <2>1, InFlightOK DEF QueryInv, Said
  <2>3. theirs' = [theirs EXCEPT ![q] = row]
    BY <1>p, <2>2 DEF ParentAnswered
  <2>4. /\ theirs[q].st # "none" /\ Heard(q) /\ row.answer # NoAnswer
        /\ \A c \in PartsOf(row.answer) : Heard(c)
    BY <2>1, <2>2, InFlightOK, NullIsNoAnswer DEF QueryInv, Linked, Sound, Said
  <2>5. \A c \in Query : theirs[c].st # "none" => theirs'[c].st # "none"
    BY <2>2, <2>3 DEF QueryInv, QueryTypeOK
  <2>6. \A x \in InFlight' : CallOK(say[x], x)'
    BY <1>p, <1>n, <2>1, <2>5 DEF ParentAnswered
  <2> QED BY ZenonT(30), <1>p, <1>t, <2>2, <2>3, <2>4, <2>6 DEF ParentAnswered
<1>q. ASSUME NEW s \in Call, ParentNotAnswered(r, s) PROVE Grows
  <2>1. /\ s \in InFlight /\ r \in InFlight /\ say[r].at = "asking" /\ say[s].within = r
        /\ say' = [CallerGone(s) EXCEPT ![r].at = "failing"]
    BY <1>q DEF ParentNotAnswered, At
  <2>2. \A x \in InFlight' : CallOK(say[x], x)'
    BY <1>q, <1>n, <2>1 DEF ParentNotAnswered
  <2> QED BY <1>q, <2>2, GrowsByCall DEF ParentNotAnswered
<1> QED BY <1>0, <1>1, <1>2, <1>3, <1>4, <1>5, <1>6, <1>7, <1>8, <1>9, <1>p, <1>q, <1>x, <1>y, <1>z
        DEF SayStep, NestedStep

(* A restart ends calls and takes no answer away. *)
LEMMA QueryInvCrash ==
  ASSUME QueryInv, NEW n \in Query \cup {NoQuery}, Crash(n)
  PROVE  Grows
<1>1. ASSUME NEW x \in InFlight'
      PROVE  /\ x \in InFlight /\ say'[x] \in Said
             /\ say'[x].q = say[x].q /\ say'[x].answer = say[x].answer
             /\ say'[x].within = say[x].within
             /\ say'[x].at \in {say[x].at, "done"} /\ say'[x].reply \in {say[x].reply, "none"}
  <2> DEFINE asker(q)  == mine[q].st # "none" /\ parent[q] = n
             stop(rec) == IF rec.at # "free" /\ asker(rec.q)
                          THEN [rec EXCEPT !.at = "done"] ELSE rec
             left(rec) == IF rec.at # "free" /\ rec.q = n THEN Leave(rec) ELSE rec
             new(rec)  == IF left(stop(rec)).at = "free" THEN Free
                          ELSE Put(left(stop(rec)))
  <2>1. say' = [r \in Call |-> new(say[r])]
    BY DEF Crash
  <2>2. x \in Call /\ say'[x] = new(say[x]) /\ new(say[x]).at # "free"
    BY <1>1, <2>1 DEF InFlight
  <2>3. x \in InFlight /\ say[x] \in Said
    BY <2>2 DEF InFlight, Free, QueryInv, QueryTypeOK
  <2>4. /\ stop(say[x]) \in Said /\ stop(say[x]).q = say[x].q
        /\ stop(say[x]).answer = say[x].answer /\ stop(say[x]).within = say[x].within
        /\ stop(say[x]).at \in {say[x].at, "done"} /\ stop(say[x]).reply = say[x].reply
    BY <2>3 DEF Said, SaySteps
  <2> DEFINE old == stop(say[x])
  <2> HIDE DEF stop
  <2>5. /\ left(old) \in Said /\ left(old).q = old.q
        /\ left(old).answer = old.answer /\ left(old).within = old.within
        /\ left(old).at = old.at /\ left(old).reply \in {old.reply, "none"}
    BY <2>4, LeaveOK DEF Leave, Said
  <2> HIDE DEF left
  <2>6. new(say[x]) = left(old)
    BY <2>2 DEF Put, Free
  <2> HIDE DEF new, old
  <2> QED BY <2>2, <2>3, <2>4, <2>5, <2>6 DEF old
<1>2. UNCHANGED <<parent, mine, theirs>>
  BY DEF Crash
<1>3. Monotone
  BY <1>2 DEF Monotone, Heard
<1>4. ASSUME NEW x \in InFlight' PROVE CallOK(say[x], x)'
  <2>1. PICK rec \in Said : rec = say'[x]
    BY <1>1, <1>4
  <2>2. /\ x \in InFlight /\ rec.q = say[x].q /\ rec.answer = say[x].answer
        /\ rec.within = say[x].within /\ rec.at \in {say[x].at, "done"}
        /\ rec.reply \in {say[x].reply, "none"}
    BY <1>1, <1>4, <2>1
  <2>3. /\ rec.at \in {"parent", "children", "asking", "failing"} => parent[rec.q] \in Query
        /\ rec.at \in {"parent", "children", "asking", "failing", "acking"} => Heard(rec.q)'
    BY <1>2, <2>2 DEF QueryInv, Linked, Sound, Up, Heard
  <2> QED BY <1>2, <1>3, <2>1, <2>2, <2>3, OldCallOK DEF CallOK
<1>5. \A q \in Query : (ask'[q].at = "none" <=> ask[q].at = "none") /\ (fwd'[q].on => fwd[q].on)
  BY DEF Crash, Leave, NotForwarding, QueryInv, QueryTypeOK
<1> QED BY <1>2, <1>4, <1>5 DEF Grows, QueryInv, Sound, Linked, Heard, Resolved

(* The invariant is inductive. *)
LEMMA QueryInvStep ==
  ASSUME QueryInv, QueryNext
  PROVE  QueryInv' /\ (Kept \/ Grows)
<1>1. ASSUME NEW q \in Query,
             \/ Request(q)
             \/ \E S \in SUBSET Query, v \in Value : BeginForward(q, S, v)
             \/ ForwardStep(q) \/ AskStep(q)
             \/ RequestHandlerFails(q) \/ RequestLost(q) \/ Hangup(q)
      PROVE  QueryInv' /\ Kept
  <2>1. QueryTypeOK' /\ Kept
    BY <1>1, QueryTypeRequests, QueryInvRequests DEF QueryInv
  <2> QED BY <2>1, KeptIsEnough DEF QueryInv
<1>2. ASSUME NEW r \in Call,
             \/ \E q \in Query, v \in Value : Respond(q, v, r)
             \/ SayStep(r) \/ NestedStep(r)
             \/ ResponseHandlerFails(r) \/ ResponseLost(r) \/ ParentFails(r)
      PROVE  QueryInv' /\ Grows
  <2>1. QueryTypeOK' /\ Grows
    BY <1>2, QueryTypeResponses, QueryInvResponses DEF QueryInv
  <2> QED BY <2>1, GrowsIsEnough DEF QueryInv
<1>3. ASSUME NEW n \in Query \cup {NoQuery}, Crash(n) PROVE QueryInv' /\ Grows
  <2>1. QueryTypeOK' /\ Grows
    BY <1>3, QueryTypeCrash, QueryInvCrash DEF QueryInv
  <2> QED BY <2>1, GrowsIsEnough DEF QueryInv
<1> QED BY <1>1, <1>2, <1>3, QuerySteps

LEMMA QueryInvStutter ==
  ASSUME QueryInv, UNCHANGED queryVars
  PROVE  QueryInv'
BY DEF QueryInv, queryVars, QueryTypeOK, Linked, Sound, AnswersArrive, Heard, Resolved,
       InFlight, Up

LEMMA QueryInvAlways == QuerySpec => []QueryInv
<1>1. QueryInv /\ [QueryNext]_queryVars => QueryInv'
  BY QueryInvStep, QueryInvStutter
<1> QED BY <1>1, QueryInvInit, PTL DEF QuerySpec

(* The rows, the requests and the forwardings keep their types. *)
THEOREM QueryTypes == QuerySpec => []QueryTypeOK
<1>1. QueryInv => QueryTypeOK
  BY DEF QueryInv
<1> QED BY <1>1, QueryInvAlways, PTL

(* A company regards a query as resolved only when the asker holds an answer,
   and every partial response of its own had been received: whatever is lost,
   fails, comes too late or restarts, for any tree of queries. *)
THEOREM AnswersAlwaysArrive == QuerySpec => []AnswersArrive
<1>1. QueryInv => AnswersArrive
  BY DEF QueryInv, Sound
<1> QED BY <1>1, QueryInvAlways, PTL

-----------------------------------------------------------------------------
(* The initial state, and every step, as the promise sees them. *)
LEMMA PromiseStarts == QueryInit => Promise!PromiseInit
BY DEF QueryInit, Promise!PromiseInit, Heard, Resolved

(* A step writes rows of one query, of one side. *)
LEMMA OneRow ==
  ASSUME QueryInv, QueryNext
  PROVE  \/ theirs' = theirs /\ mine' = mine
         \/ theirs' = theirs /\ \E q \in Query : \E row : mine' = [mine EXCEPT ![q] = row]
         \/ mine' = mine /\ \E q \in Query : \E row : theirs' = [theirs EXCEPT ![q] = row]
<1>1. ASSUME NEW q \in Query,
             \/ Request(q)
             \/ \E S \in SUBSET Query, v \in Value : BeginForward(q, S, v)
             \/ ForwardStep(q) \/ AskStep(q)
             \/ RequestHandlerFails(q) \/ RequestLost(q) \/ Hangup(q)
      PROVE  \/ theirs' = theirs /\ mine' = mine
             \/ theirs' = theirs /\ \E c \in Query : \E row : mine' = [mine EXCEPT ![c] = row]
             \/ mine' = mine /\ \E c \in Query : \E row : theirs' = [theirs EXCEPT ![c] = row]
  <2>1. CASE Request(q)
    BY <2>1 DEF Request, Send
  <2>2. CASE \E S \in SUBSET Query, v \in Value : BeginForward(q, S, v)
    BY <2>2 DEF BeginForward
  <2>3. ASSUME NEW c \in Query, AskChild(q, c)
        PROVE  theirs' = theirs /\ \E d \in Query : \E row : mine' = [mine EXCEPT ![d] = row]
    BY <2>3 DEF AskChild, Send
  <2>4. ASSUME NEW c \in Query, ChildRejected(q, c) PROVE theirs' = theirs /\ mine' = mine
    BY <2>4 DEF ChildRejected
  <2>5. CASE EndForward(q)
    BY <2>5 DEF EndForward
  <2>6. CASE ReceiveRequest(q)
    BY <2>6 DEF ReceiveRequest
  <2>7. CASE RequestFails(q)
    BY <2>7 DEF RequestFails
  <2>8. CASE AckRequest(q) \/ LogRequest(q) \/ RequestEnds(q) \/ RequestLost(q) \/ Hangup(q)
    BY <2>8 DEF AckRequest, LogRequest, RequestEnds, RequestLost, Hangup
  <2>9. CASE RequestHandlerFails(q)
    BY <2>9 DEF RequestHandlerFails
  <2> QED BY <1>1, <2>1, <2>2, <2>3, <2>4, <2>5, <2>6, <2>7, <2>8, <2>9
          DEF ForwardStep, AskStep
<1>2. ASSUME NEW r \in Call,
             \/ \E q \in Query, v \in Value : Respond(q, v, r)
             \/ SayStep(r) \/ NestedStep(r)
             \/ ResponseHandlerFails(r) \/ ResponseLost(r) \/ ParentFails(r)
      PROVE  \/ theirs' = theirs /\ mine' = mine
             \/ theirs' = theirs /\ \E c \in Query : \E row : mine' = [mine EXCEPT ![c] = row]
             \/ mine' = mine /\ \E c \in Query : \E row : theirs' = [theirs EXCEPT ![c] = row]
  <2>1. CASE StoreResponse(r) \/ FailChild(r)
    <3>1. say[r].q \in Query
      BY <2>1, InFlightOK DEF StoreResponse, FailChild, At, QueryInv, Said
    <3> QED BY <2>1, <3>1 DEF StoreResponse, FailChild
  <2>2. CASE FormEnds(r) \/ FormFails(r)
    <3>1. say[r].q \in Query
      BY <2>2, InFlightOK DEF FormEnds, FormFails, QueryInv, Said
    <3> QED BY <2>2, <3>1 DEF FormEnds, FormFails
  <2>3. ASSUME NEW s \in Call, ParentAnswered(r, s)
        PROVE  mine' = mine /\ \E c \in Query : \E row : theirs' = [theirs EXCEPT ![c] = row]
    <3>1. say[s].q \in Query
      BY <2>3, InFlightOK DEF ParentAnswered, QueryInv, Said
    <3> QED BY <2>3, <3>1 DEF ParentAnswered
  <2>4. ASSUME NEW s \in Call, AnswerParent(r, s) \/ ParentNotAnswered(r, s)
        PROVE  theirs' = theirs /\ mine' = mine
    BY <2>4 DEF AnswerParent, ParentNotAnswered
  <2>5. CASE \/ \E q \in Query, v \in Value : Respond(q, v, r)
             \/ ReceiveResponse(r) \/ AckResponse(r) \/ CheckParent(r) \/ NotAllAnswered(r)
             \/ ResponseHandlerFails(r) \/ ResponseLost(r) \/ ParentFails(r)
    BY <2>5 DEF Respond, ReceiveResponse, AckResponse, CheckParent, NotAllAnswered,
                ResponseHandlerFails, ResponseLost, ParentFails
  <2> QED BY <1>2, <2>1, <2>2, <2>3, <2>4, <2>5 DEF SayStep, NestedStep
<1>3. ASSUME NEW n \in Query \cup {NoQuery}, Crash(n) PROVE theirs' = theirs /\ mine' = mine
  BY <1>3 DEF Crash
<1> QED BY <1>1, <1>2, <1>3, QuerySteps

(* The part of the promise one query's rows stand for. *)
LEMMA PromiseStep ==
  ASSUME QueryInv, QueryNext
  PROVE  [Promise!PromiseNext]_Promise!promiseVars
<1> DEFINE heard == {q \in Query : Heard(q)}
           given == [q \in Query |-> IF Resolved(q) THEN PartsOf(theirs[q].answer) ELSE NoAnswer]
<1>1. \A q \in Query : /\ Heard(q) => Heard(q)'
                       /\ Resolved(q)' => \/ Resolved(q) /\ theirs'[q] = theirs[q]
                                         \/ /\ Heard(q)
                                            /\ \A c \in PartsOf(theirs'[q].answer) : Heard(c)
  BY QueryInvStep DEF Kept, Grows, Heard
<1>2. \A q \in Query : /\ PartsOf(theirs'[q].answer) \subseteq Query
                       /\ Resolved(q)' => Heard(q) /\ PartsOf(theirs'[q].answer) \subseteq heard
  <2>1. \A q \in Query : PartsOf(theirs'[q].answer) \subseteq Query
    BY QueryInvStep DEF QueryInv, QueryTypeOK, PartsOf, Answers, Answer
  <2> QED BY <1>1, <2>1 DEF QueryInv, Sound, AnswersArrive
<1>3. CASE theirs' = theirs /\ mine' = mine
  BY <1>3 DEF Promise!promiseVars, Heard, Resolved
<1>4. ASSUME theirs' = theirs, NEW q \in Query, NEW row, mine' = [mine EXCEPT ![q] = row]
      PROVE  [Promise!PromiseNext]_Promise!promiseVars
  <2>1. given' = given
    BY <1>4 DEF Resolved
  <2>2. heard' = heard \/ heard' = heard \cup {q}
    BY <1>1, <1>4 DEF Heard, QueryInv, QueryTypeOK
  <2> QED BY <2>1, <2>2 DEF Promise!promiseVars, Promise!PromiseNext, Promise!Hear
<1>5. ASSUME mine' = mine, NEW q \in Query, NEW row, theirs' = [theirs EXCEPT ![q] = row]
      PROVE  Promise!PromiseNext
  <2>1. heard' = heard
    BY <1>5 DEF Heard
  <2>2. \A c \in Query : c # q => given'[c] = given[c]
    BY <1>5 DEF Resolved, QueryInv, QueryTypeOK
  <2>3. given' = [given EXCEPT ![q] = given'[q]]
    BY <2>2
  <2>4. CASE Resolved(q)'
    <3>1. given'[q] = PartsOf(theirs'[q].answer)
      BY <2>4
    <3>2. q \in heard /\ given'[q] \in SUBSET heard
      BY <1>2, <2>4, <3>1
    <3> QED BY <2>1, <2>3, <3>2 DEF Promise!PromiseNext, Promise!Give
  <2>5. CASE ~Resolved(q)'
    <3>1. given'[q] = NoAnswer
      BY <2>5
    <3> QED BY <2>1, <2>3, <3>1 DEF Promise!PromiseNext, Promise!Withdraw
  <2> QED BY <2>4, <2>5
<1> QED BY <1>3, <1>4, <1>5, OneRow

(* The nodes implement the promise, for any tree of queries and all faults. *)
THEOREM QueriesKeepPromise == QuerySpec => KeepsPromise
<1>1. QueryInv /\ [QueryNext]_queryVars => [Promise!PromiseNext]_Promise!promiseVars
  <2>1. CASE UNCHANGED queryVars
    BY <2>1 DEF queryVars, Promise!promiseVars, Heard, Resolved
  <2> QED BY <2>1, PromiseStep
<1> QED BY <1>1, QueryInvAlways, PromiseStarts, PTL DEF QuerySpec, KeepsPromise, Promise!PromiseSpec

-----------------------------------------------------------------------------
(* What holds while nothing goes wrong and a query has one response page.

   A query is answered once: by a form, while it waits for input, or by the
   handlers of its children's answers, after it was forwarded; and all of these
   send the same answer, the one that has every child's. *)
(* Every child is answered; the answer that has them all; the query's own form
   is done with it. *)
AllHeard(p) == \A c \in Children(p) : Heard(c)
Whole(p) == [value |-> theirs[p].answer.value,
             parts |-> {<<c, mine[c].answer.value>> : c \in Children(p)}]
Handed(q) == theirs[q].st \in {"forwarded", "resolved"}

(* A request is delivered once, and no row of an answering company fails. *)
RowsOK ==
    \A q \in Query :
        /\ ask[q].at = "sent" => theirs[q].st = "none"
        /\ ask[q].caller = "form" => mine[q].st # "none"
        /\ theirs[q].st # "errored"
        /\ theirs[q].st \in {"none", "pending_your_input"} => theirs[q].answer = NoAnswer
        /\ Handed(q) => theirs[q].answer # NoAnswer

(* A query is forwarded while it waits for input and nothing answers it. *)
ForwardsOK ==
    \A p \in Query :
        /\ fwd[p].on => /\ theirs[p].st = "pending_your_input"
                        /\ ~fwd[p].rejected
                        /\ fwd[p].sent \cup fwd[p].todo # {}
                        /\ fwd[p].sent \subseteq Children(p)
                        /\ \A r \in InFlight : say[r].q # p
        /\ Children(p) # {} => fwd[p].on \/ Handed(p)
        /\ theirs[p].st = "forwarded" => Children(p) # {}

(* The call of a form is the only one about its query, *)
FormOK(r) ==
    LET q == say[r].q IN
    /\ theirs[q].st = "pending_your_input" /\ say[r].within = NoCall
    /\ \A s \in InFlight : say[s].q = q => s = r
    /\ say[r].at = "done" => say[r].reply = "ack"
    /\ mine[q].answer = IF say[r].at \in {"sent", "read"} THEN NoAnswer ELSE say[r].answer

(* ... and the calls of handlers bring the whole answer, each for a handler that
   waits for it alone. *)
NestedOK(s) ==
    \E r \in InFlight, q \in Query :
        /\ say[s].within = r /\ say[r].at = "asking" /\ Up(r) = q
        /\ say[s].q = q /\ Handed(q) /\ AllHeard(q) /\ say[s].answer = Whole(q)
        /\ mine[q].answer \in {NoAnswer, say[s].answer}
        /\ say[s].at \notin {"sent", "read", "done"} \/ say[s].reply = "ack" => Heard(q)
        /\ \A x \in InFlight : say[x].within = r => x = s

CallsOK ==
    \A r \in InFlight :
        /\ say[r].caller # "gone" /\ say[r].reply # "error"
        /\ say[r].reply = "ack" => say[r].at = "done"
        /\ say[r].caller = "form" => FormOK(r)
        /\ say[r].caller = "handler" => NestedOK(r)
        /\ say[r].at \in {"children", "asking"} => Handed(Up(r))

(* The asker holds no answer but the one under way or the one that the
   answering company holds. *)
AnswersOK ==
    \A q \in Query :
        /\ theirs[q].st \in {"none", "pending_your_input"} /\ Heard(q)
             => \E r \in InFlight : say[r].q = q /\ say[r].caller = "form"
        /\ theirs[q].st = "forwarded" /\ Heard(q) => AllHeard(q) /\ mine[q].answer = Whole(q)
        /\ theirs[q].st = "resolved" => mine[q].answer = theirs[q].answer
        /\ theirs[q].st = "resolved" /\ Children(q) # {} => AllHeard(q) /\ mine[q].answer = Whole(q)

Straight == RowsOK /\ ForwardsOK /\ CallsOK /\ AnswersOK

(* Nothing is under way before the first query. *)
LEMMA StraightInit == QueryInit => Straight
<1> SUFFICES ASSUME QueryInit PROVE Straight
  OBVIOUS
<1>1. InFlight = {} /\ \A q \in Query : mine[q].st = "none" /\ theirs[q].st = "none"
        /\ theirs[q].answer = NoAnswer /\ mine[q].answer = NoAnswer
        /\ ask[q].at = "none" /\ ask[q].caller = "none" /\ ~fwd[q].on
  BY DEF QueryInit, InFlight, Free, NotAsked, NotForwarding
<1>2. \A p \in Query : Children(p) = {} /\ ~Handed(p) /\ ~Heard(p)
  BY <1>1 DEF Children, Handed, Heard
<1> QED BY <1>1, <1>2 DEF Straight, RowsOK, ForwardsOK, CallsOK, AnswersOK

(* What a call in flight is. *)
LEMMA CallIs ==
  ASSUME QueryInv, NEW r \in InFlight
  PROVE  /\ r \in Call /\ say[r] \in Said /\ say[r].q \in Query /\ say[r].within # r
         /\ say[r].answer # NoAnswer
         /\ theirs[say[r].q].st # "none" /\ mine[say[r].q].st # "none"
         /\ say[r].at \in {"parent", "children", "asking", "failing"} => Up(r) \in Query
         /\ say[r].at \in SaySteps
BY InFlightOK, NullIsNoAnswer DEF QueryInv, Linked, Said

(* The answer of a query's children is not taken back: what was whole stays so,
   as long as the own part and the children stay. *)
LEMMA WholeStays ==
  ASSUME NEW p \in Query, AllHeard(p), Children(p)' = Children(p),
         \A c \in Query : Heard(c) => mine'[c].answer = mine[c].answer,
         theirs'[p].answer.value = theirs[p].answer.value
  PROVE  AllHeard(p)' /\ Whole(p)' = Whole(p)
<1>1. \A c \in Children(p) : c \in Query /\ mine'[c].answer = mine[c].answer
  BY DEF AllHeard, Children
<1>2. AllHeard(p)'
  BY <1>1 DEF AllHeard, Heard
<1>3. {<<c, mine[c].answer.value>> : c \in Children(p)}
        = {<<c, mine'[c].answer.value>> : c \in Children(p)'}
  BY <1>1
<1> QED BY <1>2, <1>3 DEF Whole

(* A call goes on, and may store its answer. *)
LEMMA CallGoes ==
  ASSUME QueryInv, Straight, NEW r \in InFlight, say[r].at # "asking",
         NEW rec \in Said, say' = [say EXCEPT ![r] = rec],
         rec.q = say[r].q, rec.answer = say[r].answer, rec.within = say[r].within,
         rec.caller = say[r].caller,
         UNCHANGED <<parent, theirs, ask, fwd>>,
         \A c \in Query : mine'[c].st = "none" <=> mine[c].st = "none",
         \A c \in Query : mine'[c].answer \in {mine[c].answer}
                              \cup (IF c = rec.q THEN {rec.answer} ELSE {}),
         rec.reply # "error", rec.reply = "ack" => rec.at = "done",
         rec.caller = "form" =>
            /\ rec.at = "done" => rec.reply = "ack"
            /\ mine'[rec.q].answer = IF rec.at \in {"sent", "read"} THEN NoAnswer ELSE rec.answer,
         rec.caller = "handler" /\ (rec.at \notin {"sent", "read", "done"} \/ rec.reply = "ack")
            => mine'[rec.q].answer # NoAnswer,
         rec.at \in {"children", "asking"} => Handed(parent[rec.q])
  PROVE  Straight' /\ \A c \in Query : Heard(c) => mine'[c].answer = mine[c].answer
<1> USE DEF Straight
<1>1. /\ r \in Call /\ say[r] \in Said /\ rec.q \in Query /\ rec.answer # NoAnswer
      /\ say \in [Call -> Said \cup {Free}] /\ rec.at # "free"
  BY CallIs DEF QueryInv, QueryTypeOK, Said, SaySteps
<1>2. /\ InFlight' = InFlight /\ say'[r] = rec
      /\ \A x \in InFlight : x # r => say'[x] = say[x]
      /\ \A x \in InFlight : say'[x].q = say[x].q /\ say'[x].caller = say[x].caller
                              /\ say'[x].within = say[x].within
  BY <1>1 DEF InFlight
<1>3. /\ \A p \in Query : Children(p)' = Children(p) /\ (Handed(p)' <=> Handed(p))
      /\ \A p \in Query : Children(p) \subseteq Query
  BY DEF Children, Handed
<1>4. \A c \in Query : Heard(c) => mine'[c].answer = mine[c].answer
  <2> SUFFICES ASSUME Heard(rec.q) PROVE mine'[rec.q].answer = mine[rec.q].answer
    BY <1>1
  <2>1. CASE say[r].caller = "form"
    BY <2>1, <1>1 DEF CallsOK, FormOK, Heard
  <2>2. CASE say[r].caller = "handler"
    BY <2>2, <1>1 DEF CallsOK, NestedOK, Heard
  <2> QED BY <1>1, <2>1, <2>2 DEF CallsOK, Said
<1>5. \A p \in Query : AllHeard(p) => AllHeard(p)' /\ Whole(p)' = Whole(p)
  BY <1>3, <1>4, WholeStays
<1>6. RowsOK'
  BY <1>3 DEF RowsOK
<1>7. ForwardsOK'
  BY <1>2, <1>3 DEF ForwardsOK
<1>8. ASSUME NEW x \in InFlight, say[x].caller = "form" PROVE FormOK(x)'
  <2>1. CASE x = r
    <3>1. FormOK(r) /\ say[r].caller = "form"
      BY <1>8, <2>1 DEF CallsOK
    <3> QED BY <1>2, <2>1, <3>1 DEF FormOK
  <2>2. CASE x # r
    <3>1. FormOK(x) /\ say'[x] = say[x] /\ say[x].q \in Query /\ say[x].q # rec.q
      BY <1>2, <1>8, <2>2, CallIs DEF CallsOK, FormOK
    <3>2. mine'[say[x].q].answer = mine[say[x].q].answer
      BY <3>1
    <3> QED BY <1>2, <3>1, <3>2 DEF FormOK
  <2> QED BY <2>1, <2>2
<1>9. ASSUME NEW x \in InFlight, say[x].caller = "handler" PROVE NestedOK(x)'
  <2>1. PICK w \in InFlight, q \in Query :
        /\ say[x].within = w /\ say[x].q = q /\ say[w].at = "asking" /\ parent[say[w].q] = q
        /\ Handed(q) /\ AllHeard(q) /\ say[x].answer = Whole(q)
        /\ mine[q].answer \in {NoAnswer, say[x].answer}
        /\ say[x].at \notin {"sent", "read", "done"} \/ say[x].reply = "ack" => Heard(q)
        /\ \A y \in InFlight : say[y].within = w => y = x
    BY <1>9 DEF CallsOK, NestedOK, Up
  <2>2. AllHeard(q)' /\ Whole(q)' = Whole(q) /\ Handed(q)'
    BY <1>3, <1>5, <2>1
  <2>3. /\ say'[x].answer = say[x].answer /\ say'[x].q = q /\ say'[x].within = w
    BY <1>2, <2>1
  <2>4. w # r /\ say'[w] = say[w]
    BY <1>2, <2>1
  <2>5. mine'[q].answer \in {NoAnswer, say[x].answer}
    <3>1. CASE q # rec.q
      BY <2>1, <3>1
    <3>2. CASE q = rec.q
      <4>1. say[r].caller = "handler"
        BY <1>1, <2>1, <3>2 DEF CallsOK, FormOK, Handed, Said
      <4>2. rec.answer = say[x].answer
        BY <2>1, <3>2, <4>1 DEF NestedOK, CallsOK
      <4> QED BY <2>1, <3>2, <4>2
    <3> QED BY <3>1, <3>2
  <2>6. say'[x].at \notin {"sent", "read", "done"} \/ say'[x].reply = "ack"
          => mine'[q].answer # NoAnswer
    <3>1. CASE x = r
      BY <1>2, <1>9, <2>1, <3>1
    <3>2. CASE x # r
      <4>1. say'[x] = say[x]
        BY <1>2, <3>2
      <4> QED BY <1>4, <2>1, <4>1 DEF Heard
    <3> QED BY <3>1, <3>2
  <2>7. \A y \in InFlight : say'[y].within = w => y = x
    BY <1>2, <2>1
  <2>8. w \in InFlight' /\ say'[w].at = "asking" /\ parent'[say'[w].q] = q
    BY <1>2, <2>1, <2>4
  <2>9. /\ say'[x].within = w /\ say'[w].at = "asking" /\ Up(w)' = q
        /\ say'[x].q = q /\ Handed(q)' /\ AllHeard(q)' /\ say'[x].answer = Whole(q)'
    BY <2>1, <2>2, <2>3, <2>8 DEF Up
  <2>10. mine'[q].answer \in {NoAnswer, say'[x].answer}
    BY <2>3, <2>5
  <2>11. say'[x].at \notin {"sent", "read", "done"} \/ say'[x].reply = "ack" => Heard(q)'
    BY <2>6 DEF Heard
  <2>12. \A y \in InFlight' : say'[y].within = w => y = x
    BY <1>2, <2>7
  <2> QED BY <2>8, <2>9, <2>10, <2>11, <2>12, Zenon DEF NestedOK
<1>10. CallsOK'
  <2> SUFFICES ASSUME NEW x \in InFlight
               PROVE  /\ say'[x].caller # "gone" /\ say'[x].reply # "error"
                      /\ say'[x].reply = "ack" => say'[x].at = "done"
                      /\ say'[x].at \in {"children", "asking"} => Handed(parent[say[x].q])'
    BY <1>2, <1>8, <1>9 DEF CallsOK, Up
  <2>1. CASE x = r
    BY <1>2, <2>1 DEF CallsOK, Handed
  <2>2. CASE x # r
    BY <1>2, <2>2 DEF CallsOK, Handed, Up
  <2> QED BY <2>1, <2>2
<1>11. AnswersOK'
  <2> SUFFICES ASSUME NEW q \in Query
      PROVE /\ theirs[q].st \in {"none", "pending_your_input"} /\ Heard(q)'
                  => \E x \in InFlight : say[x].q = q /\ say[x].caller = "form"
            /\ theirs[q].st = "forwarded" /\ Heard(q)' => AllHeard(q)' /\ mine'[q].answer = Whole(q)'
            /\ theirs[q].st = "resolved" => mine'[q].answer = theirs[q].answer
            /\ theirs[q].st = "resolved" /\ Children(q) # {}
                  => AllHeard(q)' /\ mine'[q].answer = Whole(q)'
    BY <1>2, <1>3 DEF AnswersOK
  <2>1. CASE Heard(q)
    <3>1. mine'[q].answer = mine[q].answer
      BY <1>4, <2>1
    <3> QED BY <1>5, <2>1, <3>1 DEF AnswersOK, Heard
  <2>2. CASE ~Heard(q)
    <3>1. theirs[q].st # "resolved"
      BY <2>2 DEF AnswersOK, RowsOK, Handed, Heard
    <3>2. ASSUME Heard(q)'
          PROVE  /\ theirs[q].st \in {"none", "pending_your_input"} => say[r].caller = "form"
                 /\ q = say[r].q /\ mine'[q].answer = say[r].answer
      <4>1. q = say[r].q /\ mine'[q].answer = say[r].answer
        BY <2>2, <3>2 DEF Heard
      <4>2. theirs[q].st \in {"none", "pending_your_input"} => say[r].caller # "handler"
        BY <4>1 DEF CallsOK, NestedOK, Handed
      <4> QED BY <1>1, <4>1, <4>2 DEF CallsOK, Said
    <3>3. ASSUME Heard(q)', theirs[q].st = "forwarded" PROVE AllHeard(q)' /\ mine'[q].answer = Whole(q)'
      <4>1. say[r].caller = "handler"
        BY <1>1, <3>2, <3>3 DEF CallsOK, FormOK, Said
      <4>2. AllHeard(q) /\ say[r].answer = Whole(q)
        BY <3>2, <3>3, <4>1 DEF CallsOK, NestedOK
      <4> QED BY <1>5, <3>2, <3>3, <4>2
    <3> QED BY <3>1, <3>2, <3>3
  <2> QED BY <2>1, <2>2
<1> QED BY <1>4, <1>6, <1>7, <1>10, <1>11

(* The rows go on, the calls and the answers held stay: a query that was
   answered or forwarded stays as it is, and one that is forwarded now has no
   answer yet. *)
LEMMA RowsGo ==
  ASSUME QueryInv, QueryTypeOK', Straight, RowsOK', ForwardsOK', say' = say,
         \A c \in Query :
            /\ mine'[c].answer = mine[c].answer
            /\ mine[c].st # "none" => parent'[c] = parent[c]
            /\ Handed(c) => theirs'[c] = theirs[c] /\ Children(c)' = Children(c)
            /\ ~Handed(c) /\ Handed(c)' => /\ theirs'[c].st = "forwarded"
                                          /\ \A r \in InFlight : say[r].q # c
            /\ theirs[c].st = "pending_your_input" /\ theirs'[c].st # "forwarded"
                 => theirs'[c].st = "pending_your_input"
  PROVE  Straight'
<1> USE DEF Straight
<1>1. InFlight' = InFlight
  BY DEF InFlight
<1>2. \A c \in Query : /\ Heard(c)' <=> Heard(c)
                       /\ Handed(c) => Handed(c)'
                       /\ ~Handed(c)' => ~Handed(c)
  BY DEF Heard, Handed
<1>3. \A p \in Query : Handed(p) /\ AllHeard(p) => AllHeard(p)' /\ Whole(p)' = Whole(p)
  BY WholeStays
<1>4. ASSUME NEW x \in InFlight
      PROVE  /\ say[x].q \in Query /\ parent'[say[x].q] = parent[say[x].q]
             /\ say'[x] = say[x]
  BY <1>4, CallIs
<1>5. ASSUME NEW x \in InFlight, say[x].caller = "form" PROVE FormOK(x)'
  <2>1. PICK q \in Query : q = say[x].q
    BY <1>4
  <2>2. /\ theirs[q].st = "pending_your_input" /\ say[x].within = NoCall
        /\ \A y \in InFlight : say[y].q = q => y = x
        /\ say[x].at = "done" => say[x].reply = "ack"
        /\ mine[q].answer = IF say[x].at \in {"sent", "read"} THEN NoAnswer ELSE say[x].answer
    BY <1>5, <2>1 DEF CallsOK, FormOK
  <2>3. theirs'[q].st = "pending_your_input"
    BY <1>5, <2>1, <2>2 DEF Handed
  <2> QED BY <1>1, <1>4, <2>1, <2>2, <2>3 DEF FormOK
<1>6. ASSUME NEW x \in InFlight, say[x].caller = "handler" PROVE NestedOK(x)'
  <2>1. PICK w \in InFlight, q \in Query :
        /\ say[x].within = w /\ say[x].q = q /\ say[w].at = "asking" /\ parent[say[w].q] = q
        /\ Handed(q) /\ AllHeard(q) /\ say[x].answer = Whole(q)
        /\ mine[q].answer \in {NoAnswer, say[x].answer}
        /\ say[x].at \notin {"sent", "read", "done"} \/ say[x].reply = "ack" => Heard(q)
        /\ \A y \in InFlight : say[y].within = w => y = x
    BY <1>6 DEF CallsOK, NestedOK, Up
  <2>2. AllHeard(q)' /\ Whole(q)' = Whole(q) /\ Handed(q)'
    BY <1>2, <1>3, <2>1
  <2>3. /\ say'[x].within = w /\ say'[w].at = "asking" /\ Up(w)' = q
        /\ say'[x].q = q /\ Handed(q)' /\ AllHeard(q)' /\ say'[x].answer = Whole(q)'
    BY <1>4, <2>1, <2>2 DEF Up
  <2>4. mine'[q].answer \in {NoAnswer, say'[x].answer}
    BY <2>1
  <2>5. say'[x].at \notin {"sent", "read", "done"} \/ say'[x].reply = "ack" => Heard(q)'
    BY <1>2, <2>1
  <2>6. w \in InFlight' /\ \A y \in InFlight' : say'[y].within = w => y = x
    BY <1>1, <2>1
  <2> QED BY <2>3, <2>4, <2>5, <2>6, Zenon DEF NestedOK
<1>7. ASSUME NEW x \in InFlight, say[x].at \in {"children", "asking"} PROVE Handed(Up(x))'
  <2>1. PICK q \in Query : q = Up(x) /\ Handed(q)
    BY <1>7, CallIs DEF CallsOK
  <2>2. Up(x)' = q
    BY <1>4, <2>1 DEF Up
  <2> QED BY <1>2, <2>1, <2>2
<1>8. CallsOK'
  BY <1>1, <1>4, <1>5, <1>6, <1>7 DEF CallsOK
<1>9. AnswersOK'
  <2> SUFFICES ASSUME NEW q \in Query
      PROVE /\ theirs'[q].st \in {"none", "pending_your_input"} /\ Heard(q)'
                  => \E x \in InFlight : say[x].q = q /\ say[x].caller = "form"
            /\ theirs'[q].st = "forwarded" /\ Heard(q)' => AllHeard(q)' /\ mine'[q].answer = Whole(q)'
            /\ theirs'[q].st = "resolved" => mine'[q].answer = theirs'[q].answer
            /\ theirs'[q].st = "resolved" /\ Children(q)' # {}
                  => AllHeard(q)' /\ mine'[q].answer = Whole(q)'
    BY <1>1 DEF AnswersOK
  <2>1. CASE Handed(q)
    BY <1>2, <1>3, <2>1 DEF AnswersOK, Handed
  <2>2. CASE ~Handed(q)
    <3>1. theirs[q].st \in {"none", "pending_your_input"}
      BY <2>2 DEF Handed, RowsOK, QueryInv, QueryTypeOK, TheirsStatus
    <3>2. CASE Handed(q)'
      <4>1. ~Heard(q)'
        BY <1>2, <2>2, <3>1, <3>2 DEF AnswersOK
      <4> QED BY <2>2, <3>2, <4>1 DEF Handed
    <3>3. CASE ~Handed(q)'
      BY <1>2, <3>1, <3>3 DEF AnswersOK, Handed
    <3> QED BY <3>2, <3>3
  <2> QED BY <2>1, <2>2
<1> QED BY <1>8, <1>9

(* A query that nobody has answered or forwarded. *)
LEMMA NotHanded ==
  ASSUME QueryInv, Straight, NEW q \in Query, ~Handed(q)
  PROVE  /\ theirs[q].st \in {"none", "pending_your_input"}
         /\ theirs[q].answer = NoAnswer
         /\ ~fwd[q].on => Children(q) = {}
         /\ Heard(q) => \E r \in InFlight : say[r].q = q /\ say[r].caller = "form"
         /\ \A r \in InFlight : say[r].q = q => say[r].caller = "form"
<1>1. theirs[q].st \in {"none", "pending_your_input"}
  BY DEF Straight, Handed, RowsOK, QueryInv, QueryTypeOK, TheirsStatus
<1>2. \A r \in InFlight : say[r].q = q => say[r].caller = "form"
  <2> SUFFICES ASSUME NEW r \in InFlight, say[r].q = q PROVE say[r].caller = "form"
    OBVIOUS
  <2>1. say[r].caller \in {"form", "handler", "gone"}
    BY CallIs DEF Said
  <2> QED BY <2>1 DEF Straight, CallsOK, NestedOK
<1> QED BY <1>1, <1>2 DEF Straight, RowsOK, ForwardsOK, AnswersOK

(* No call of a form is under way where another response page opens. *)
LEMMA OneForm ==
  ASSUME QueryInv, Straight, Tabs = 1, NEW q \in Query, OpenForms(q) < Tabs
  PROVE  ~fwd[q].on /\ \A r \in InFlight : say[r].q = q => say[r].caller # "form"
<1> DEFINE forms == {r \in InFlight : say[r].q = q /\ say[r].caller = "form"}
<1>1. IsFiniteSet(forms)
  <2>1. forms \subseteq Call
    BY DEF InFlight
  <2> QED BY <2>1, CallsAreFinite, FS_Subset
<1>2. Cardinality(forms) \in Nat /\ (Cardinality(forms) = 0 => forms = {})
  BY <1>1, FS_CardinalityType, FS_EmptySet
<1>3. Cardinality(forms) + (IF fwd[q].on THEN 1 ELSE 0) < 1
  BY DEF OpenForms
<1> HIDE DEF forms
<1>4. Cardinality(forms) = 0 /\ ~fwd[q].on
  BY <1>2, <1>3
<1> QED BY <1>2, <1>4 DEF forms

(* A query is asked, by a user or for the query that is forwarded. *)
LEMMA SendStraight ==
  ASSUME QueryInv, QueryTypeOK', Straight, NEW q \in Unasked, NEW p \in Query \cup {NoQuery},
         Send(q, p), UNCHANGED <<theirs, say>>,
         \/ p = NoQuery /\ fwd' = fwd
         \/ /\ p \in Query /\ fwd[p].on
            /\ fwd' = [fwd EXCEPT ![p].todo = @ \ {q}, ![p].sent = @ \cup {q}]
  PROVE  Straight'
<1>1. q \in Query /\ mine[q].st = "none" /\ theirs[q].st = "none"
  BY DEF Unasked, QueryInv, Linked
<1>2. \A c \in Query : /\ mine'[c].answer = mine[c].answer
                       /\ c # q => mine'[c] = mine[c] /\ parent'[c] = parent[c] /\ ask'[c] = ask[c]
                       /\ mine'[q].st = "pending_their_input" /\ parent'[q] = p
  BY <1>1 DEF Send, QueryInv, QueryTypeOK
<1>3. \A c \in Query : Children(c)' = IF c = p THEN Children(c) \cup {q} ELSE Children(c)
  BY <1>1, <1>2 DEF Children
<1>4. /\ \A c \in Query : c # p => fwd'[c] = fwd[c]
      /\ p \in Query => /\ fwd[p].on /\ fwd'[p].on /\ fwd'[p].rejected = fwd[p].rejected
                        /\ fwd'[p].sent = fwd[p].sent \cup {q}
                        /\ fwd'[p].todo = fwd[p].todo \ {q}
  <2>1. CASE p = NoQuery
    BY <2>1, NullsAreNotQueries
  <2>2. CASE p \in Query /\ fwd[p].on
    <3>1. fwd[p] \in Forwarding
      BY <2>2 DEF QueryInv, QueryTypeOK, NotForwarding
    <3> DEFINE x == [[fwd[p] EXCEPT !.todo = fwd[p].todo \ {q}]
                        EXCEPT !.sent = fwd[p].sent \cup {q}]
    <3>2. /\ x.on /\ x.rejected = fwd[p].rejected /\ x.sent = fwd[p].sent \cup {q}
          /\ x.todo = fwd[p].todo \ {q}
      BY <3>1 DEF Forwarding
    <3>3. fwd \in [Query -> Forwarding \cup {NotForwarding}]
      BY DEF QueryInv, QueryTypeOK
    <3>4. fwd' = [fwd EXCEPT ![p] = x]
      BY <2>2, <3>3, NullsAreNotQueries
    <3> HIDE DEF x
    <3> QED BY <2>2, <3>2, <3>3, <3>4
  <2> QED BY <2>1, <2>2
<1>5. /\ \A c \in Query : Handed(c)' <=> Handed(c)
      /\ InFlight' = InFlight
  BY DEF Handed, InFlight
<1>6. RowsOK'
  BY <1>1, <1>2, <1>5 DEF Straight, RowsOK
<1>7. ASSUME NEW c \in Query, fwd'[c].on
      PROVE  /\ theirs[c].st = "pending_your_input" /\ ~fwd'[c].rejected
             /\ fwd'[c].sent \cup fwd'[c].todo # {}
             /\ fwd'[c].sent \subseteq Children(c)'
             /\ \A r \in InFlight : say[r].q # c
  BY <1>3, <1>4, <1>7 DEF Straight, ForwardsOK
<1>8. ForwardsOK'
  BY <1>3, <1>4, <1>5, <1>7 DEF Straight, ForwardsOK
<1>9. \A c \in Query : Handed(c) => c # p
  BY <1>4 DEF Straight, ForwardsOK, Handed
<1>10. ASSUME NEW c \in Query
       PROVE  /\ mine'[c].answer = mine[c].answer
              /\ mine[c].st # "none" => parent'[c] = parent[c]
              /\ Handed(c) => theirs'[c] = theirs[c] /\ Children(c)' = Children(c)
              /\ ~(~Handed(c) /\ Handed(c)')
              /\ theirs'[c] = theirs[c]
  BY <1>1, <1>2, <1>3, <1>5, <1>9
<1> QED BY <1>6, <1>8, <1>10, RowsGo

(* Steps that leave the asker's answers, the parents and the children alone. *)
LEMMA RequestSteps ==
  ASSUME QueryInv, QueryTypeOK', Straight, Faults = {}, Tabs = 1, NEW q \in Query,
         \/ \E S \in SUBSET Query, v \in Value : BeginForward(q, S, v)
         \/ EndForward(q) \/ AskStep(q)
  PROVE  /\ say' = say /\ parent' = parent
         /\ \A c \in Query : /\ mine'[c].answer = mine[c].answer
                             /\ mine[c].st # "none" => mine'[c].st # "none"
                             /\ mine[c].st = "none" => mine'[c].st = "none"
                             /\ Children(c)' = Children(c)
<1>1. say' = say /\ parent' = parent
  BY DEF BeginForward, EndForward, AskStep, ReceiveRequest, AckRequest, LogRequest,
         RequestEnds, RequestFails
<1>2. \A c \in Query : /\ mine'[c].answer = mine[c].answer
                       /\ mine[c].st # "none" => mine'[c].st # "none"
                       /\ mine[c].st = "none" => mine'[c].st = "none"
  <2>1. CASE RequestFails(q)
    <3>1. mine' = [mine EXCEPT ![q] = [mine[q] EXCEPT !.st = "errored"]]
      BY <2>1 DEF RequestFails
    <3>2. mine[q].st # "none"
      BY <2>1 DEF RequestFails, Straight, RowsOK
    <3> QED BY <3>1, <3>2 DEF QueryInv, QueryTypeOK
  <2>2. CASE mine' = mine
    BY <2>2
  <2> QED BY <2>1, <2>2 DEF BeginForward, EndForward, AskStep, ReceiveRequest, AckRequest,
                            LogRequest, RequestEnds
<1> QED BY <1>1, <1>2 DEF Children

(* The response page of a forwarded query. *)
LEMMA ForwardStraight ==
  ASSUME QueryInv, QueryTypeOK', Straight, Faults = {}, Tabs = 1, NEW q \in Query,
         \/ \E S \in SUBSET Query, v \in Value : BeginForward(q, S, v)
         \/ EndForward(q)
  PROVE  Straight'
<1>0. /\ say' = say /\ parent' = parent /\ ask' = ask /\ mine' = mine
      /\ \A c \in Query : Children(c)' = Children(c)
      /\ InFlight' = InFlight
  BY RequestSteps DEF BeginForward, EndForward, InFlight
<1>1. ASSUME NEW S \in SUBSET Query, NEW v \in Value, BeginForward(q, S, v) PROVE Straight'
  <2>1. /\ theirs' = theirs /\ theirs[q].st = "pending_your_input" /\ S # {}
        /\ fwd' = [fwd EXCEPT ![q] = [on |-> TRUE, todo |-> S, sent |-> {},
                                      rejected |-> FALSE, value |-> v]]
    BY <1>1 DEF BeginForward, Offered
  <2>2. ~Handed(q) /\ \A r \in InFlight : say[r].q # q
    <3>1. ~Handed(q)
      BY <2>1 DEF Handed
    <3>2. \A r \in InFlight : say[r].q = q => say[r].caller # "form"
      BY <1>1, OneForm DEF BeginForward
    <3> QED BY <3>1, <3>2, NotHanded
  <2>3. \A c \in Query : IF c = q THEN /\ fwd'[c].on /\ ~fwd'[c].rejected
                                        /\ fwd'[c].todo = S /\ fwd'[c].sent = {}
                         ELSE fwd'[c] = fwd[c]
    BY <2>1 DEF QueryInv, QueryTypeOK
  <2>4. /\ \A c \in Query : Handed(c)' <=> Handed(c)
    BY <2>1 DEF Handed
  <2>5. RowsOK'
    BY <1>0, <2>1, <2>4 DEF Straight, RowsOK
  <2>6. ForwardsOK'
    BY <1>0, <2>1, <2>2, <2>3, <2>4 DEF Straight, ForwardsOK
  <2> QED BY <1>0, <2>1, <2>4, <2>5, <2>6, RowsGo
<1>2. CASE EndForward(q)
  <2> DEFINE x == [st |-> "forwarded", answer |-> [value |-> fwd[q].value, parts |-> {}]]
  <2>1. /\ fwd[q].on /\ fwd[q].todo = {} /\ ~fwd[q].rejected
        /\ theirs[q].st = "pending_your_input" /\ \A r \in InFlight : say[r].q # q
        /\ Children(q) # {}
    BY <1>2 DEF EndForward, Straight, ForwardsOK
  <2>2. theirs' = [theirs EXCEPT ![q] = x] /\ fwd' = [fwd EXCEPT ![q] = NotForwarding]
    BY <1>2, <2>1 DEF EndForward
  <2>3. x.st = "forwarded" /\ x.answer # NoAnswer
    <3>1. fwd[q] \in Forwarding
      BY <2>1 DEF QueryInv, QueryTypeOK, NotForwarding
    <3>2. x.answer \in Answer
      BY <3>1 DEF Forwarding, Answer
    <3> QED BY <3>2, NullIsNoAnswer
  <2> HIDE DEF x
  <2>4. \A c \in Query : IF c = q THEN theirs'[c] = x /\ ~fwd'[c].on
                         ELSE theirs'[c] = theirs[c] /\ fwd'[c] = fwd[c]
    BY <2>2 DEF QueryInv, QueryTypeOK, NotForwarding
  <2>5. \A c \in Query : Handed(c)' <=> c = q \/ Handed(c)
    BY <2>3, <2>4 DEF Handed
  <2>6. RowsOK'
    <3>1. ask[q].at # "sent"
      BY <2>1 DEF Straight, RowsOK
    <3> QED BY <1>0, <2>3, <2>4, <2>5, <3>1 DEF Straight, RowsOK
  <2>7. ForwardsOK'
    BY <1>0, <2>1, <2>3, <2>4, <2>5 DEF Straight, ForwardsOK
  <2>8. ~Handed(q)
    BY <2>1 DEF Handed
  <2> QED BY <1>0, <2>1, <2>3, <2>4, <2>5, <2>6, <2>7, <2>8, RowsGo
<1> QED BY <1>1, <1>2

(* A request is received, acknowledged and given up. *)
LEMMA AskStraight ==
  ASSUME QueryInv, QueryTypeOK', Straight, Faults = {}, Tabs = 1, NEW q \in Query, AskStep(q)
  PROVE  Straight'
<1>0. /\ say' = say /\ parent' = parent /\ fwd' = fwd /\ InFlight' = InFlight
      /\ \A c \in Query : /\ Children(c)' = Children(c) /\ mine'[c].answer = mine[c].answer
                          /\ mine[c].st # "none" => mine'[c].st # "none"
  BY RequestSteps DEF AskStep, ReceiveRequest, AckRequest, LogRequest, RequestEnds,
                      RequestFails, InFlight
<1>1. CASE ReceiveRequest(q)
  <2> DEFINE x == [st |-> "pending_your_input", answer |-> NoAnswer]
  <2>1. /\ theirs' = [theirs EXCEPT ![q] = x] /\ ask[q].at = "sent" /\ theirs[q].st = "none"
        /\ x.st = "pending_your_input" /\ x.answer = NoAnswer
    BY <1>1 DEF ReceiveRequest, Straight, RowsOK
  <2> HIDE DEF x
  <2>2. \A c \in Query : /\ theirs'[c] = IF c = q THEN x ELSE theirs[c]
                         /\ ask'[c].at = "sent" => ask[c].at = "sent" /\ c # q
                         /\ ask'[c].caller = ask[c].caller
    BY <1>1, <2>1 DEF ReceiveRequest, QueryInv, QueryTypeOK
  <2>3. \A c \in Query : Handed(c)' <=> Handed(c)
    BY <2>1, <2>2 DEF Handed
  <2>4. RowsOK'
    BY <1>0, <2>1, <2>2, <2>3 DEF Straight, RowsOK
  <2>5. ForwardsOK'
    BY <1>0, <2>1, <2>2, <2>3 DEF Straight, ForwardsOK
  <2> QED BY <1>0, <2>1, <2>2, <2>3, <2>4, <2>5, RowsGo DEF Handed
<1>2. CASE AckRequest(q) \/ LogRequest(q) \/ RequestEnds(q) \/ RequestFails(q)
  <2>1. theirs' = theirs
    BY <1>2 DEF AckRequest, LogRequest, RequestEnds, RequestFails
  <2>2. \A c \in Query : Handed(c)' <=> Handed(c)
    BY <2>1 DEF Handed
  <2>3. \A c \in Query : /\ ask'[c].at = "sent" => ask[c].at = "sent"
                         /\ ask'[c].caller = "form" => ask[c].caller = "form"
    <3>1. CASE AckRequest(q)
      <4>1. ask'[q].at = "acked" /\ ask'[q].caller = ask[q].caller
        BY <3>1 DEF AckRequest, Tell, QueryInv, QueryTypeOK
      <4>2. \A c \in Query : c # q => ask'[c] = ask[c]
        BY <3>1 DEF AckRequest, QueryInv, QueryTypeOK
      <4> QED BY <4>1, <4>2
    <3>2. CASE LogRequest(q)
      BY <3>2 DEF LogRequest, QueryInv, QueryTypeOK
    <3>3. CASE ask' = [ask EXCEPT ![q] = Leave(ask[q])]
      BY <3>3 DEF Leave, QueryInv, QueryTypeOK
    <3> QED BY <1>2, <3>1, <3>2, <3>3 DEF RequestEnds, RequestFails
  <2>4. RowsOK'
    BY <1>0, <2>1, <2>2, <2>3 DEF Straight, RowsOK
  <2>5. ForwardsOK'
    BY <1>0, <2>1, <2>2 DEF Straight, ForwardsOK
  <2> QED BY <1>0, <2>1, <2>2, <2>4, <2>5, RowsGo
<1> QED BY <1>1, <1>2 DEF AskStep

(* Nothing disconnects: no child is rejected. *)
AllUp == \A q \in Query : up[q] = TRUE

(* Asking and forwarding keep it. *)
LEMMA RequestsStraight ==
  ASSUME QueryInv, QueryTypeOK', Straight, AllUp, Faults = {}, Tabs = 1, NEW q \in Query,
         \/ Request(q)
         \/ \E S \in SUBSET Query, v \in Value : BeginForward(q, S, v)
         \/ ForwardStep(q) \/ AskStep(q)
  PROVE  Straight'
<1>1. CASE Request(q)
  BY <1>1, SendStraight DEF Request
<1>2. ASSUME NEW c \in Query, AskChild(q, c) PROVE Straight'
  BY <1>2, SendStraight DEF AskChild
<1>3. ASSUME NEW c \in Query, ChildRejected(q, c) PROVE FALSE
  BY <1>3 DEF ChildRejected, AllUp
<1>4. CASE AskStep(q)
  BY <1>4, AskStraight
<1> QED BY <1>1, <1>2, <1>3, <1>4, ForwardStraight DEF ForwardStep

(* A call that a step leaves alone, or whose handler goes on after it has found
   the parent forwarded. *)
Late == {"children", "asking", "failing", "acking"}

SameCall(x) ==
    /\ say'[x].q = say[x].q /\ say'[x].answer = say[x].answer
    /\ say'[x].within = say[x].within /\ say'[x].caller = say[x].caller
    /\ say'[x].reply = say[x].reply
    /\ say'[x].at = say[x].at \/ (say[x].at \in Late /\ say'[x].at \in Late)

(* It still has what it relies on: a form its query, *)
LEMMA OtherForm ==
  ASSUME Straight, QueryInv, NEW x \in InFlight, say[x].caller = "form", SameCall(x),
         mine' = mine, theirs'[say[x].q] = theirs[say[x].q],
         \A y \in InFlight' : say'[y].q = say[x].q => y = x
  PROVE  FormOK(x)'
<1>1. PICK q \in Query : q = say[x].q
  BY CallIs
<1>2. /\ theirs[q].st = "pending_your_input" /\ say[x].within = NoCall
      /\ say[x].at = "done" => say[x].reply = "ack"
      /\ mine[q].answer = IF say[x].at \in {"sent", "read"} THEN NoAnswer ELSE say[x].answer
  BY <1>1 DEF Straight, CallsOK, FormOK
<1> QED BY <1>1, <1>2 DEF FormOK, SameCall, Late

(* ... and a handler the call it answers within. *)
LEMMA OtherNested ==
  ASSUME Straight, QueryInv, NEW x \in InFlight, say[x].caller = "handler", SameCall(x),
         mine' = mine, parent' = parent,
         \A c \in Query : Handed(c) => /\ Handed(c)'
                                       /\ theirs'[c].answer.value = theirs[c].answer.value,
         say[x].within \in InFlight',
         say'[say[x].within].q = say[say[x].within].q, say'[say[x].within].at = "asking",
         \A y \in InFlight' : say'[y].within = say[x].within => y = x
  PROVE  NestedOK(x)'
<1>1. PICK w \in InFlight, q \in Query :
        /\ say[x].within = w /\ say[x].q = q /\ say[w].at = "asking" /\ parent[say[w].q] = q
        /\ Handed(q) /\ AllHeard(q) /\ say[x].answer = Whole(q)
        /\ mine[q].answer \in {NoAnswer, say[x].answer}
        /\ say[x].at \notin {"sent", "read", "done"} \/ say[x].reply = "ack" => Heard(q)
        /\ \A y \in InFlight : say[y].within = w => y = x
  BY DEF Straight, CallsOK, NestedOK, Up
<1>2. Children(q)' = Children(q)
  BY DEF Children
<1>3. AllHeard(q)' /\ Whole(q)' = Whole(q) /\ Handed(q)'
  BY <1>1, <1>2, WholeStays
<1>4. /\ say'[x].within = w /\ say'[w].at = "asking" /\ Up(w)' = q
      /\ say'[x].q = q /\ Handed(q)' /\ AllHeard(q)' /\ say'[x].answer = Whole(q)'
  BY <1>1, <1>3 DEF Up, SameCall
<1>5. mine'[q].answer \in {NoAnswer, say'[x].answer}
  BY <1>1 DEF SameCall
<1>6. say'[x].at \notin {"sent", "read", "done"} \/ say'[x].reply = "ack" => Heard(q)'
  BY <1>1 DEF Heard, SameCall, Late
<1>7. w \in InFlight' /\ \A y \in InFlight' : say'[y].within = w => y = x
  BY <1>1
<1> QED BY <1>4, <1>5, <1>6, <1>7, Zenon DEF NestedOK

(* What CallsOK says of a call that was in flight before. *)
LEMMA OtherCall ==
  ASSUME Straight, QueryInv, NEW x \in InFlight, SameCall(x),
         mine' = mine, parent' = parent,
         \A c \in Query : Handed(c) => /\ Handed(c)'
                                       /\ theirs'[c].answer.value = theirs[c].answer.value,
         say[x].caller = "form" =>
            /\ theirs'[say[x].q] = theirs[say[x].q]
            /\ \A y \in InFlight' : say'[y].q = say[x].q => y = x,
         say[x].caller = "handler" =>
            /\ say[x].within \in InFlight'
            /\ say'[say[x].within].q = say[say[x].within].q
            /\ say'[say[x].within].at = "asking"
            /\ \A y \in InFlight' : say'[y].within = say[x].within => y = x,
         say'[x].at \in {"children", "asking"} => say[x].at \in {"children", "asking"}
  PROVE  /\ say'[x].caller # "gone" /\ say'[x].reply # "error"
         /\ say'[x].reply = "ack" => say'[x].at = "done"
         /\ say'[x].caller = "form" => FormOK(x)'
         /\ say'[x].caller = "handler" => NestedOK(x)'
         /\ say'[x].at \in {"children", "asking"} => Handed(Up(x))'
<1>1. say'[x].caller = "form" => FormOK(x)'
  BY OtherForm DEF SameCall
<1>2. say'[x].caller = "handler" => NestedOK(x)'
  BY OtherNested DEF SameCall
<1>3. ASSUME say'[x].at \in {"children", "asking"} PROVE Handed(Up(x))'
  <2>1. PICK q \in Query : q = Up(x) /\ Handed(q)
    BY <1>3, CallIs DEF Straight, CallsOK
  <2>2. Up(x)' = q
    BY <2>1 DEF Up, SameCall
  <2> QED BY <2>1, <2>2
<1> QED BY <1>1, <1>2, <1>3 DEF Straight, CallsOK, SameCall, Late

(* An answer that is written to the answering company's row keeps what is held. *)
LEMMA AnswersStay ==
  ASSUME QueryInv, Straight, parent' = parent, mine' = mine, ask' = ask,
         NEW q \in Query,
         \A c \in Query : c # q => theirs'[c] = theirs[c],
         \/ theirs'[q] = theirs[q]
         \/ /\ theirs'[q].st = "resolved" /\ theirs'[q].answer = mine[q].answer /\ Heard(q)
            /\ Children(q) # {} => /\ AllHeard(q) /\ mine[q].answer = Whole(q)
                                   /\ theirs'[q].answer.value = theirs[q].answer.value,
         \A x \in InFlight : say[x].caller = "form" /\ ~(x \in InFlight' /\ SameCall(x))
            => say[x].q = q /\ theirs'[q].st = "resolved"
  PROVE  /\ AnswersOK'
         /\ theirs[q].st \notin {"none"} => RowsOK'
<1>1. \A p \in Query : Children(p)' = Children(p) /\ (Heard(p)' <=> Heard(p))
  BY DEF Children, Heard
<1>2. \A p \in Query : AllHeard(p)' <=> AllHeard(p)
  <2>1. \A p \in Query : Children(p) \subseteq Query
    BY DEF Children
  <2> QED BY <1>1, <2>1 DEF AllHeard
<1>3. \A p \in Query : AllHeard(p) /\ theirs'[p].answer.value = theirs[p].answer.value
                         => Whole(p)' = Whole(p)
  BY <1>1, WholeStays
<1>4. ASSUME NEW p \in Query
      PROVE /\ theirs'[p].st \in {"none", "pending_your_input"} /\ Heard(p)'
                  => \E x \in InFlight' : say'[x].q = p /\ say'[x].caller = "form"
            /\ theirs'[p].st = "forwarded" /\ Heard(p)' => AllHeard(p)' /\ mine'[p].answer = Whole(p)'
            /\ theirs'[p].st = "resolved" => mine'[p].answer = theirs'[p].answer
            /\ theirs'[p].st = "resolved" /\ Children(p)' # {}
                  => AllHeard(p)' /\ mine'[p].answer = Whole(p)'
  <2>1. CASE theirs'[p] = theirs[p]
    BY <1>1, <1>2, <1>3, <2>1 DEF Straight, AnswersOK, SameCall
  <2>2. CASE theirs'[p] # theirs[p]
    BY <1>1, <1>2, <1>3, <2>2
  <2> QED BY <2>1, <2>2
<1>5. AnswersOK'
  BY <1>4 DEF AnswersOK
<1>6. ASSUME theirs[q].st \notin {"none"} PROVE RowsOK'
  <2>1. ask[q].at # "sent"
    BY <1>6 DEF Straight, RowsOK
  <2> QED BY <2>1 DEF Straight, RowsOK, Handed, Heard
<1> QED BY <1>5, <1>6

(* A handler goes on to its next statement. *)
LEMMA GotoStraight ==
  ASSUME QueryInv, Straight, NEW r \in InFlight, say[r].at \notin {"asking", "done"},
         NEW l \in SaySteps, Goto(r, l), UNCHANGED <<parent, theirs, ask, fwd>>,
         \A c \in Query : mine'[c].st = "none" <=> mine[c].st = "none",
         \A c \in Query : mine'[c].answer \in {mine[c].answer}
                              \cup (IF c = say[r].q THEN {say[r].answer} ELSE {}),
         say[r].caller = "form" =>
            /\ l # "done"
            /\ mine'[say[r].q].answer = IF l \in {"sent", "read"} THEN NoAnswer ELSE say[r].answer,
         say[r].caller = "handler" /\ l \notin {"sent", "read", "done"}
            => mine'[say[r].q].answer # NoAnswer,
         l \in {"children", "asking"} => Handed(Up(r))
  PROVE  Straight' /\ \A c \in Query : Heard(c) => mine'[c].answer = mine[c].answer
<1>1. say[r] \in Said /\ say[r].caller # "gone" /\ say[r].reply \notin {"ack", "error"}
  BY CallIs DEF Straight, CallsOK
<1>2. PICK rec \in Said : rec = [say[r] EXCEPT !.at = l]
  BY <1>1 DEF Said
<1>3. /\ rec.q = say[r].q /\ rec.answer = say[r].answer /\ rec.within = say[r].within
      /\ rec.caller = say[r].caller /\ rec.reply = say[r].reply /\ rec.at = l
  BY <1>1, <1>2 DEF Said
<1>4. say' = [say EXCEPT ![r] = rec]
  BY <1>1, <1>2, <1>3 DEF Goto, Put
<1>5. rec.at \in {"children", "asking"} => Handed(parent[rec.q])
  BY <1>3 DEF Up
<1>6. /\ rec.reply # "error" /\ (rec.reply = "ack" => rec.at = "done")
      /\ \A c \in Query : mine'[c].answer \in {mine[c].answer}
                              \cup (IF c = rec.q THEN {rec.answer} ELSE {})
  BY <1>1, <1>3
<1>7. rec.caller = "form" =>
        /\ rec.at = "done" => rec.reply = "ack"
        /\ mine'[rec.q].answer = IF rec.at \in {"sent", "read"} THEN NoAnswer ELSE rec.answer
  BY <1>3
<1>8. rec.caller = "handler" /\ (rec.at \notin {"sent", "read", "done"} \/ rec.reply = "ack")
        => mine'[rec.q].answer # NoAnswer
  BY <1>1, <1>3
<1>9. rec.q = say[r].q /\ rec.answer = say[r].answer /\ rec.within = say[r].within
      /\ rec.caller = say[r].caller
  BY <1>3
<1>10. Straight' /\ \A c \in Query : Heard(c) => mine'[c].answer = mine[c].answer
  BY <1>4, <1>5, <1>6, <1>7, <1>8, <1>9, CallGoes
<1> QED BY <1>10

(* The steps of the handler of a response up to the parent's answer. *)
LEMMA HandlerStraight ==
  ASSUME QueryInv, Straight, NEW r \in Call,
         \/ ReceiveResponse(r) \/ StoreResponse(r) \/ AckResponse(r)
         \/ CheckParent(r) \/ NotAllAnswered(r) \/ FailChild(r)
  PROVE  Straight' /\ \A c \in Query : Heard(c) => mine'[c].answer = mine[c].answer
<1>0. /\ r \in InFlight /\ say[r] \in Said /\ say[r].q \in Query /\ say[r].answer # NoAnswer
      /\ say[r].caller \in {"form", "handler"} /\ say[r].reply = "none"
      /\ say[r].at \in {"sent", "read", "parent", "children", "failing", "acking"}
  <2>1. /\ r \in InFlight
        /\ say[r].at \in {"sent", "read", "parent", "children", "failing", "acking"}
    BY DEF ReceiveResponse, StoreResponse, AckResponse, CheckParent, NotAllAnswered, FailChild, At
  <2>2. say[r].caller # "gone" /\ say[r].reply \notin {"ack", "error"}
    BY <2>1 DEF Straight, CallsOK
  <2> QED BY <2>1, <2>2, CallIs DEF Said, Reply
<1>1. say[r].caller = "form" =>
        mine[say[r].q].answer = IF say[r].at \in {"sent", "read"} THEN NoAnswer ELSE say[r].answer
  BY <1>0 DEF Straight, CallsOK, FormOK
<1>2. say[r].at \in {"parent", "children", "failing", "acking"} => Heard(say[r].q)
  BY <1>0 DEF QueryInv, Sound
<1>3. CASE ReceiveResponse(r)
  <2>1. say[r].at = "sent" /\ UNCHANGED <<parent, mine, theirs, ask, fwd>>
    BY <1>3 DEF ReceiveResponse, At
  <2>2. CASE mine[say[r].q].answer = NoAnswer
    <3>1. Goto(r, "read")
      BY <1>3, <2>2 DEF ReceiveResponse
    <3> QED BY <1>0, <1>1, <2>1, <2>2, <3>1, GotoStraight DEF SaySteps
  <2>3. CASE mine[say[r].q].answer # NoAnswer
    <3>1. Goto(r, "done") /\ say[r].caller = "handler"
      BY <1>0, <1>1, <1>3, <2>1, <2>3 DEF ReceiveResponse
    <3> QED BY <1>0, <2>1, <2>3, <3>1, GotoStraight DEF SaySteps
  <2> QED BY <2>2, <2>3
<1>4. CASE StoreResponse(r)
  <2> DEFINE row == [st |-> "resolved", answer |-> say[r].answer]
  <2>1. row.st = "resolved" /\ row.answer = say[r].answer /\ say[r].at = "read"
        /\ mine' = [mine EXCEPT ![say[r].q] = row] /\ UNCHANGED <<parent, theirs, ask, fwd>>
    BY <1>4 DEF StoreResponse, At
  <2> HIDE DEF row
  <2>2. PICK l \in {"acking", "parent"} : Goto(r, l)
    BY <1>4 DEF StoreResponse
  <2>3. \A c \in Query : mine'[c] = IF c = say[r].q THEN row ELSE mine[c]
    BY <2>1 DEF QueryInv, QueryTypeOK
  <2>4. mine[say[r].q].st # "none"
    BY <1>0, CallIs
  <2> QED BY <1>0, <2>1, <2>2, <2>3, <2>4, GotoStraight DEF SaySteps
<1>5. CASE CheckParent(r)
  <2>1. PICK l \in {"children", "failing"} : /\ Goto(r, l)
                                            /\ l = "children" => theirs[Up(r)].st = "forwarded"
    BY <1>5 DEF CheckParent
  <2> QED BY <1>0, <1>1, <1>2, <1>5, <2>1, GotoStraight DEF SaySteps, CheckParent, At, Heard, Handed
<1>6. CASE NotAllAnswered(r)
  BY <1>0, <1>1, <1>2, <1>6, GotoStraight DEF SaySteps, NotAllAnswered, At, Heard
<1>7. CASE FailChild(r)
  <2> DEFINE row == [mine[say[r].q] EXCEPT !.st = "errored"]
  <2>1. row.st = "errored" /\ row.answer = mine[say[r].q].answer
    BY <1>0 DEF QueryInv, QueryTypeOK
  <2>2. mine' = [mine EXCEPT ![say[r].q] = row] /\ say[r].at = "failing" /\ Goto(r, "acking")
        /\ UNCHANGED <<parent, theirs, ask, fwd>>
    BY <1>7 DEF FailChild, At
  <2> HIDE DEF row
  <2>3. \A c \in Query : mine'[c] = IF c = say[r].q THEN row ELSE mine[c]
    BY <2>2 DEF QueryInv, QueryTypeOK
  <2>4. mine[say[r].q].st # "none"
    BY <1>0, CallIs
  <2> QED BY ZenonT(30), <1>0, <1>1, <1>2, <2>1, <2>2, <2>3, <2>4, GotoStraight DEF SaySteps, Heard
<1>8. CASE AckResponse(r)
  <2> DEFINE d == [say[r] EXCEPT !.at = "done"]
  <2>1. d \in Said /\ d.at = "done" /\ d.caller = say[r].caller /\ d.reply = "none"
        /\ d.q = say[r].q /\ d.answer = say[r].answer /\ d.within = say[r].within
    BY <1>0 DEF Said, SaySteps
  <2>2. say' = [say EXCEPT ![r] = Put(Tell(d, "ack"))]
    BY <1>8 DEF AckResponse, ReplyWith
  <2> HIDE DEF d
  <2>3. PICK rec \in Said : rec = [d EXCEPT !.reply = "ack"]
    BY <2>1 DEF Said, Reply
  <2>4. /\ rec.q = say[r].q /\ rec.answer = say[r].answer /\ rec.within = say[r].within
        /\ rec.caller = say[r].caller /\ rec.reply = "ack" /\ rec.at = "done"
    BY <2>1, <2>3 DEF Said
  <2>5. say' = [say EXCEPT ![r] = rec]
    BY <1>0, <2>1, <2>2, <2>3, <2>4 DEF Tell, Put
  <2> QED BY <1>0, <1>1, <1>2, <1>8, <2>4, <2>5, CallGoes DEF AckResponse, At, Heard
<1> QED BY <1>3, <1>4, <1>5, <1>6, <1>7, <1>8

(* A response page of a query that waits for input. *)
LEMMA RespondStraight ==
  ASSUME QueryInv, Straight, Faults = {}, Tabs = 1,
         NEW q \in Query, NEW v \in Value, NEW r \in Call, Respond(q, v, r)
  PROVE  Straight'
<1> DEFINE call == NewCall(q, [value |-> v, parts |-> {}], NoCall, "form")
<1>1. /\ say[r] = Free /\ say' = [say EXCEPT ![r] = call] /\ UNCHANGED <<parent, mine, theirs, ask, fwd>>
      /\ theirs[q].st = "pending_your_input"
  BY DEF Respond, Offered
<1>2. /\ call.at = "sent" /\ call.q = q /\ call.within = NoCall /\ call.caller = "form"
      /\ call.reply = "none"
  BY DEF NewCall
<1> HIDE DEF call
<1>3. ~Handed(q) /\ ~fwd[q].on /\ \A x \in InFlight : say[x].q # q
  <2>1. ~Handed(q)
    BY <1>1 DEF Handed
  <2>2. ~fwd[q].on /\ \A x \in InFlight : say[x].q = q => say[x].caller # "form"
    BY OneForm DEF Respond
  <2> QED BY <2>1, <2>2, NotHanded
<1>4. mine[q].answer = NoAnswer
  BY <1>3, NotHanded DEF Heard
<1>5. /\ r \notin InFlight /\ InFlight' = InFlight \cup {r} /\ say'[r] = call
      /\ \A x \in InFlight : say'[x] = say[x] /\ SameCall(x)
  BY <1>1, <1>2 DEF InFlight, QueryInv, QueryTypeOK, Free, SameCall
<1>6. AnswersOK' /\ RowsOK'
  BY <1>1, <1>5, AnswersStay
<1>7. \A p \in Query : Children(p)' = Children(p) /\ (Handed(p)' <=> Handed(p))
  BY <1>1 DEF Children, Handed
<1>8. ForwardsOK'
  BY <1>1, <1>2, <1>3, <1>5, <1>7 DEF Straight, ForwardsOK
<1>9. ASSUME NEW x \in InFlight
      PROVE  /\ say[x].caller = "form" => \A y \in InFlight' : say'[y].q = say[x].q => y = x
             /\ say[x].caller = "handler" =>
                  /\ say[x].within \in InFlight /\ say[say[x].within].at = "asking"
                  /\ \A y \in InFlight' : say'[y].within = say[x].within => y = x
  <2>1. ASSUME say[x].caller = "form", NEW y \in InFlight', say'[y].q = say[x].q PROVE y = x
    BY <1>2, <1>3, <1>5, <2>1 DEF Straight, CallsOK, FormOK
  <2>2. ASSUME say[x].caller = "handler"
        PROVE  /\ say[x].within \in InFlight /\ say[say[x].within].at = "asking"
               /\ \A y \in InFlight : say[y].within = say[x].within => y = x
    BY <2>2 DEF Straight, CallsOK, NestedOK
  <2>3. ASSUME say[x].caller = "handler", NEW y \in InFlight', say'[y].within = say[x].within
        PROVE  y = x
    <3>1. say[x].within \in Call /\ NoCall \notin Call
      BY <2>2, <2>3, CallIs, NullsAreNotQueries
    <3> QED BY <1>2, <1>5, <2>2, <2>3, <3>1
  <2> QED BY <2>1, <2>2, <2>3
<1>10. FormOK(r)'
  <2>1. /\ theirs'[q].st = "pending_your_input" /\ say'[r].within = NoCall
        /\ \A s \in InFlight' : say'[s].q = q => s = r
        /\ say'[r].at = "sent" /\ mine'[q].answer = NoAnswer /\ say'[r].q = q
    BY <1>1, <1>2, <1>3, <1>4, <1>5
  <2> QED BY <2>1 DEF FormOK
<1>11. ASSUME NEW x \in InFlight
       PROVE  /\ say'[x].caller # "gone" /\ say'[x].reply # "error"
              /\ say'[x].reply = "ack" => say'[x].at = "done"
              /\ say'[x].caller = "form" => FormOK(x)'
              /\ say'[x].caller = "handler" => NestedOK(x)'
              /\ say'[x].at \in {"children", "asking"} => Handed(Up(x))'
  <2>1. theirs' = theirs /\ mine' = mine /\ parent' = parent /\ SameCall(x)
        /\ say'[x].at = say[x].at
    BY <1>1, <1>5
  <2>2. say[x].caller = "handler" => /\ say[x].within \in InFlight'
                                     /\ say'[say[x].within] = say[say[x].within]
                                     /\ say'[say[x].within].at = "asking"
    BY <1>5, <1>9
  <2> QED BY <1>7, <1>9, <2>1, <2>2, OtherCall
<1>12. CallsOK'
  <2>1. say'[r].caller # "gone" /\ say'[r].reply = "none" /\ say'[r].at = "sent"
        /\ say'[r].caller = "form"
    BY <1>2, <1>5
  <2> QED BY <1>5, <1>10, <1>11, <2>1 DEF CallsOK
<1> QED BY <1>6, <1>8, <1>12 DEF Straight

(* Two calls of different parts of the system do not rely on each other. *)
LEMMA Alone ==
  ASSUME QueryInv, Straight, NEW x \in InFlight
  PROVE  /\ say[x].caller \in {"form", "handler"}
         /\ say[x].caller = "form" => \A y \in InFlight : say[y].q = say[x].q => y = x
         /\ say[x].caller = "handler" =>
               /\ say[x].within \in InFlight /\ say[say[x].within].at = "asking"
               /\ say[x].q = Up(say[x].within)
               /\ \A y \in InFlight : say[y].within = say[x].within => y = x
<1>1. say[x].caller \in {"form", "handler"}
  BY CallIs DEF Said, Straight, CallsOK
<1> QED BY <1>1 DEF Straight, CallsOK, FormOK, NestedOK

(* The form has its acknowledgement. *)
LEMMA FormEndsStraight ==
  ASSUME QueryInv, Straight, NEW r \in Call, FormEnds(r)
  PROVE  Straight'
<1>1. /\ r \in InFlight /\ say[r] \in Said /\ say[r].caller = "form" /\ say[r].reply = "ack"
      /\ say[r].at = "done" /\ FormOK(r) /\ say[r].q \in Query /\ say[r].answer # NoAnswer
      /\ UNCHANGED <<parent, mine, ask, fwd>>
  BY CallIs DEF FormEnds, Straight, CallsOK
<1>2. PICK q \in Query : q = say[r].q
  BY <1>1
<1>3. /\ theirs[q].st = "pending_your_input" /\ mine[q].answer = say[r].answer
      /\ \A x \in InFlight : say[x].q = q => x = r
  BY <1>1, <1>2 DEF FormOK
<1> DEFINE row == [st |-> "resolved", answer |-> say[r].answer]
<1>4. /\ row.st = "resolved" /\ row.answer = say[r].answer
      /\ theirs' = [theirs EXCEPT ![q] = row]
  BY <1>2 DEF FormEnds
<1> HIDE DEF row
<1>5. \A c \in Query : theirs'[c] = IF c = q THEN row ELSE theirs[c]
  BY <1>4 DEF QueryInv, QueryTypeOK
<1>6. say' = [say EXCEPT ![r] = Free]
  BY <1>1 DEF FormEnds, CallerGone, Put, Leave, Said
<1>7. /\ InFlight' = InFlight \ {r}
      /\ \A x \in InFlight' : say'[x] = say[x] /\ SameCall(x)
  BY <1>6 DEF InFlight, QueryInv, QueryTypeOK, Free, SameCall
<1>8. ~Handed(q) /\ Children(q) = {}
  <2>1. ~Handed(q)
    BY <1>3 DEF Handed
  <2>2. ~fwd[q].on
    BY <1>1, <1>2 DEF Straight, ForwardsOK
  <2> QED BY <2>1, <2>2, NotHanded
<1>9. AnswersOK' /\ RowsOK'
  <2>1. \A c \in Query : c # q => theirs'[c] = theirs[c]
    BY <1>5
  <2>2. theirs'[q].st = "resolved" /\ theirs'[q].answer = mine[q].answer /\ Heard(q)
    BY <1>1, <1>3, <1>4, <1>5 DEF Heard
  <2>3. \A x \in InFlight : ~(x \in InFlight' /\ SameCall(x)) => say[x].q = q
    BY <1>2, <1>7
  <2>4. theirs[q].st \notin {"none"}
    BY <1>3
  <2> QED BY <1>1, <1>8, <2>1, <2>2, <2>3, <2>4, AnswersStay
<1>10. \A p \in Query : Children(p)' = Children(p) /\ (Handed(p)' <=> Handed(p) \/ p = q)
  BY <1>1, <1>4, <1>5 DEF Children, Handed
<1>11. ForwardsOK'
  <2>1. \A p \in Query : fwd[p].on => p # q
    BY <1>1, <1>2 DEF Straight, ForwardsOK
  <2> QED BY <1>1, <1>4, <1>5, <1>7, <1>8, <1>10, <2>1 DEF Straight, ForwardsOK
<1>12. ASSUME NEW x \in InFlight'
       PROVE  /\ say'[x].caller # "gone" /\ say'[x].reply # "error"
              /\ say'[x].reply = "ack" => say'[x].at = "done"
              /\ say'[x].caller = "form" => FormOK(x)'
              /\ say'[x].caller = "handler" => NestedOK(x)'
              /\ say'[x].at \in {"children", "asking"} => Handed(Up(x))'
  <2>1. x \in InFlight /\ x # r /\ SameCall(x) /\ say'[x] = say[x] /\ say[x].q \in Query
        /\ say[x].q # q
    BY <1>3, <1>7, CallIs
  <2>2. \A c \in Query : Handed(c) => /\ Handed(c)'
                                     /\ theirs'[c].answer.value = theirs[c].answer.value
    BY <1>5, <1>8, <1>10
  <2>3. say[x].caller = "form" => /\ theirs'[say[x].q] = theirs[say[x].q]
                                  /\ \A y \in InFlight' : say'[y].q = say[x].q => y = x
    BY <1>5, <1>7, <2>1, Alone
  <2>4. say[x].caller = "handler" =>
            /\ say[x].within \in InFlight'
            /\ say'[say[x].within] = say[say[x].within]
            /\ say'[say[x].within].at = "asking"
            /\ \A y \in InFlight' : say'[y].within = say[x].within => y = x
    BY <1>1, <1>7, <2>1, Alone
  <2> QED BY <1>1, <2>1, <2>2, <2>3, <2>4, OtherCall
<1>13. CallsOK'
  BY <1>12 DEF CallsOK
<1> QED BY <1>9, <1>11, <1>13 DEF Straight

(* A handler that finds every child answered sends the whole answer. *)
LEMMA AnswerParentStraight ==
  ASSUME QueryInv, Straight, NEW r \in Call, NEW s \in Call, AnswerParent(r, s)
  PROVE  Straight'
<1>1. /\ r \in InFlight /\ say[r].at = "children" /\ say[s] = Free /\ r # s
      /\ AllAnswered(Up(r)) /\ UNCHANGED <<parent, mine, theirs, ask, fwd>>
  BY DEF AnswerParent, At, InFlight, Free
<1>2. PICK q \in Query : q = Up(r) /\ Handed(q) /\ q = parent[say[r].q]
  BY <1>1, CallIs DEF Straight, CallsOK, Up
<1>3. say[r].q \in Children(q)
  BY <1>1, <1>2, CallIs DEF Children
<1>4. AllHeard(q) /\ Aggregate(q) = Whole(q)
  <2>1. \A c \in Children(q) : c \in Query /\ mine[c].st = "resolved"
    BY <1>1, <1>2 DEF AllAnswered, Children
  <2>2. AllHeard(q)
    BY <2>1 DEF AllHeard, QueryInv, Sound
  <2>3. {d \in Children(q) : mine[d].answer # NoAnswer} = Children(q)
    BY <2>2 DEF AllHeard, Heard
  <2> QED BY <2>2, <2>3 DEF Aggregate, Whole
<1>5. mine[q].answer \in {NoAnswer, Whole(q)}
  BY <1>2, <1>3 DEF Straight, AnswersOK, Handed, Heard
<1> DEFINE asking == [say[r] EXCEPT !.at = "asking"]
           call   == NewCall(q, Whole(q), r, "handler")
<1>6. /\ say[r] \in Said /\ asking.at = "asking" /\ asking.q = say[r].q
      /\ asking.answer = say[r].answer /\ asking.within = say[r].within
      /\ asking.caller = say[r].caller /\ asking.reply = say[r].reply
  BY <1>1, CallIs DEF Said
<1>7. /\ call.at = "sent" /\ call.q = q /\ call.answer = Whole(q) /\ call.within = r
      /\ call.caller = "handler" /\ call.reply = "none"
  BY DEF NewCall
<1>8. say' = [say EXCEPT ![r] = asking, ![s] = call]
  BY <1>1, <1>2, <1>4 DEF AnswerParent
<1> HIDE DEF asking, call
<1>9. say'[r] = asking /\ say'[s] = call /\ \A x \in Call \ {r, s} : say'[x] = say[x]
  BY <1>1, <1>8 DEF QueryInv, QueryTypeOK
<1>10. s \notin InFlight /\ InFlight' = InFlight \cup {s}
  BY <1>1, <1>6, <1>7, <1>9 DEF InFlight, Free
<1>11. \A x \in InFlight : /\ SameCall(x) /\ (x # r => say'[x] = say[x])
  BY <1>1, <1>6, <1>9, <1>10 DEF SameCall, InFlight, Late
<1>12. AnswersOK' /\ RowsOK'
  <2>1. theirs' = theirs /\ theirs[q].st \notin {"none"}
    BY <1>1, <1>2 DEF Handed
  <2> QED BY <1>1, <1>10, <1>11, <2>1, AnswersStay
<1>13. \A p \in Query : Children(p)' = Children(p) /\ (Handed(p)' <=> Handed(p))
  BY <1>1 DEF Children, Handed
<1>14. ForwardsOK'
  <2>1. \A p \in Query : fwd[p].on => p # q
    BY <1>2 DEF Straight, ForwardsOK, Handed
  <2>2. \A x \in InFlight' : say'[x].q = q \/ (x \in InFlight /\ say'[x].q = say[x].q)
    BY <1>7, <1>9, <1>10, <1>11 DEF SameCall
  <2> QED BY <1>1, <1>13, <2>1, <2>2 DEF Straight, ForwardsOK
<1>15. \A y \in InFlight : say[y].within # r
  <2> SUFFICES ASSUME NEW y \in InFlight, say[y].within = r PROVE FALSE
    OBVIOUS
  <2>1. CASE say[y].caller = "form"
    BY <2>1, NullsAreNotQueries DEF Straight, CallsOK, FormOK
  <2>2. CASE say[y].caller = "handler"
    BY <1>1, <2>2, Alone
  <2> QED BY <2>1, <2>2, Alone
<1>16. ASSUME NEW x \in InFlight
       PROVE  /\ say'[x].caller # "gone" /\ say'[x].reply # "error"
              /\ say'[x].reply = "ack" => say'[x].at = "done"
              /\ say'[x].caller = "form" => FormOK(x)'
              /\ say'[x].caller = "handler" => NestedOK(x)'
              /\ say'[x].at \in {"children", "asking"} => Handed(Up(x))'
  <2>1. \A c \in Query : Handed(c) => /\ Handed(c)'
                                     /\ theirs'[c].answer.value = theirs[c].answer.value
    BY <1>1, <1>13
  <2>2. \A y \in InFlight' : y = s \/ (y \in InFlight /\ say'[y].q = say[y].q
                                                      /\ say'[y].within = say[y].within)
    BY <1>10, <1>11 DEF SameCall
  <2>3. say[x].caller = "form" => /\ theirs'[say[x].q] = theirs[say[x].q]
                                  /\ \A y \in InFlight' : say'[y].q = say[x].q => y = x
    <3>1. say[x].caller = "form" => say[x].q # q
      BY <1>2 DEF Straight, CallsOK, FormOK, Handed
    <3> QED BY <1>1, <1>7, <1>9, <2>2, <3>1, Alone
  <2>4. ASSUME say[x].caller = "handler"
        PROVE  /\ say[x].within \in InFlight'
               /\ say'[say[x].within].q = say[say[x].within].q
               /\ say'[say[x].within].at = "asking"
               /\ \A y \in InFlight' : say'[y].within = say[x].within => y = x
    <3>1. /\ say[x].within \in InFlight /\ say[say[x].within].at = "asking"
          /\ say[x].within # r
          /\ \A y \in InFlight : say[y].within = say[x].within => y = x
      BY <2>4, <1>15, Alone
    <3>2. say'[say[x].within] = say[say[x].within]
      BY <1>11, <3>1
    <3> QED BY <1>7, <1>9, <1>10, <2>2, <3>1, <3>2
  <2>5. say'[x].at \in {"children", "asking"} => say[x].at \in {"children", "asking"}
    BY <1>1, <1>11
  <2> QED BY <1>1, <1>11, <2>1, <2>3, <2>4, <2>5, OtherCall
<1>17. NestedOK(s)'
  <2>1. AllHeard(q)' /\ Whole(q)' = Whole(q) /\ Handed(q)'
    BY <1>1, <1>2, <1>4, <1>13, WholeStays
  <2>2. r \in InFlight' /\ say'[s].within = r /\ say'[r].at = "asking" /\ Up(r)' = q
    BY <1>1, <1>2, <1>6, <1>7, <1>9, <1>10 DEF Up
  <2>3. say'[s].q = q /\ say'[s].answer = Whole(q)' /\ mine'[q].answer \in {NoAnswer, say'[s].answer}
    BY <1>1, <1>5, <1>7, <1>9, <2>1
  <2>4. say'[s].at \notin {"sent", "read", "done"} \/ say'[s].reply = "ack" => Heard(q)'
    BY <1>7, <1>9
  <2>5. \A x \in InFlight' : say'[x].within = r => x = s
    BY <1>10, <1>11, <1>15 DEF SameCall
  <2> QED BY <2>1, <2>2, <2>3, <2>4, <2>5, Zenon DEF NestedOK
<1>18. CallsOK'
  <2>1. say'[s].caller = "handler" /\ say'[s].reply = "none" /\ say'[s].at = "sent"
    BY <1>7, <1>9
  <2> QED BY <1>10, <1>16, <1>17, <2>1 DEF CallsOK
<1> QED BY <1>12, <1>14, <1>18 DEF Straight

(* The reply to the parent's answer, or none: the handler goes on. *)
LEMMA ParentStraight ==
  ASSUME QueryInv, Straight, Faults = {}, NEW r \in Call, NEW s \in Call,
         ParentAnswered(r, s) \/ ParentNotAnswered(r, s)
  PROVE  Straight'
<1>1. /\ r \in InFlight /\ s \in InFlight /\ say[r].at = "asking" /\ say[s].within = r
      /\ say[s].caller = "handler" /\ say[s].at = "done" /\ r # s
      /\ UNCHANGED <<parent, mine, ask, fwd>>
  <2>1. s \in InFlight /\ r \in InFlight /\ say[s].caller = "handler" /\ say[s].within = r
        /\ say[r].at = "asking" /\ UNCHANGED <<parent, mine, ask, fwd>>
    BY DEF ParentAnswered, ParentNotAnswered, At
  <2>2. say[s].reply # "error" /\ (say[s].reply = "ack" => say[s].at = "done")
    BY <2>1 DEF Straight, CallsOK
  <2> QED BY <2>1, <2>2 DEF ParentAnswered, ParentNotAnswered, NoReply
<1>2. PICK q \in Query :
        /\ q = Up(r) /\ say[s].q = q /\ Handed(q) /\ AllHeard(q) /\ say[s].answer = Whole(q)
        /\ mine[q].answer \in {NoAnswer, say[s].answer}
        /\ say[s].reply = "ack" => Heard(q)
        /\ \A x \in InFlight : say[x].within = r => x = s
  BY <1>1 DEF Straight, CallsOK, NestedOK
<1>3. PICK l \in {"acking", "failing"} : say' = [CallerGone(s) EXCEPT ![r].at = l]
  BY DEF ParentAnswered, ParentNotAnswered
<1> DEFINE late == [say[r] EXCEPT !.at = l]
<1>4. /\ late.at = l /\ late.q = say[r].q /\ late.answer = say[r].answer
      /\ late.within = say[r].within /\ late.caller = say[r].caller /\ late.reply = say[r].reply
  BY <1>1, CallIs DEF Said
<1>5. say' = [say EXCEPT ![s] = Free, ![r] = late]
  <2>1. CallerGone(s) = [say EXCEPT ![s] = Free]
    BY <1>1, CallIs DEF CallerGone, Put, Leave, Said
  <2> QED BY <1>1, <1>3, <2>1 DEF QueryInv, QueryTypeOK
<1> HIDE DEF late
<1>6. say'[r] = late /\ say'[s] = Free /\ \A x \in Call \ {r, s} : say'[x] = say[x]
  BY <1>1, <1>5 DEF QueryInv, QueryTypeOK
<1>7. InFlight' = InFlight \ {s}
  BY <1>1, <1>4, <1>6 DEF InFlight, Free
<1>8. \A x \in InFlight' : /\ x \in InFlight /\ x # s /\ SameCall(x)
                           /\ x # r => say'[x] = say[x]
  BY <1>1, <1>4, <1>6, <1>7 DEF SameCall, InFlight, Late
<1>9. /\ \A c \in Query : c # q => theirs'[c] = theirs[c]
      /\ \/ theirs'[q] = theirs[q]
         \/ /\ theirs'[q].st = "resolved" /\ theirs'[q].answer = Whole(q)
            /\ mine[q].answer = Whole(q) /\ Heard(q)
  <2>1. CASE ParentNotAnswered(r, s)
    BY <2>1 DEF ParentNotAnswered
  <2>2. CASE ParentAnswered(r, s)
    <3> DEFINE row == [st |-> "resolved", answer |-> say[s].answer]
    <3>1. /\ row.st = "resolved" /\ row.answer = Whole(q) /\ say[s].reply = "ack"
          /\ theirs' = [theirs EXCEPT ![q] = row]
      BY <1>2, <2>2 DEF ParentAnswered
    <3> HIDE DEF row
    <3> QED BY <1>2, <3>1 DEF QueryInv, QueryTypeOK, Heard
  <2> QED BY <2>1, <2>2
<1>10. theirs'[q].answer.value = theirs[q].answer.value
  BY <1>9 DEF Whole
<1>11. AnswersOK' /\ RowsOK'
  <2>1. \A x \in InFlight : say[x].caller = "form" => x \in InFlight' /\ SameCall(x)
    BY <1>1, <1>7, <1>8
  <2>2. theirs[q].st \notin {"none"}
    BY <1>2 DEF Handed
  <2> QED BY <1>1, <1>2, <1>9, <1>10, <2>1, <2>2, AnswersStay
<1>12. \A p \in Query : Children(p)' = Children(p) /\ (Handed(p)' <=> Handed(p))
  <2>1. \A p \in Query : Handed(p)' <=> Handed(p)
    BY <1>2, <1>9 DEF Handed
  <2> QED BY <1>1, <2>1 DEF Children
<1>13. ForwardsOK'
  <2>1. \A p \in Query : fwd[p].on => p # q
    BY <1>2 DEF Straight, ForwardsOK, Handed
  <2>2. \A x \in InFlight' : x \in InFlight /\ say'[x].q = say[x].q
    BY <1>8 DEF SameCall
  <2>3. theirs'[q].st = "forwarded" => theirs[q].st = "forwarded"
    BY <1>9
  <2> QED BY <1>1, <1>9, <1>12, <2>1, <2>2, <2>3 DEF Straight, ForwardsOK
<1>14. ASSUME NEW x \in InFlight'
       PROVE  /\ say'[x].caller # "gone" /\ say'[x].reply # "error"
              /\ say'[x].reply = "ack" => say'[x].at = "done"
              /\ say'[x].caller = "form" => FormOK(x)'
              /\ say'[x].caller = "handler" => NestedOK(x)'
              /\ say'[x].at \in {"children", "asking"} => Handed(Up(x))'
  <2>1. \A c \in Query : Handed(c) => /\ Handed(c)'
                                     /\ theirs'[c].answer.value = theirs[c].answer.value
    BY <1>9, <1>10, <1>12
  <2>2. \A y \in InFlight' : y \in InFlight /\ say'[y].q = say[y].q
                                           /\ say'[y].within = say[y].within
    BY <1>8 DEF SameCall
  <2>3. x \in InFlight /\ SameCall(x) /\ x # s /\ say[x].q \in Query
    BY <1>8, CallIs
  <2>4. say[x].caller = "form" => /\ theirs'[say[x].q] = theirs[say[x].q]
                                  /\ \A y \in InFlight' : say'[y].q = say[x].q => y = x
    <3>1. say[x].caller = "form" => say[x].q # q
      BY <1>2, <2>3 DEF Straight, CallsOK, FormOK, Handed
    <3> QED BY <1>9, <2>2, <2>3, <3>1, Alone
  <2>5. ASSUME say[x].caller = "handler"
        PROVE  /\ say[x].within \in InFlight'
               /\ say'[say[x].within].q = say[say[x].within].q
               /\ say'[say[x].within].at = "asking"
               /\ \A y \in InFlight' : say'[y].within = say[x].within => y = x
    <3>1. /\ say[x].within \in InFlight /\ say[say[x].within].at = "asking"
          /\ say[x].within # r
          /\ \A y \in InFlight : say[y].within = say[x].within => y = x
      BY <1>2, <2>3, <2>5, Alone
    <3>2. say[x].within \in InFlight' /\ say'[say[x].within] = say[say[x].within]
      BY <1>1, <1>7, <1>8, <3>1
    <3> QED BY <2>2, <3>1, <3>2
  <2>6. say'[x].at \in {"children", "asking"} => say[x].at \in {"children", "asking"}
    BY <1>1, <1>8
  <2> QED BY <1>1, <2>1, <2>3, <2>4, <2>5, <2>6, OtherCall
<1>15. CallsOK'
  BY <1>14 DEF CallsOK
<1> QED BY <1>11, <1>13, <1>15 DEF Straight

(* An acknowledgement comes: no form fails. *)
LEMMA NoFormFails ==
  ASSUME QueryInv, Straight, Faults = {}, NEW r \in Call, FormFails(r)
  PROVE  FALSE
<1>1. r \in InFlight /\ say[r].caller = "form" /\ say[r].reply # "error"
      /\ (say[r].at = "done" => say[r].reply = "ack")
  BY DEF FormFails, Straight, CallsOK, FormOK
<1> QED BY <1>1 DEF FormFails, NoReply

(* Every step of the responses. *)
LEMMA ResponsesStraight ==
  ASSUME QueryInv, Straight, Faults = {}, Tabs = 1, NEW r \in Call,
         \/ \E q \in Query, v \in Value : Respond(q, v, r)
         \/ SayStep(r) \/ NestedStep(r)
  PROVE  Straight' /\ \A c \in Query : Heard(c) => mine'[c].answer = mine[c].answer
<1>1. CASE \E q \in Query, v \in Value : Respond(q, v, r)
  BY <1>1, RespondStraight DEF Respond
<1>2. CASE SayStep(r)
  <2>1. CASE \/ ReceiveResponse(r) \/ StoreResponse(r) \/ AckResponse(r)
             \/ CheckParent(r) \/ NotAllAnswered(r) \/ FailChild(r)
    BY <2>1, HandlerStraight
  <2>2. CASE FormEnds(r)
    BY <2>2, FormEndsStraight DEF FormEnds
  <2> QED BY <1>2, <2>1, <2>2, NoFormFails DEF SayStep
<1>3. ASSUME NEW s \in Call, AnswerParent(r, s)
      PROVE  Straight' /\ mine' = mine
  BY <1>3, AnswerParentStraight DEF AnswerParent
<1>4. ASSUME NEW s \in Call, ParentAnswered(r, s) \/ ParentNotAnswered(r, s)
      PROVE  Straight' /\ mine' = mine
  BY <1>4, ParentStraight DEF ParentAnswered, ParentNotAnswered
<1> QED BY <1>1, <1>2, <1>3, <1>4 DEF NestedStep

(* What can still happen when nothing goes wrong. *)
LEMMA FaultFreeSteps ==
  ASSUME QueryNext, Faults = {}
  PROVE  \/ \E q \in Query :
               \/ Request(q)
               \/ \E S \in SUBSET Query, v \in Value : BeginForward(q, S, v)
               \/ ForwardStep(q) \/ AskStep(q)
         \/ \E r \in Call :
               \/ \E q \in Query, v \in Value : Respond(q, v, r)
               \/ SayStep(r) \/ NestedStep(r)
<1>1. ~FaultStep
  BY DEF FaultStep, RequestHandlerFails, RequestLost, Hangup, ResponseHandlerFails,
         ResponseLost, ParentFails, Crash
<1> QED BY <1>1 DEF QueryNext, UserStep

(* No connection goes down. *)
LEMMA NoHangup ==
  ASSUME QueryNext, Faults = {}
  PROVE  up' = up
<1>1. ASSUME NEW q \in Query,
             \/ Request(q)
             \/ \E S \in SUBSET Query, v \in Value : BeginForward(q, S, v)
             \/ ForwardStep(q) \/ AskStep(q)
      PROVE  up' = up
  BY <1>1 DEF Request, BeginForward, ForwardStep, AskChild, ChildRejected, EndForward, AskStep,
              ReceiveRequest, AckRequest, LogRequest, RequestEnds, RequestFails
<1>2. ASSUME NEW r \in Call,
             \/ \E q \in Query, v \in Value : Respond(q, v, r)
             \/ SayStep(r) \/ NestedStep(r)
      PROVE  up' = up
  BY <1>2 DEF Respond, SayStep, ReceiveResponse, StoreResponse, AckResponse, CheckParent,
              NotAllAnswered, FailChild, FormEnds, FormFails, NestedStep, AnswerParent,
              ParentAnswered, ParentNotAnswered
<1> QED BY <1>1, <1>2, FaultFreeSteps

StraightInv == QueryInv /\ Straight /\ AllUp

LEMMA StraightStep ==
  ASSUME StraightInv, Faults = {}, Tabs = 1, QueryNext
  PROVE  /\ StraightInv'
         /\ \A c \in Query : Heard(c) => mine'[c].answer = mine[c].answer
<1>1. QueryInv' /\ QueryTypeOK'
  BY QueryInvStep DEF StraightInv, QueryInv
<1>2. AllUp'
  BY NoHangup DEF StraightInv, AllUp
<1>3. ASSUME NEW q \in Query,
             \/ Request(q)
             \/ \E S \in SUBSET Query, v \in Value : BeginForward(q, S, v)
             \/ ForwardStep(q) \/ AskStep(q)
      PROVE  Straight' /\ \A c \in Query : mine'[c].answer = mine[c].answer
  <2>1. Kept
    BY <1>3, QueryInvRequests DEF StraightInv
  <2>2. Straight'
    BY <1>1, <1>3, RequestsStraight DEF StraightInv
  <2> QED BY <2>1, <2>2 DEF Kept
<1>4. ASSUME NEW r \in Call,
             \/ \E q \in Query, v \in Value : Respond(q, v, r)
             \/ SayStep(r) \/ NestedStep(r)
      PROVE  Straight' /\ \A c \in Query : Heard(c) => mine'[c].answer = mine[c].answer
  BY <1>4, ResponsesStraight DEF StraightInv
<1> QED BY <1>1, <1>2, <1>3, <1>4, FaultFreeSteps DEF StraightInv

LEMMA StraightStutter ==
  ASSUME StraightInv, UNCHANGED queryVars
  PROVE  StraightInv'
<1>1. QueryInv' /\ AllUp'
  BY QueryInvStutter DEF StraightInv, AllUp, queryVars
<1>2. UNCHANGED <<parent, mine, theirs, ask, say, fwd>>
  BY DEF queryVars
<1>3. QueryTypeOK'
  BY <1>1 DEF QueryInv
<1>4. \A p \in Query : Children(p)' = Children(p) /\ (Handed(p)' <=> Handed(p))
  BY <1>2 DEF Children, Handed
<1>5. RowsOK' /\ ForwardsOK'
  BY <1>2, <1>4 DEF StraightInv, Straight, RowsOK, ForwardsOK, InFlight
<1>6. Straight'
  BY <1>2, <1>3, <1>4, <1>5, RowsGo DEF StraightInv
<1> QED BY <1>1, <1>6 DEF StraightInv

LEMMA StraightAlways ==
  ASSUME Faults = {}, Tabs = 1
  PROVE  QuerySpec => []StraightInv
<1>1. QueryInit => StraightInv
  BY QueryInvInit, StraightInit DEF StraightInv, AllUp, QueryInit
<1>2. StraightInv /\ [QueryNext]_queryVars => StraightInv'
  BY StraightStep, StraightStutter
<1> QED BY <1>1, <1>2, PTL DEF QuerySpec

(* With one response page per query and nothing going wrong, both companies hold
   the same answer when the answering one regards the query as resolved: for any
   number of companies, queries and requests in flight. *)
THEOREM SameAnswerHolds ==
  ASSUME Faults = {}, Tabs = 1
  PROVE  QuerySpec => []SameAnswer
<1>1. StraightInv => SameAnswer
  BY DEF StraightInv, Straight, AnswersOK, SameAnswer, Resolved
<1> QED BY <1>1, StraightAlways, PTL

(* An aggregated answer has the answer of every child, in whatever order the
   children's handlers ran: handleParentQuery sends it only when it finds every
   child resolved, and a query has no new child once it was forwarded. *)
THEOREM NoPartMissingHolds ==
  ASSUME Faults = {}, Tabs = 1
  PROVE  QuerySpec => []NoPartMissing
<1>1. ASSUME StraightInv PROVE NoPartMissing
  <2> SUFFICES ASSUME NEW p \in Query, Resolved(p), NEW c \in Children(p)
               PROVE  Heard(c) /\ <<c, mine[c].answer.value>> \in theirs[p].answer.parts
    BY DEF NoPartMissing
  <2>1. AllHeard(p) /\ theirs[p].answer = Whole(p)
    BY <1>1 DEF StraightInv, Straight, AnswersOK, Resolved
  <2>2. Heard(c)
    BY <2>1 DEF AllHeard
  <2>3. <<c, mine[c].answer.value>> \in Whole(p).parts
    BY DEF Whole
  <2> QED BY <2>1, <2>2, <2>3
<1> QED BY <1>1, StraightAlways, PTL

(* An answer a user has seen is never replaced, although handleSubmitQueryResponse
   tests for an earlier answer in one statement and stores the new one in another:
   no two responses to a query are read at the same time. *)
THEOREM AnswerStandsHolds ==
  ASSUME Faults = {}, Tabs = 1
  PROVE  QuerySpec => AnswerStands
<1>1. StraightInv /\ QueryNext => \A q \in Query : Heard(q) => mine'[q].answer = mine[q].answer
  BY StraightStep
<1>2. StraightInv /\ [QueryNext]_queryVars
        => [\A q \in Query : Heard(q) => mine'[q].answer = mine[q].answer]_queryVars
  BY <1>1
<1> QED BY <1>2, StraightAlways, PTL DEF QuerySpec, AnswerStands
-----------------------------------------------------------------------------
(* Why no query is forgotten.  A forwarded query whose children are all answered
   has a handler at work that will answer it; and while the query is still being
   forwarded, the handler of each answered child has not looked yet, or has found
   it not forwarded and takes the child's answer for an error. *)
Ahead == {"parent", "failing"}
AtWork == {"parent", "children", "asking", "failing"}

Awaited ==
    \A p \in Query :
        /\ theirs[p].st = "pending_your_input" =>
              \A c \in Children(p) : mine[c].st = "resolved" =>
                 \E r \in InFlight : say[r].q = c /\ say[r].at \in Ahead
        /\ theirs[p].st = "forwarded" /\ AllAnswered(p) =>
              \E r \in InFlight : Up(r) = p /\ say[r].at \in AtWork

(* A handler at work goes on, unless its query has no need of it any more. *)
HandsOn(r) ==
    \/ mine'[say[r].q].st # "resolved"
    \/ theirs'[Up(r)].st = "resolved"
    \/ say[r].at = "children" /\ \E p \in Query : p = Up(r) /\ ~AllAnswered(p)'
    \/ /\ r \in InFlight' /\ say'[r].q = say[r].q /\ say'[r].at \in AtWork
       /\ say[r].at \in Ahead /\ theirs[Up(r)].st # "forwarded" => say'[r].at \in Ahead

LEMMA AwaitedGoes ==
  ASSUME QueryInv, Awaited,
         \A p \in Query :
            /\ theirs'[p].st = "pending_your_input" =>
                  theirs[p].st = "pending_your_input" \/ Children(p)' = {}
            /\ theirs'[p].st = "forwarded" =>
                  \/ theirs[p].st = "forwarded"
                  \/ theirs[p].st = "pending_your_input" /\ Children(p) # {},
         \A c \in Query :
            /\ mine[c].st # "none" => mine'[c].st # "none" /\ parent'[c] = parent[c]
            /\ mine'[c].st = "resolved" =>
                  \/ mine[c].st = "resolved"
                  \/ parent'[c] = NoQuery
                  \/ \E r \in InFlight' : say'[r].q = c /\ say'[r].at = "parent",
         \A r \in InFlight : say[r].at \in AtWork => HandsOn(r)
  PROVE  Awaited'
<1>1. /\ NoQuery \notin Query
      /\ \A p \in Query : Children(p) \subseteq Query /\ Children(p)' \subseteq Query
      /\ \A p \in Query : \A c \in Children(p) : c \in Children(p)' /\ parent[c] = p
      /\ \A p \in Query : \A c \in Children(p)' : parent'[c] = p
  BY NullsAreNotQueries DEF Children
<1>2. ASSUME NEW p \in Query, theirs'[p].st = "pending_your_input",
             NEW c \in Children(p)', mine'[c].st = "resolved"
      PROVE  \E r \in InFlight' : say'[r].q = c /\ say'[r].at \in Ahead
  <2>1. theirs[p].st = "pending_your_input" /\ c \in Query /\ parent'[c] = p
    BY <1>1, <1>2
  <2>2. CASE mine[c].st = "resolved"
    <3>1. c \in Children(p)
      BY <2>1, <2>2 DEF Children
    <3>2. PICK r \in InFlight : say[r].q = c /\ say[r].at \in Ahead
      BY <2>1, <2>2, <3>1 DEF Awaited
    <3>3. Up(r) = p /\ say[r].at \in AtWork /\ say[r].at # "children"
      BY <1>1, <3>1, <3>2 DEF Up, Ahead, AtWork
    <3>4. r \in InFlight' /\ say'[r].q = c /\ say'[r].at \in Ahead
      BY <1>2, <2>1, <3>2, <3>3 DEF HandsOn
    <3> QED BY <3>4
  <2>3. CASE mine[c].st # "resolved"
    BY <1>1, <1>2, <2>1, <2>3 DEF Ahead
  <2> QED BY <2>2, <2>3
<1>3. ASSUME NEW p \in Query, theirs'[p].st = "forwarded", AllAnswered(p)'
      PROVE  \E r \in InFlight' : Up(r)' = p /\ say'[r].at \in AtWork
  <2>0. \A c \in Children(p)' : mine'[c].st = "resolved" /\ c \in Query /\ parent'[c] = p
    BY <1>1, <1>3 DEF AllAnswered
  <2>1. CASE \E c \in Children(p)' : mine[c].st # "resolved"
    <3>1. PICK c \in Children(p)' : mine[c].st # "resolved"
      BY <2>1
    <3>2. PICK r \in InFlight' : say'[r].q = c /\ say'[r].at = "parent"
      BY <1>1, <2>0, <3>1
    <3>3. Up(r)' = p /\ say'[r].at \in AtWork
      BY <2>0, <3>2 DEF Up, AtWork
    <3> QED BY <3>3
  <2>2. CASE \A c \in Children(p)' : mine[c].st = "resolved"
    <3>1. \A c \in Children(p) : mine[c].st = "resolved"
      BY <1>1, <2>2
    <3>2. PICK r \in InFlight : Up(r) = p /\ say[r].at \in AtWork
      <4>1. CASE theirs[p].st = "forwarded"
        BY <3>1, <4>1 DEF Awaited, AllAnswered
      <4>2. CASE theirs[p].st = "pending_your_input" /\ Children(p) # {}
        <5>1. PICK c \in Children(p) : TRUE
          BY <4>2
        <5>2. PICK r \in InFlight : say[r].q = c /\ say[r].at \in Ahead
          BY <3>1, <4>2, <5>1 DEF Awaited
        <5> QED BY <1>1, <5>1, <5>2 DEF Up, Ahead, AtWork
      <4> QED BY <1>3, <4>1, <4>2
    <3>3. PICK c \in Query : c = say[r].q /\ mine[c].st # "none" /\ parent[c] = p
      BY <3>2, CallIs DEF Up
    <3>4. c \in Children(p)'
      BY <1>1, <3>3 DEF Children
    <3>5. r \in InFlight' /\ say'[r].q = c /\ say'[r].at \in AtWork
      BY <1>3, <2>0, <3>2, <3>3, <3>4 DEF HandsOn
    <3>6. Up(r)' = p
      BY <2>0, <3>4, <3>5 DEF Up
    <3> QED BY <3>5, <3>6
  <2> QED BY <2>1, <2>2
<1> QED BY <1>2, <1>3 DEF Awaited

(* Asking and forwarding leave the handlers at work. *)
LEMMA AwaitedRequests ==
  ASSUME StraightInv, QueryTypeOK', Awaited, Faults = {}, Tabs = 1, NEW q \in Query,
         \/ Request(q)
         \/ \E S \in SUBSET Query, v \in Value : BeginForward(q, S, v)
         \/ ForwardStep(q) \/ AskStep(q)
  PROVE  Awaited'
<1>1. QueryInv /\ Straight /\ Kept
  BY QueryInvRequests DEF StraightInv
<1>2. \A c \in Query : /\ mine'[c].st = "resolved" => mine[c].st = "resolved"
                       /\ mine[c].st # "none" => mine'[c].st # "none" /\ parent'[c] = parent[c]
  BY <1>1 DEF Kept
<1>3. \A r \in InFlight : say[r].at \in AtWork => HandsOn(r)
  BY <1>1 DEF Kept, InFlight, HandsOn
<1>4. CASE theirs' = theirs
  BY <1>1, <1>2, <1>3, <1>4, AwaitedGoes
<1>5. CASE ReceiveRequest(q)
  <2>1. Children(q)' = {}
    <3>1. ~Handed(q) /\ ~fwd[q].on
      BY <1>1, <1>5 DEF ReceiveRequest, Straight, RowsOK, ForwardsOK, Handed
    <3>2. Children(q) = {}
      BY <1>1, <3>1, NotHanded
    <3> QED BY <1>5, <3>2 DEF ReceiveRequest, Children
  <2>2. \A c \in Query : c # q => theirs'[c] = theirs[c]
    BY <1>1, <1>5 DEF ReceiveRequest, QueryInv, QueryTypeOK
  <2>3. theirs'[q].st = "pending_your_input"
    BY <1>1, <1>5 DEF ReceiveRequest, QueryInv, QueryTypeOK
  <2> QED BY <1>1, <1>2, <1>3, <2>1, <2>2, <2>3, AwaitedGoes
<1>6. CASE EndForward(q)
  <2>1. theirs[q].st = "pending_your_input" /\ ~fwd[q].rejected /\ Children(q) # {}
    BY <1>1, <1>6 DEF EndForward, Straight, ForwardsOK
  <2>2. \A c \in Query : c # q => theirs'[c] = theirs[c]
    BY <1>1, <1>6 DEF EndForward, QueryInv, QueryTypeOK
  <2>3. theirs'[q].st = "forwarded"
    BY <1>1, <1>6, <2>1 DEF EndForward, QueryInv, QueryTypeOK
  <2> QED BY <1>1, <1>2, <1>3, <2>1, <2>2, <2>3, AwaitedGoes
<1> QED BY <1>4, <1>5, <1>6 DEF Request, BeginForward, ForwardStep, AskChild, ChildRejected,
           AskStep, AckRequest, LogRequest, RequestEnds, RequestFails

(* One call goes on, and no answering company's row is touched. *)
LEMMA AwaitedCall ==
  ASSUME QueryInv, Awaited, UNCHANGED <<parent, theirs>>,
         \A c \in Query : mine[c].st # "none" => mine'[c].st # "none",
         \A c \in Query : mine'[c].st = "resolved" =>
            \/ mine[c].st = "resolved" \/ parent'[c] = NoQuery
            \/ \E r \in InFlight' : say'[r].q = c /\ say'[r].at = "parent",
         \A r \in InFlight : say[r].at \in AtWork => HandsOn(r)
  PROVE  Awaited'
BY AwaitedGoes

LEMMA GotoMoves ==
  ASSUME QueryInv, Straight, NEW r \in InFlight, NEW l \in SaySteps, Goto(r, l)
  PROVE  /\ InFlight' = InFlight /\ say'[r].q = say[r].q /\ say'[r].at = l
         /\ \A x \in InFlight : x # r => say'[x] = say[x]
<1>1. say[r] \in Said /\ say[r].caller # "gone" /\ r \in Call
  BY CallIs DEF Straight, CallsOK
<1>2. PICK rec \in Said : rec = [say[r] EXCEPT !.at = l]
  BY <1>1 DEF Said
<1>3. rec.q = say[r].q /\ rec.at = l /\ rec.caller = say[r].caller /\ rec.at # "free"
  BY <1>1, <1>2 DEF Said, SaySteps
<1>4. say' = [say EXCEPT ![r] = rec]
  BY <1>1, <1>2, <1>3 DEF Goto, Put
<1> QED BY <1>1, <1>3, <1>4 DEF InFlight, QueryInv, QueryTypeOK

(* The handler of a response looks at the parent, or gives the child up. *)
LEMMA AwaitedHandler ==
  ASSUME QueryInv, Straight, Awaited, NEW r \in Call,
         \/ ReceiveResponse(r) \/ StoreResponse(r) \/ CheckParent(r)
         \/ NotAllAnswered(r) \/ FailChild(r)
  PROVE  Awaited'
<1>1. PICK l \in SaySteps : Goto(r, l)
  BY DEF ReceiveResponse, StoreResponse, CheckParent, NotAllAnswered, FailChild, SaySteps
<1>2. /\ r \in InFlight /\ say[r].q \in Query /\ mine[say[r].q].st # "none"
      /\ UNCHANGED <<parent, theirs>>
  BY CallIs DEF ReceiveResponse, StoreResponse, CheckParent, NotAllAnswered, FailChild, At
<1>3. /\ InFlight' = InFlight /\ say'[r].q = say[r].q /\ say'[r].at = l
      /\ \A x \in InFlight : x # r => say'[x] = say[x]
  BY <1>1, <1>2, GotoMoves
<1>4. \A x \in InFlight : x # r /\ say[x].at \in AtWork => HandsOn(x)
  BY <1>3 DEF HandsOn
<1>5. CASE ReceiveResponse(r)
  <2>1. say[r].at \notin AtWork /\ mine' = mine
    BY <1>5 DEF ReceiveResponse, At, AtWork
  <2> QED BY <1>2, <1>4, <2>1, AwaitedCall
<1>6. CASE StoreResponse(r)
  <2> DEFINE row == [st |-> "resolved", answer |-> say[r].answer]
  <2>1. say[r].at \notin AtWork /\ row.st = "resolved"
        /\ mine' = [mine EXCEPT ![say[r].q] = row]
    BY <1>6 DEF StoreResponse, At, AtWork
  <2> HIDE DEF row
  <2>2. \A c \in Query : mine'[c] = IF c = say[r].q THEN row ELSE mine[c]
    BY <2>1 DEF QueryInv, QueryTypeOK
  <2>3. parent[say[r].q] # NoQuery => say'[r].at = "parent"
    BY <1>2, <1>6, GotoMoves DEF StoreResponse, SaySteps
  <2>4. \A c \in Query : mine'[c].st = "resolved" =>
            \/ mine[c].st = "resolved" \/ parent'[c] = NoQuery
            \/ \E x \in InFlight' : say'[x].q = c /\ say'[x].at = "parent"
    BY <1>2, <1>3, <2>2, <2>3
  <2>5. \A c \in Query : mine[c].st # "none" => mine'[c].st # "none"
    BY <2>1, <2>2
  <2>6. \A x \in InFlight : say[x].at \in AtWork => HandsOn(x)
    BY <1>4, <2>1
  <2> QED BY <1>2, <2>4, <2>5, <2>6, AwaitedCall
<1>7. CASE CheckParent(r)
  <2>1. IF theirs[Up(r)].st = "forwarded" THEN say'[r].at = "children" ELSE say'[r].at = "failing"
    BY <1>2, <1>7, GotoMoves DEF CheckParent, SaySteps
  <2>2. HandsOn(r)
    BY <1>2, <1>3, <2>1 DEF HandsOn, AtWork, Ahead
  <2> QED BY <1>2, <1>4, <1>7, <2>2, AwaitedCall DEF CheckParent
<1>8. CASE NotAllAnswered(r)
  <2>1. Up(r) \in Query /\ say[r].at = "children" /\ UNCHANGED <<parent, mine>>
        /\ ~AllAnswered(Up(r))
    BY <1>2, <1>8, CallIs DEF NotAllAnswered, At
  <2>2. PICK p \in Query : p = Up(r) /\ ~AllAnswered(p)
    BY <2>1
  <2>3. ~AllAnswered(p)'
    BY <2>1, <2>2 DEF AllAnswered, Children
  <2>4. HandsOn(r)
    BY <2>1, <2>2, <2>3 DEF HandsOn
  <2> QED BY <1>2, <1>4, <2>1, <2>4, AwaitedCall
<1>9. CASE FailChild(r)
  <2> DEFINE row == [mine[say[r].q] EXCEPT !.st = "errored"]
  <2>1. row.st = "errored" /\ mine' = [mine EXCEPT ![say[r].q] = row]
    BY <1>2, <1>9 DEF FailChild, QueryInv, QueryTypeOK
  <2> HIDE DEF row
  <2>2. \A c \in Query : mine'[c] = IF c = say[r].q THEN row ELSE mine[c]
    BY <2>1 DEF QueryInv, QueryTypeOK
  <2>3. HandsOn(r)
    BY <1>2, <2>1, <2>2 DEF HandsOn
  <2>4. \A c \in Query : /\ mine[c].st # "none" => mine'[c].st # "none"
                         /\ mine'[c].st = "resolved" => mine[c].st = "resolved"
    BY <2>1, <2>2
  <2> QED BY <1>2, <1>4, <2>3, <2>4, AwaitedCall
<1> QED BY <1>5, <1>6, <1>7, <1>8, <1>9

(* The steps that end a call, or send one for the parent. *)
LEMMA AwaitedResponses ==
  ASSUME StraightInv, Awaited, Faults = {}, NEW r \in Call,
         \/ \E q \in Query, v \in Value : Respond(q, v, r)
         \/ SayStep(r) \/ NestedStep(r)
  PROVE  Awaited'
<1>0. QueryInv /\ Straight
  BY DEF StraightInv
<1>t. say \in [Call -> Said \cup {Free}]
  BY <1>0 DEF QueryInv, QueryTypeOK
<1>1. ASSUME NEW q \in Query, NEW v \in Value, Respond(q, v, r) PROVE Awaited'
  <2>1. /\ say[r] = Free /\ UNCHANGED <<parent, mine, theirs>>
        /\ \A x \in Call : x # r => say'[x] = say[x]
    BY <1>1, <1>t DEF Respond
  <2>2. \A x \in InFlight : x \in InFlight' /\ say'[x] = say[x]
    BY <2>1 DEF InFlight, Free
  <2>3. \A x \in InFlight : say[x].at \in AtWork => HandsOn(x)
    BY <2>2 DEF HandsOn
  <2> QED BY <1>0, <2>1, <2>3, AwaitedCall
<1>2. CASE AckResponse(r)
  <2>1. /\ say[r].at \notin AtWork /\ UNCHANGED <<parent, mine, theirs>>
        /\ \A x \in Call : x # r => say'[x] = say[x]
    BY <1>2, <1>t DEF AckResponse, At, AtWork, ReplyWith
  <2>2. \A x \in InFlight : say[x].at \in AtWork => HandsOn(x)
    BY <2>1 DEF HandsOn, InFlight
  <2> QED BY <1>0, <2>1, <2>2, AwaitedCall
<1>3. CASE FormEnds(r)
  <2>1. /\ r \in InFlight /\ say[r].at = "done" /\ say[r].q \in Query
        /\ UNCHANGED <<parent, mine>>
        /\ \A x \in Call : x # r => say'[x] = say[x]
    BY <1>0, <1>3, <1>t, CallIs DEF FormEnds, CallerGone, Straight, CallsOK
  <2> DEFINE row == [st |-> "resolved", answer |-> say[r].answer]
  <2>2. row.st = "resolved" /\ theirs' = [theirs EXCEPT ![say[r].q] = row]
    BY <1>3 DEF FormEnds
  <2> HIDE DEF row
  <2>3. \A c \in Query : theirs'[c] = theirs[c] \/ theirs'[c].st = "resolved"
    BY <1>0, <2>2 DEF QueryInv, QueryTypeOK
  <2>4. \A x \in InFlight : say[x].at \in AtWork => HandsOn(x)
    BY <2>1 DEF HandsOn, InFlight, AtWork
  <2> QED BY <1>0, <2>1, <2>3, <2>4, AwaitedGoes
<1>4. ASSUME NEW s \in Call, AnswerParent(r, s) PROVE Awaited'
  <2>1. /\ r \in InFlight /\ say[r].at = "children" /\ say[s] = Free /\ r # s
        /\ UNCHANGED <<parent, mine, theirs>>
    BY <1>4 DEF AnswerParent, At, InFlight, Free
  <2> DEFINE asking == [say[r] EXCEPT !.at = "asking"]
  <2>2. asking.at = "asking" /\ asking.q = say[r].q
    BY <1>0, <2>1, CallIs DEF Said
  <2>3. \A x \in Call : x # s => say'[x] = IF x = r THEN asking ELSE say[x]
    <3> DEFINE call == NewCall(Up(r), Aggregate(Up(r)), r, "handler")
    <3>1. say' = [say EXCEPT ![r] = asking, ![s] = call]
      BY <1>4 DEF AnswerParent
    <3> HIDE DEF asking, call
    <3> QED BY <1>t, <2>1, <3>1
  <2> HIDE DEF asking
  <2>4. \A x \in InFlight : say[x].at \in AtWork => HandsOn(x)
    <3>1. \A x \in InFlight : x \in Call /\ x # s
      BY <2>1 DEF InFlight, Free
    <3>2. HandsOn(r)
      BY <2>1, <2>2, <2>3 DEF HandsOn, InFlight, AtWork, Ahead
    <3>3. \A x \in InFlight : x # r => x \in InFlight' /\ say'[x] = say[x]
      BY <2>3, <3>1 DEF InFlight
    <3> QED BY <3>2, <3>3 DEF HandsOn
  <2> QED BY <1>0, <2>1, <2>4, AwaitedCall
<1>5. ASSUME NEW s \in Call, ParentAnswered(r, s) \/ ParentNotAnswered(r, s) PROVE Awaited'
  <2>1. /\ r \in InFlight /\ s \in InFlight /\ say[r].at = "asking" /\ say[s].within = r
        /\ say[s].caller = "handler" /\ UNCHANGED <<parent, mine>>
    BY <1>5 DEF ParentAnswered, ParentNotAnswered, At
  <2>2. /\ say[s].at = "done" /\ r # s /\ say[s].q = Up(r) /\ say[s].q \in Query
        /\ r \in Call /\ s \in Call /\ say[r] \in Said
    <3>1. say[s].at = "done"
      BY <1>0, <1>5, <2>1 DEF ParentAnswered, ParentNotAnswered, NoReply, Straight, CallsOK
    <3>2. say[s].q = Up(r)
      BY <1>0, <2>1, Alone
    <3> QED BY <1>0, <2>1, <3>1, <3>2, CallIs
  <2>3. PICK l \in {"acking", "failing"} :
           /\ say' = [CallerGone(s) EXCEPT ![r].at = l]
           /\ l = "failing" \/ ParentAnswered(r, s)
    BY <1>5 DEF ParentAnswered, ParentNotAnswered
  <2> DEFINE late == [say[r] EXCEPT !.at = l]
  <2>4. late.at = l /\ late.q = say[r].q
    BY <2>2 DEF Said
  <2>5. \A x \in Call : x # s => say'[x] = IF x = r THEN late ELSE say[x]
    <3>1. CallerGone(s) \in [Call -> Said \cup {Free}] /\ CallerGone(s)[r] = say[r]
          /\ \A x \in Call : x # s => CallerGone(s)[x] = say[x]
      BY <1>0, <1>t, <2>1, <2>2, GoneOK DEF CallerGone, QueryInv
    <3> QED BY <2>2, <2>3, <3>1
  <2> HIDE DEF late
  <2>6. \A c \in Query : /\ theirs'[c] = theirs[c] \/ theirs'[c].st = "resolved"
                         /\ ParentAnswered(r, s) /\ c = say[s].q => theirs'[c].st = "resolved"
    <3>1. CASE ParentNotAnswered(r, s) /\ ~ParentAnswered(r, s)
      BY <3>1 DEF ParentNotAnswered
    <3>2. CASE ParentAnswered(r, s)
      <4> DEFINE row == [st |-> "resolved", answer |-> say[s].answer]
      <4>1. row.st = "resolved" /\ theirs' = [theirs EXCEPT ![say[s].q] = row]
        BY <3>2 DEF ParentAnswered
      <4> HIDE DEF row
      <4> QED BY <1>0, <2>2, <4>1 DEF QueryInv, QueryTypeOK
    <3> QED BY <1>5, <3>1, <3>2
  <2>7. HandsOn(r)
    <3>1. CASE l = "failing"
      BY <2>1, <2>2, <2>4, <2>5, <3>1 DEF HandsOn, InFlight, AtWork, Ahead
    <3>2. CASE ParentAnswered(r, s)
      BY <2>2, <2>6, <3>2 DEF HandsOn
    <3> QED BY <2>3, <3>1, <3>2
  <2>8. \A x \in InFlight : say[x].at \in AtWork => HandsOn(x)
    <3>1. \A x \in InFlight : x \notin {r, s} => x \in InFlight' /\ say'[x] = say[x]
      BY <2>5 DEF InFlight
    <3> QED BY <2>2, <2>7, <3>1 DEF HandsOn, AtWork
  <2> QED BY <1>0, <2>1, <2>6, <2>8, AwaitedGoes
<1>6. CASE FormFails(r)
  BY <1>0, <1>6, NoFormFails
<1>7. CASE \/ ReceiveResponse(r) \/ StoreResponse(r) \/ CheckParent(r)
           \/ NotAllAnswered(r) \/ FailChild(r)
  BY <1>0, <1>7, AwaitedHandler
<1> QED BY <1>1, <1>2, <1>3, <1>4, <1>5, <1>6, <1>7 DEF SayStep, NestedStep

LEMMA AwaitedAlways ==
  ASSUME Faults = {}, Tabs = 1
  PROVE  QuerySpec => []Awaited
<1>1. QueryInit => Awaited
  <2>1. QueryInit => \A p \in Query : theirs[p].st = "none"
    BY DEF QueryInit
  <2> QED BY <2>1 DEF Awaited
<1>2. ASSUME StraightInv, StraightInv', Awaited, QueryNext PROVE Awaited'
  <2>1. QueryTypeOK'
    BY <1>2 DEF StraightInv, QueryInv
  <2> QED BY <1>2, <2>1, AwaitedRequests, AwaitedResponses, FaultFreeSteps
<1>3. ASSUME Awaited, UNCHANGED queryVars PROVE Awaited'
  <2>1. UNCHANGED <<parent, mine, theirs, say>> /\ InFlight' = InFlight
        /\ \A p \in Query : Children(p)' = Children(p) /\ (AllAnswered(p)' <=> AllAnswered(p))
    BY <1>3 DEF queryVars, InFlight, Children, AllAnswered
  <2> QED BY <1>3, <2>1 DEF Awaited, Up
<1>4. StraightInv /\ StraightInv' /\ Awaited /\ [QueryNext]_queryVars => Awaited'
  BY <1>2, <1>3
<1> QED BY <1>1, <1>4, StraightAlways, PTL DEF QuerySpec

(* No query is forgotten: once nothing is under way any more, a forwarded query
   waits for a child that is not resolved.  (That child may be one whose answer
   came before the parent was forwarded and which was marked errored for it.) *)
THEOREM NotForgottenHolds ==
  ASSUME Faults = {}, Tabs = 1
  PROVE  QuerySpec => []NotForgotten
<1>1. ASSUME Awaited PROVE NotForgotten
  <2> SUFFICES ASSUME Quiet, NEW p \in Query, theirs[p].st = "forwarded"
               PROVE  \E c \in Children(p) : mine[c].st # "resolved"
    BY DEF NotForgotten
  <2>1. InFlight = {}
    BY DEF Quiet
  <2>2. ~AllAnswered(p)
    BY <1>1, <2>1 DEF Awaited
  <2> QED BY <2>2 DEF AllAnswered
<1> QED BY <1>1, AwaitedAlways, PTL
=============================================================================





