--------------------------- MODULE ConnectionProofs ---------------------------
(***************************************************************************)
(* Theorems about ConnectionNode, for every set of invitations,            *)
(* connections, exchanges and tasks, every limit and every fault.          *)
(***************************************************************************)
EXTENDS ConnectionProperties, TLAPS

(* An idle task is well-typed and handles nothing. *)
LEMMA IdleOK == Idle \in Local /\ Started(Idle)
BY DEF Idle, Local, Started, ConnectionStatus, HandlerStep, ConnectionHandlerStep,
       CredentialHandlerStep

(* Moving a task to well-typed locals keeps all tasks well-typed. *)
LEMMA GotoOK ==
  ASSUME TaskOK, NEW t \in Task, NEW next \in Local, Started(next), Goto(t, next)
  PROVE  TaskOK'
BY DEF TaskOK, Goto, Started

(* A request has no notification to keep; a handler keeps the one it has. *)
LEMMA GotoRequest ==
  ASSUME TaskOK, NEW t \in Task, NEW next \in Local, next.at \in RequestStep,
         Goto(t, next)
  PROVE  TaskOK'
BY GotoOK DEF Started, HandlerStep, ConnectionHandlerStep, CredentialHandlerStep,
              RequestStep

LEMMA GotoConnection ==
  ASSUME TaskOK, NEW t \in Task, NEW next \in Local, Goto(t, next),
         next.at \in ConnectionHandlerStep,
         next.ev \in Event, next.ev.of = "connection"
  PROVE  TaskOK'
BY GotoOK DEF Started

LEMMA GotoCredential ==
  ASSUME TaskOK, NEW t \in Task, NEW next \in Local, Goto(t, next),
         next.at \in CredentialHandlerStep,
         next.ev \in Event, next.ev.of = "credential"
  PROVE  TaskOK'
BY GotoOK DEF Started, ConnectionHandlerStep, CredentialHandlerStep

LEMMA FinishOK ==
  ASSUME TaskOK, NEW t \in Task, Finish(t)
  PROVE  TaskOK'
BY IdleOK, GotoOK DEF Finish

(* A handler that rejects returns an event, and nothing else. *)
LEMMA RejectOK ==
  ASSUME TaskOK, events \subseteq Event, NEW t \in Task,
         task[t].at \in HandlerStep, Reject(t)
  PROVE  TaskOK' /\ events' \subseteq Event
BY FinishOK DEF Reject, TaskOK, Started

(* Types hold initially. *)
LEMMA TypeInit == Init => TypeOK
BY IdleOK
DEF Init, TypeOK, TaskOK, ConnectionStatus, Validity, OobState, Agent, ConnState,
    Exchange, CredState, NoExchange, NoTries

(* Every step of a request that issues or accepts an invitation keeps the types. *)
LEMMA TypeNewConnection ==
  ASSUME TypeOK, NEW t \in Task,
         \/ SubmitNewInvite(t) \/ SubmitFromInvite(t) \/ RequestFails(t)
         \/ NewConnectionStep(t)
  PROVE  TypeOK'
<1>l. TaskOK /\ task[t] \in Local /\ Idle \in Local
  BY IdleOK DEF TypeOK, TaskOK
<1> USE DEF TypeOK, row, invites, cloud
<1>1. CASE SubmitNewInvite(t)
  <2> DEFINE next == [Idle EXCEPT !.at = IF status = "none" THEN "create" ELSE "check",
                                  !.seen = status]
  <2>1. next \in Local
    <3>1. (IF status = "none" THEN "create" ELSE "check") \in RequestStep
      BY DEF RequestStep
    <3>2. status \in ConnectionStatus
      OBVIOUS
    <3> QED BY ZenonT(30), <1>l, <3>1, <3>2 DEF Local
  <2>2. next.at \in RequestStep
    BY DEF Idle, RequestStep
  <2>3. TaskOK'
    BY <1>1, <1>l, <2>1, <2>2, GotoRequest DEF SubmitNewInvite
  <2> QED BY <1>1, <2>3 DEF SubmitNewInvite
<1>2. CASE SubmitFromInvite(t)
  <2>1. PICK i \in Invite, c \in AgentConn :
          /\ oob' = [oob EXCEPT ![i] = "receiver"]
          /\ agent' = [agent EXCEPT ![c] = [st |-> "requested", oob |-> i]]
          /\ Goto(t, [Idle EXCEPT !.at = "insert", !.inv = i, !.conn = c])
    BY <1>2 DEF SubmitFromInvite
  <2> DEFINE next == [Idle EXCEPT !.at = "insert", !.inv = i, !.conn = c]
  <2>2. next \in Local
    BY <1>l DEF Local, RequestStep
  <2>3. next.at \in RequestStep
    BY DEF Idle, RequestStep
  <2>4. TaskOK'
    BY <1>l, <2>1, <2>2, <2>3, GotoRequest
  <2>5. oob' \in [Invite -> OobState] /\ agent' \in [AgentConn -> Agent]
    BY <2>1 DEF OobState, Agent, ConnState
  <2> QED BY <1>2, <2>4, <2>5 DEF SubmitFromInvite
<1>3. CASE RequestFails(t)
  BY <1>3, <1>l, FinishOK DEF RequestFails
<1>4. CASE CheckInvites(t)
  <2> DEFINE next == [task[t] EXCEPT !.at = "create"]
  <2>1. next \in Local /\ next.at \in RequestStep
    BY <1>l DEF Local, RequestStep
  <2>2. TaskOK'
    BY <1>4, <1>l, <2>1, GotoRequest, FinishOK DEF CheckInvites
  <2> QED BY <1>4, <2>2 DEF CheckInvites
<1>5. CASE CreateInvitation(t)
  <2>1. PICK i \in Invite :
          /\ oob' = [oob EXCEPT ![i] = "sender"]
          /\ Goto(t, [task[t] EXCEPT !.inv = i,
                        !.at = IF task[t].seen = "none" THEN "insert" ELSE "reread"])
    BY <1>5 DEF CreateInvitation
  <2> DEFINE next == [task[t] EXCEPT !.inv = i,
                        !.at = IF task[t].seen = "none" THEN "insert" ELSE "reread"]
  <2>2. next \in Local
    BY ZenonT(30), <1>l DEF Local, RequestStep
  <2>3. next.at \in RequestStep
    BY <1>l DEF Local, RequestStep
  <2>4. TaskOK' /\ oob' \in [Invite -> OobState]
    BY <1>l, <2>1, <2>2, <2>3, GotoRequest DEF OobState
  <2> QED BY <1>5, <2>4 DEF CreateInvitation
<1>6. CASE InsertNewConnection(t)
  <2>1. TaskOK' /\ task[t].conn \in AgentConn \cup {NoConn}
    BY <1>6, <1>l, FinishOK DEF InsertNewConnection, Local
  <2> QED BY <1>6, <2>1
          DEF InsertNewConnection, ConnectionStatus, Validity, NoTries
<1>7. CASE RereadInvites(t)
  <2> DEFINE next == [task[t] EXCEPT !.at = "purge", !.known = Present]
  <2>1. next \in Local /\ next.at \in RequestStep
    BY <1>l DEF Local, RequestStep, Present
  <2>2. TaskOK'
    BY <1>7, <1>l, <2>1, GotoRequest DEF RereadInvites
  <2> QED BY <1>7, <2>2 DEF RereadInvites
<1>8. CASE PurgeOob(t)
  <2>1. PICK i \in task[t].known :
          /\ oob' = [oob EXCEPT ![i] = IF @ = "sender" THEN "deleted" ELSE @]
          /\ Goto(t, [task[t] EXCEPT !.known = task[t].known \ {i},
                        !.at = IF task[t].known \ {i} = {} THEN "expire" ELSE "purge"])
    BY <1>8 DEF PurgeOob
  <2> DEFINE next == [task[t] EXCEPT !.known = task[t].known \ {i},
                        !.at = IF task[t].known \ {i} = {} THEN "expire" ELSE "purge"]
  <2>2. next \in Local
    BY <1>l DEF Local, RequestStep
  <2>3. next.at \in RequestStep
    BY <1>l DEF Local, RequestStep
  <2>4. TaskOK' /\ oob' \in [Invite -> OobState]
    BY <1>l, <2>1, <2>2, <2>3, GotoRequest DEF OobState
  <2> QED BY <1>8, <2>4 DEF PurgeOob
<1>9. CASE BeginReissue(t)
  <2> DEFINE next == [task[t] EXCEPT !.at = "commit", !.known = Present]
  <2>1. next \in Local /\ next.at \in RequestStep
    BY <1>l DEF Local, RequestStep, Present
  <2>2. TaskOK'
    BY <1>9, <1>l, <2>1, GotoRequest DEF BeginReissue
  <2> QED BY <1>9, <2>2 DEF BeginReissue
<1>10. CASE CommitReissue(t)
  <2>1. TaskOK'
    BY <1>10, <1>l, FinishOK DEF CommitReissue
  <2>2. lapsed' \in [Invite -> BOOLEAN] /\ validity' \in [Invite -> Validity]
    BY <1>10 DEF CommitReissue, Validity
  <2> QED BY <1>10, <2>1, <2>2
          DEF CommitReissue, ConnectionStatus, Validity, NoTries
<1> QED
  BY <1>1, <1>2, <1>3, <1>4, <1>5, <1>6, <1>7, <1>8, <1>9, <1>10 DEF NewConnectionStep

(* Every step of a connection handler or of a disconnect request keeps the types. *)
LEMMA TypeConnection ==
  ASSUME TypeOK, NEW t \in Task,
         \/ \E e \in events : ConnectionStateChanged(t, e) \/ ConnectionDidRotated(t, e)
         \/ DisconnectConnection(t)
         \/ ConnectionStep(t)
  PROVE  TypeOK'
<1>l. TaskOK /\ task[t] \in Local /\ Idle \in Local
  BY IdleOK DEF TypeOK, TaskOK
<1>u. UseInvites => validity' \in [Invite -> Validity]
  BY DEF TypeOK, UseInvites, Validity
<1> USE DEF TypeOK, row, invites, cloud
<1>1. ASSUME NEW e \in events, ConnectionStateChanged(t, e) PROVE TypeOK'
  <2> DEFINE next == [Idle EXCEPT !.at = "connection", !.ev = e, !.seen = status]
  <2>1. next \in Local
    <3>1. status \in ConnectionStatus /\ e \in Event \cup {NoEvent}
      OBVIOUS
    <3> QED BY <1>l, <3>1 DEF Local, HandlerStep, ConnectionHandlerStep
  <2>2. next.at = "connection" /\ next.ev = e
    BY DEF Idle
  <2>3. next.at \in ConnectionHandlerStep /\ next.ev \in Event
    BY <2>2 DEF ConnectionHandlerStep
  <2>4. next.ev.of = "connection"
    BY <1>1, <2>2 DEF ConnectionStateChanged
  <2>5. TaskOK'
    BY <1>1, <1>l, <2>1, <2>3, <2>4, GotoConnection DEF ConnectionStateChanged, TaskOK, Started
  <2> QED BY <1>1, <2>5 DEF ConnectionStateChanged
<1>2. ASSUME NEW e \in events, ConnectionDidRotated(t, e) PROVE TypeOK'
  BY <1>2 DEF ConnectionDidRotated, ConnectionStatus, TaskOK, Started
<1>3. CASE UpdateConnection(t)
  <2>1. TaskOK'
    BY <1>3, <1>l, FinishOK DEF UpdateConnection
  <2>2. task[t].ev \in Event /\ task[t].ev.of = "connection"
    BY <1>3, <1>l DEF UpdateConnection, At, TaskOK, Started, HandlerStep,
                      ConnectionHandlerStep
  <2>3. task[t].ev.id \in AgentConn
    BY <2>2 DEF Event
  <2> QED BY <1>3, <1>u, <2>1, <2>3 DEF UpdateConnection, UpdateStatus, ConnectionStatus
<1>4. CASE MissConnection(t)
  <2> DEFINE next == [task[t] EXCEPT !.at = "mark_used"]
  <2>1. next \in Local /\ next.at \in ConnectionHandlerStep
    BY <1>l DEF Local, HandlerStep, ConnectionHandlerStep
  <2>2. next.ev \in Event /\ next.ev.of = "connection"
    BY <1>4, <1>l DEF MissConnection, At, TaskOK, Started, HandlerStep,
                      ConnectionHandlerStep, Local
  <2>3. TaskOK'
    BY <1>4, <1>l, <2>1, <2>2, GotoConnection DEF MissConnection
  <2> QED BY <1>4, <2>3 DEF MissConnection
<1>5. CASE MarkUsed(t)
  BY <1>5, <1>l, <1>u, FinishOK DEF MarkUsed
<1>6. CASE DisconnectConnection(t)
  <2> DEFINE next == [Idle EXCEPT !.at = "close", !.conn = agentId]
  <2>1. next \in Local
    BY <1>l DEF Local, RequestStep
  <2>2. next.at \in RequestStep
    BY DEF Idle, RequestStep
  <2>3. TaskOK'
    BY <1>6, <1>l, <2>1, <2>2, GotoRequest DEF DisconnectConnection
  <2> QED BY <1>6, <2>3 DEF DisconnectConnection
<1>7. CASE CloseConnection(t)
  <2> DEFINE next == [task[t] EXCEPT !.at = "mark"]
  <2>1. next \in Local /\ next.at \in RequestStep
    BY <1>l DEF Local, RequestStep
  <2>2. TaskOK'
    BY <1>7, <1>l, <2>1, GotoRequest, FinishOK DEF CloseConnection
  <2>3. agent' \in [AgentConn -> Agent]
    BY <1>7 DEF CloseConnection, Agent, ConnState
  <2> QED BY <1>7, <2>2, <2>3 DEF CloseConnection
<1>8. CASE MarkDisconnected(t)
  BY <1>8, <1>l, FinishOK DEF MarkDisconnected, ConnectionStatus
<1> QED
  BY <1>1, <1>2, <1>3, <1>4, <1>5, <1>6, <1>7, <1>8 DEF ConnectionStep

(* What a credential handler's guard tells about its locals. *)
LEMMA CredentialTask ==
  ASSUME TypeOK, NEW t \in Task, task[t].at \in CredentialHandlerStep
  PROVE  /\ task[t] \in Local /\ task[t].ev \in Event
         /\ task[t].ev.of = "credential" /\ task[t].ev.id \in Cred
         /\ ExchangeOf(t) \in Exchange
<1>1. task[t] \in Local /\ Started(task[t])
  BY DEF TypeOK, TaskOK
<1>2. task[t].ev \in Event /\ task[t].ev.of = "credential"
  BY <1>1 DEF Started, HandlerStep, ConnectionHandlerStep, CredentialHandlerStep
<1>3. task[t].ev.id \in Cred
  BY <1>2 DEF Event
<1> QED BY <1>1, <1>2, <1>3 DEF ExchangeOf, TypeOK

(* A credential handler that goes on keeps its notification. *)
LEMMA CredentialGoes ==
  ASSUME TypeOK, NEW t \in Task, task[t].at \in CredentialHandlerStep,
         NEW next \in Local, next.at \in CredentialHandlerStep,
         next.ev = task[t].ev, Goto(t, next)
  PROVE  TaskOK'
BY CredentialTask, GotoCredential DEF TypeOK

(* Every step of a credential handler keeps the types. *)
LEMMA TypeCredentialStep ==
  ASSUME TypeOK, NEW t \in Task, CredentialStep(t)
  PROVE  TypeOK'
<1>n. PinTries \in Int /\ PinLimit \in Int
  BY LimitsAreNat
<1>l. TaskOK /\ task[t] \in Local
  BY DEF TypeOK, TaskOK
<1> USE DEF row, invites, cloud
<1>1. CASE IncrementAttempts(t)
  <2> DEFINE next == [task[t] EXCEPT !.cnt = PinTries - attempts',
                         !.at = IF attempts' >= PinLimit THEN "lock" ELSE "compare"]
  <2>1. attempts' \in Nat
    BY <1>1 DEF IncrementAttempts, TypeOK
  <2>2. (IF attempts' >= PinLimit THEN "lock" ELSE "compare") \in CredentialHandlerStep
    BY DEF CredentialHandlerStep
  <2>3. PinTries - attempts' \in Int
    BY <1>n, <2>1
  <2>4. next \in Local /\ next.at \in CredentialHandlerStep /\ next.ev = task[t].ev
    BY <1>l, <2>2, <2>3 DEF Local, HandlerStep
  <2>5. TaskOK'
    BY <1>1, <2>4, CredentialGoes DEF IncrementAttempts, At, CredentialHandlerStep
  <2> QED BY <1>1, <2>1, <2>5 DEF IncrementAttempts, TypeOK
<1>2. CASE LockInvites(t)
  <2> DEFINE next == [task[t] EXCEPT !.at = "reset"]
  <2>1. next \in Local /\ next.at \in CredentialHandlerStep /\ next.ev = task[t].ev
    BY <1>l DEF Local, HandlerStep, CredentialHandlerStep
  <2>2. TaskOK'
    BY <1>2, <2>1, CredentialGoes DEF LockInvites, At, CredentialHandlerStep
  <2> QED BY <1>2, <2>2 DEF LockInvites, TypeOK, Validity
<1>3. CASE ResetAttempts(t)
  <2> DEFINE next == [task[t] EXCEPT !.at = "report"]
  <2>1. next \in Local /\ next.at \in CredentialHandlerStep /\ next.ev = task[t].ev
    BY <1>l DEF Local, HandlerStep, CredentialHandlerStep
  <2>2. TaskOK'
    BY <1>3, <2>1, CredentialGoes DEF ResetAttempts, At, CredentialHandlerStep
  <2> QED BY <1>3, <2>2 DEF ResetAttempts, TypeOK
<1>4. CASE ComparePin(t)
  <2> DEFINE used == InviteWith("used")
             late == {i \in used : lapsed[i]}
             right == ExchangeOf(t).pin \in used \ late
             count == IF used = {} THEN 0 ELSE task[t].cnt
             step == IF late = {} THEN "answer" ELSE "expire_pins"
             next == [task[t] EXCEPT !.known = late, !.good = right,
                                     !.cnt = count, !.at = step]
  <2>1. late \subseteq Invite /\ right \in BOOLEAN
    BY DEF InviteWith
  <2>2. count \in Int /\ step \in CredentialHandlerStep
    BY <1>l DEF Local, CredentialHandlerStep
  <2>3. next \in Local /\ next.at \in CredentialHandlerStep /\ next.ev = task[t].ev
    <3> HIDE DEF late, right, count, step
    <3> QED BY <1>l, <2>1, <2>2 DEF Local, HandlerStep
  <2>4. Goto(t, next)
    BY <1>4 DEF ComparePin
  <2>5. TaskOK'
    BY <1>4, <2>3, <2>4, CredentialGoes DEF ComparePin, At, CredentialHandlerStep
  <2>6. checked' \in [Invite -> Nat]
    BY <1>4 DEF ComparePin, TypeOK
  <2> QED BY <1>4, <2>5, <2>6 DEF ComparePin, TypeOK
<1>5. CASE ExpirePins(t)
  <2> DEFINE next == [task[t] EXCEPT !.at = "answer", !.known = {}]
  <2>1. next \in Local /\ next.at \in CredentialHandlerStep /\ next.ev = task[t].ev
    BY <1>l DEF Local, HandlerStep, CredentialHandlerStep
  <2>2. TaskOK'
    BY <1>5, <2>1, CredentialGoes DEF ExpirePins, At, CredentialHandlerStep
  <2> QED BY <1>5, <2>2 DEF ExpirePins, TypeOK, Validity
<1>6. CASE AcceptProposal(t)
  <2>1. task[t].at \in CredentialHandlerStep
    BY <1>6 DEF AcceptProposal, At, CredentialHandlerStep
  <2>2. TaskOK' /\ events' \subseteq Event
    BY <1>6, <1>l, <2>1, FinishOK, RejectOK DEF AcceptProposal, TypeOK, HandlerStep
  <2>3. cred' \in [Cred -> Exchange]
    BY <1>6, <2>1, CredentialTask DEF AcceptProposal, TypeOK, Exchange, CredState
  <2> QED BY <1>6, <2>2, <2>3 DEF AcceptProposal, TypeOK
<1>7. CASE SendProblemReport(t)
  <2>1. task[t].at \in CredentialHandlerStep /\ task[t].cnt \in Int
    BY <1>7, <1>l DEF SendProblemReport, At, CredentialHandlerStep, Local
  <2>2. ExchangeOf(t) \in Exchange /\ task[t].ev.id \in Cred
    BY <2>1, CredentialTask
  <2>3. PICK st \in {"abandoned", ExchangeOf(t).st} :
         cred' = [cred EXCEPT ![task[t].ev.id].report = task[t].cnt,
                              ![task[t].ev.id].st = IF @ = "proposal-received" THEN st ELSE @]
    BY <1>7 DEF SendProblemReport
  <2>4. st \in CredState
    BY <2>2 DEF Exchange, CredState
  <2>5. cred' \in [Cred -> Exchange]
    BY ZenonT(30), <2>1, <2>2, <2>3, <2>4 DEF TypeOK, Exchange
  <2>6. TaskOK'
    BY <1>7, <1>l, FinishOK DEF SendProblemReport
  <2> QED BY <1>7, <2>5, <2>6 DEF SendProblemReport, TypeOK
<1>8. CASE WriteDone(t)
  <2>1. task[t].seen \in ConnectionStatus
    BY <1>l DEF Local
  <2> QED BY <1>8, <1>l, <2>1, FinishOK DEF WriteDone, TypeOK
<1> QED
  BY <1>1, <1>2, <1>3, <1>4, <1>5, <1>6, <1>7, <1>8 DEF CredentialStep

(* A status handleDone moves to is a status. *)
LEMMA AfterDoneOK ==
  ASSUME NEW current \in ConnectionStatus, NEW role
  PROVE  AfterDone(current, role) \in ConnectionStatus
BY DEF AfterDone, ConnectionStatus

(* Delivering a notification to a credential handler keeps the types. *)
LEMMA TypeCredentialEvents ==
  ASSUME TypeOK, NEW t \in Task, NEW e \in events,
         \/ ProposalReceived(t, e) \/ ForwardExchange(t, e)
         \/ ExchangeDone(t, e) \/ ProblemReported(t, e)
  PROVE  TypeOK'
<1>l. TaskOK /\ Idle \in Local /\ e \in Event
  BY IdleOK DEF TypeOK
<1>k. e.of = "credential" /\ e.id \in Cred /\ cred[e.id] \in Exchange
  BY <1>l DEF ProposalReceived, ForwardExchange, ExchangeDone, ProblemReported, Event,
              TypeOK
<1>c. UNCHANGED task => TaskOK'
  BY <1>l DEF TaskOK, Started
<1> USE DEF row, invites, cloud
<1>1. CASE ProposalReceived(t, e)
  <2> DEFINE next == [Idle EXCEPT !.at = "count", !.ev = e]
  <2>1. next \in Local
    BY <1>l DEF Local, HandlerStep, CredentialHandlerStep
  <2>2. next.at \in CredentialHandlerStep /\ next.ev = e
    BY DEF Idle, CredentialHandlerStep
  <2>3. TaskOK'
    BY <1>1, <1>l, <1>k, <1>c, <2>1, <2>2, GotoCredential DEF ProposalReceived
  <2> QED BY <1>1, <2>3 DEF ProposalReceived, TypeOK
<1>2. CASE ForwardExchange(t, e)
  <2>1. e.st \in DOMAIN Onward => Onward[e.st] \in CredState
    BY DEF Onward, CredState
  <2>2. cred' \in [Cred -> Exchange]
    BY <1>2, <1>k, <2>1 DEF ForwardExchange, TypeOK, Exchange
  <2>3. events' \subseteq Event
    BY <1>2, <1>k DEF ForwardExchange, TypeOK, CredentialEvent, Event, CredState
  <2> QED BY <1>2, <1>c, <2>2, <2>3 DEF ForwardExchange, TypeOK
<1>3. CASE ExchangeDone(t, e)
  <2> DEFINE after == AfterDone(status, cred[e.id].role)
             next == [Idle EXCEPT !.at = "done", !.ev = e, !.seen = after]
  <2>1. after \in ConnectionStatus
    BY AfterDoneOK DEF TypeOK
  <2>2. next \in Local /\ next.at \in CredentialHandlerStep /\ next.ev = e
    <3> HIDE DEF after
    <3>1. next \in Local
      BY <1>l, <2>1 DEF Local, HandlerStep, CredentialHandlerStep
    <3>2. next.at \in CredentialHandlerStep /\ next.ev = e
      BY DEF Idle, CredentialHandlerStep
    <3> QED BY <3>1, <3>2
  <2>3. Goto(t, next) \/ UNCHANGED task
    BY <1>3 DEF ExchangeDone
  <2>4. TaskOK'
    BY <1>l, <1>k, <1>c, <2>2, <2>3, GotoCredential
  <2> QED BY <1>3, <2>4 DEF ExchangeDone, TypeOK
<1>4. CASE ProblemReported(t, e)
  <2>1. tries' \in Int
    BY <1>4, <1>k DEF ProblemReported, TypeOK, Exchange
  <2> QED BY <1>4, <1>c, <2>1 DEF ProblemReported, TypeOK
<1> QED BY <1>1, <1>2, <1>3, <1>4

(* So does everything the cloudagent and the peer do, and the page of our PIN. *)
LEMMA TypeCloud ==
  ASSUME TypeOK,
         \/ PeerAct \/ AgentStep \/ (\E i \in Invite : InviteLapses(i))
         \/ \E k \in Cred : SubmitPinCode(k)
  PROVE  TypeOK'
<1>c. UNCHANGED task => TaskOK'
  BY DEF TypeOK, TaskOK, Started
<1>r. Reports \subseteq Int
  BY LimitsAreNat
<1>x. NoExchange \in Exchange
  BY DEF NoExchange, Exchange, CredState, NoTries
<1> USE DEF row, invites, cloud
<1>1. ASSUME NEW i \in Invite, NEW c \in AgentConn, PeerAccepts(i, c) PROVE TypeOK'
  BY <1>1, <1>c DEF PeerAccepts, TypeOK, Agent, ConnState
<1>2. ASSUME NEW c \in AgentConn, PeerHangsUp(c) PROVE TypeOK'
  BY <1>2, <1>c DEF PeerHangsUp, TypeOK, Agent, ConnState, RotationEvent, Event
<1>3. ASSUME NEW k \in Cred, NEW c \in AgentConn, NEW pin \in Invite \cup {NoInvite},
             NEW agrees \in BOOLEAN, PeerProposes(k, c, pin, agrees)
      PROVE  TypeOK'
  <2>1. cred' \in [Cred -> Exchange]
    <3> DEFINE new == [NoExchange EXCEPT !.role = "issuer", !.st = "proposal-received",
                                         !.conn = c, !.pin = pin, !.agrees = agrees]
    <3>1. new \in Exchange
      BY <1>x DEF Exchange, CredState
    <3>2. cred' = [cred EXCEPT ![k] = new]
      BY <1>3 DEF PeerProposes
    <3> QED BY <3>1, <3>2 DEF TypeOK
  <2>2. events' \subseteq Event
    BY <1>3 DEF PeerProposes, TypeOK, CredentialEvent, Event, CredState
  <2> QED BY <1>3, <1>c, <2>1, <2>2 DEF PeerProposes, TypeOK
<1>4. ASSUME NEW k \in Cred, NEW r \in Reports, PeerReports(k, r) PROVE TypeOK'
  <2>1. r \in Int /\ "abandoned" \in CredState /\ cred[k] \in Exchange
    BY <1>r DEF CredState, TypeOK
  <2>2. events' \subseteq Event
    BY <1>4 DEF PeerReports, TypeOK, CredentialEvent, Event, CredState
  <2>3. cred' \in [Cred -> Exchange]
    <3> DEFINE new == [cred[k] EXCEPT !.st = "abandoned", !.report = r]
    <3>1. new \in Exchange
      BY <2>1 DEF Exchange
    <3>2. cred' = [cred EXCEPT ![k] = new]
      BY <1>4 DEF PeerReports, TypeOK, Exchange
    <3> QED BY <3>1, <3>2 DEF TypeOK
  <2> QED BY <1>4, <1>c, <2>2, <2>3 DEF PeerReports, TypeOK
<1>5. ASSUME NEW c \in AgentConn, NEW st \in {"completed", "abandoned"},
             AgentSettles(c, st)
      PROVE  TypeOK'
  BY <1>5, <1>c DEF AgentSettles, TypeOK, Agent, ConnState, ConnectionEvent, Event
<1>6. ASSUME NEW k \in Cred, PeerAdvances(k) PROVE TypeOK'
  <2>1. PeerStep[cred[k].st] \in CredState
    BY <1>6 DEF PeerAdvances, PeerStep, CredState
  <2>2. cred' \in [Cred -> Exchange]
    BY <1>6, <2>1 DEF PeerAdvances, TypeOK, Exchange
  <2>3. events' \subseteq Event
    BY <1>6, <2>1 DEF PeerAdvances, TypeOK, CredentialEvent, Event
  <2> QED BY <1>6, <1>c, <2>2, <2>3 DEF PeerAdvances, TypeOK
<1>7. ASSUME NEW i \in Invite, InviteLapses(i) PROVE TypeOK'
  BY <1>7, <1>c DEF InviteLapses, TypeOK
<1>8. ASSUME NEW k \in Cred, SubmitPinCode(k) PROVE TypeOK'
  <2>1. cred' \in [Cred -> Exchange]
    <3> DEFINE new == [NoExchange EXCEPT !.role = "holder", !.st = "proposal-sent",
                                         !.conn = agentId]
    <3>1. new \in Exchange
      <4>1. agentId \in AgentConn \cup {NoConn}
        BY DEF TypeOK
      <4> QED BY <1>x, <4>1 DEF Exchange, CredState
    <3>2. cred' = [cred EXCEPT ![k] = new]
      BY <1>8 DEF SubmitPinCode
    <3> QED BY <3>1, <3>2 DEF TypeOK
  <2> QED BY <1>8, <1>c, <2>1 DEF SubmitPinCode, TypeOK
<1> QED
  BY <1>1, <1>2, <1>3, <1>4, <1>5, <1>6, <1>7, <1>8 DEF PeerAct, AgentStep

(* What a fresh socket replays are notifications. *)
LEMMA SnapshotOK == TypeOK => Snapshot \subseteq Event
BY DEF TypeOK, Snapshot, ConnectionEvent, CredentialEvent, Event, Exchange

(* Failures, a lost socket and a restart keep the types. *)
LEMMA TypeMishap == TypeOK /\ Mishap => TypeOK'
<1> SUFFICES ASSUME TypeOK, Mishap PROVE TypeOK'
  OBVIOUS
<1>l. TaskOK
  BY DEF TypeOK
<1>c. UNCHANGED task => TaskOK'
  BY <1>l DEF TaskOK, Started
<1>1. ASSUME NEW t \in Task, HandlerFails(t) PROVE TypeOK'
  <2>1. TaskOK' /\ events' \subseteq Event
    BY <1>1, <1>l, RejectOK DEF HandlerFails, TypeOK
  <2> QED BY <1>1, <2>1 DEF HandlerFails, TypeOK, row, invites, cloud
<1>2. CASE SocketReconnects
  <2>1. events' \subseteq Event
    BY <1>2, SnapshotOK DEF SocketReconnects, TypeOK
  <2> QED BY <1>2, <1>c, <2>1 DEF SocketReconnects, TypeOK, row, invites, cloud
<1>3. CASE Restart
  <2>1. TaskOK'
    BY <1>3, IdleOK DEF Restart, TaskOK
  <2>2. events' \subseteq Event
    BY <1>3, SnapshotOK DEF Restart
  <2> QED BY <1>3, <2>1, <2>2 DEF Restart, TypeOK, row, invites, cloud
<1> QED
  BY <1>1, <1>2, <1>3, TypeNewConnection, TypeCloud DEF Mishap

(* Every step of the node and of its surroundings keeps the types. *)
LEMMA TypeNext == TypeOK /\ [Next]_vars => TypeOK'
<1> SUFFICES ASSUME TypeOK, [Next]_vars PROVE TypeOK'
  OBVIOUS
<1>1. CASE UserStep
  BY <1>1, TypeNewConnection, TypeConnection, TypeCloud DEF UserStep
<1>2. CASE PeerAct \/ AgentStep
  BY <1>2, TypeCloud
<1>3. CASE Mishap
  BY <1>3, TypeMishap
<1>4. ASSUME NEW t \in Task, Handle(t) PROVE TypeOK'
  BY <1>4, TypeConnection, TypeCredentialEvents DEF Handle
<1>5. ASSUME NEW t \in Task, NodeStep(t) PROVE TypeOK'
  BY <1>5, TypeNewConnection, TypeConnection, TypeCredentialStep DEF NodeStep
<1>6. CASE UNCHANGED vars
  BY <1>6 DEF vars, row, invites, cloud, TypeOK, TaskOK, Started
<1> QED BY <1>1, <1>2, <1>3, <1>4, <1>5, <1>6 DEF Next

(* Every variable has its type at all times; in particular a handler in flight
   always has the notification that a retry would need. *)
THEOREM TypeCorrect == Spec => []TypeOK
BY TypeInit, TypeNext, PTL DEF Spec
=============================================================================
