--------------------------- MODULE ConditionalProofs ---------------------------
(***************************************************************************)
(* What holds under conditions, which each theorem names.  While requests  *)
(* and handlers run one at a time, that is with one slot: how a status     *)
(* moves, that the evidence for a verified row is of its present           *)
(* connection, that one invitation is open at most, and that both sides'   *)
(* exchanges end in a mutual verification.  With one invitation and no     *)
(* lost socket, whatever overlaps: that the guesses stay in their budget.  *)
(***************************************************************************)
EXTENDS EvidenceProofs, FiniteSetTheorems

\* Requests and handlers run one at a time.
OneSlot == \A s, t \in Task : s = t

\* Where a request goes by what allowNewInvitation read.
Reissuing == {"check", "create", "reread", "purge", "expire", "commit"}

\* What was read is still so, and an update conditional on it matches.
Current(x) ==
    /\ x.at \in Reissuing => x.seen = status /\ status # "verified_both"
    /\ x.at = "connection" => x.seen = status /\ ~Ignored(x.ev.st, status)
    /\ x.at # "mark_used"
    /\ x.at = "done" => /\ x.seen = AfterDone(status, cred[x.ev.id].role)
                        /\ x.seen # status /\ OnRow(x.ev.id)

(* Why CurrentEvidence is inductive with one slot: a handler that is about to
   write what it computed from the row finds the row as it was. *)
CurrentInv == CurrentEvidence /\ \A t \in Task : Current(task[t])

-----------------------------------------------------------------------------
\* What no step takes away from an exchange, its connection included.
KeptOver(k) == Kept(k) /\ (cred[k].role # "none" => cred'[k].conn = cred[k].conn)

\* One exchange changes its state and what it reports, and stays done once done.
Moves(k) ==
    /\ \A j \in Cred : j # k => cred'[j] = cred[j]
    /\ \E st \in CredState, r \in Int :
         /\ cred'[k] = [cred[k] EXCEPT !.st = st, !.report = r]
         /\ cred[k].st = "done" => st = "done"

LEMMA MovesKeeps ==
  ASSUME TypeOK, NEW k \in Cred, Moves(k)
  PROVE  \A j \in Cred : KeptOver(j)
<1>1. PICK st \in CredState, r \in Int :
        /\ cred'[k] = [cred[k] EXCEPT !.st = st, !.report = r]
        /\ cred[k].st = "done" => st = "done"
  BY DEF Moves
<1>2. cred[k] \in Exchange
  BY DEF TypeOK
<1>3. /\ cred'[k].role = cred[k].role /\ cred'[k].pin = cred[k].pin
      /\ cred'[k].agrees = cred[k].agrees /\ cred'[k].conn = cred[k].conn
      /\ cred'[k].st = st
  BY <1>1, <1>2 DEF Exchange
<1>4. \A j \in Cred : j # k => cred'[j] = cred[j]
  BY DEF Moves
<1> QED BY <1>1, <1>3, <1>4 DEF KeptOver, Kept

LEMMA BeginsKeeps ==
  ASSUME TypeOK, NEW k \in Cred, NEW new, cred[k].role = "none", cred' = [cred EXCEPT ![k] = new]
  PROVE  \A j \in Cred : KeptOver(j)
<1>1. \A j \in Cred : j # k => cred'[j] = cred[j]
  BY DEF TypeOK
<1> QED BY <1>1 DEF KeptOver, Kept

LEMMA SameKeeps ==
  ASSUME cred' = cred
  PROVE  \A j \in Cred : KeptOver(j)
BY DEF KeptOver, Kept

(* The steps that move an exchange. *)
LEMMA NodeMoves ==
  ASSUME TypeOK, NEW t \in Task, AcceptProposal(t) \/ SendProblemReport(t)
  PROVE  \/ cred' = cred
         \/ /\ Moves(task[t].ev.id)
            /\ cred'[task[t].ev.id].st = "done" => cred[task[t].ev.id].st = "done"
<1> DEFINE k == task[t].ev.id
<1>1. k \in Cred /\ cred[k] \in Exchange /\ task[t].cnt \in Int
  <2>1. task[t].at \in CredentialHandlerStep /\ task[t] \in Local
    BY DEF AcceptProposal, SendProblemReport, At, CredentialHandlerStep, TypeOK, TaskOK
  <2>2. k \in Cred
    BY <2>1, CredentialTask
  <2> QED BY <2>1, <2>2 DEF TypeOK, Local
<1> HIDE DEF k
<1>2. CASE AcceptProposal(t) /\ ExchangeOf(t).st = "proposal-received"
  <2>1. cred' = [cred EXCEPT ![k].st = "offer-sent"] /\ cred[k].st = "proposal-received"
    BY <1>2 DEF AcceptProposal, ExchangeOf, k
  <2>2. cred'[k] = [cred[k] EXCEPT !.st = "offer-sent", !.report = cred[k].report]
    BY <1>1, <2>1 DEF TypeOK, Exchange
  <2>3. /\ \A j \in Cred : j # k => cred'[j] = cred[j]
        /\ cred[k].report \in Int /\ "offer-sent" \in CredState
        /\ cred'[k].st = "offer-sent"
    BY <1>1, <2>1 DEF TypeOK, Exchange, CredState
  <2> QED BY <2>1, <2>2, <2>3 DEF Moves, k
<1>3. CASE AcceptProposal(t) /\ ExchangeOf(t).st # "proposal-received"
  BY <1>3 DEF AcceptProposal
<1>4. CASE SendProblemReport(t)
  <2>1. PICK s \in {"abandoned", cred[k].st} :
          cred' = [cred EXCEPT ![k].report = task[t].cnt,
                               ![k].st = IF @ = "proposal-received" THEN s ELSE @]
    BY <1>4 DEF SendProblemReport, ExchangeOf, k
  <2> DEFINE st == IF cred[k].st = "proposal-received" THEN s ELSE cred[k].st
  <2>2. /\ cred'[k] = [cred[k] EXCEPT !.st = st, !.report = task[t].cnt]
        /\ \A j \in Cred : j # k => cred'[j] = cred[j]
    BY <1>1, <2>1 DEF TypeOK, Exchange
  <2>3. st \in CredState /\ (cred[k].st = "done" <=> st = "done") /\ cred'[k].st = st
    BY <1>1, <2>2 DEF Exchange, CredState
  <2> HIDE DEF st
  <2> QED BY <1>1, <2>2, <2>3 DEF Moves, k
<1> QED BY <1>2, <1>3, <1>4

LEMMA ForwardMoves ==
  ASSUME TypeOK, NEW t \in Task, NEW e \in events, ForwardExchange(t, e)
  PROVE  \/ cred' = cred /\ events' = events \ {e}
         \/ /\ Moves(e.id) /\ cred[e.id].st = e.st
            /\ e.st \in {"offer-received", "request-received", "credential-received"}
            /\ events' = (events \ {e}) \cup
                 (IF cred'[e.id].st = "done" THEN {CredentialEvent(e.id, "done")} ELSE {})
<1>1. e.id \in Cred /\ cred[e.id] \in Exchange
  BY DEF ForwardExchange, TypeOK, Event
<1>2. CASE ~(cred' = cred /\ events' = events \ {e})
  <2> DEFINE s == Onward[e.st]
  <2>1. /\ cred[e.id].st = e.st /\ cred' = [cred EXCEPT ![e.id].st = s]
        /\ e.st \in {"offer-received", "request-received", "credential-received"}
        /\ events' = (events \ {e}) \cup
             (IF s = "done" THEN {CredentialEvent(e.id, "done")} ELSE {})
    BY <1>2 DEF ForwardExchange, Onward
  <2>2. s \in CredState
    BY <2>1 DEF Onward, CredState
  <2> HIDE DEF s
  <2>3. /\ cred'[e.id] = [cred[e.id] EXCEPT !.st = s, !.report = cred[e.id].report]
        /\ cred'[e.id].st = s
        /\ \A j \in Cred : j # e.id => cred'[j] = cred[j]
    BY <1>1, <2>1 DEF TypeOK, Exchange
  <2>4. cred[e.id].report \in Int
    BY <1>1 DEF Exchange
  <2> QED BY <2>1, <2>2, <2>3, <2>4 DEF Moves
<1> QED BY <1>2

LEMMA PeerMoves ==
  ASSUME TypeOK, NEW k \in Cred, PeerAdvances(k) \/ \E r \in Reports : PeerReports(k, r)
  PROVE  /\ Moves(k)
         /\ cred[k].st \in {"offer-sent", "credential-issued", "proposal-sent", "request-sent"}
         /\ cred'[k].st # "done" \/ CredentialEvent(k, "done") \in events'
<1>1. cred[k] \in Exchange
  BY DEF TypeOK
<1>2. CASE PeerAdvances(k)
  <2> DEFINE s == PeerStep[cred[k].st]
  <2>1. /\ cred[k].st \in {"offer-sent", "credential-issued", "proposal-sent", "request-sent"}
        /\ cred' = [cred EXCEPT ![k].st = s]
        /\ events' = events \cup {CredentialEvent(k, s)}
    BY <1>2 DEF PeerAdvances, PeerStep
  <2>2. s \in CredState
    BY <2>1 DEF PeerStep, CredState
  <2> HIDE DEF s
  <2>3. /\ cred'[k] = [cred[k] EXCEPT !.st = s, !.report = cred[k].report]
        /\ cred'[k].st = s
        /\ \A j \in Cred : j # k => cred'[j] = cred[j]
    BY <1>1, <2>1 DEF TypeOK, Exchange
  <2>4. cred[k].report \in Int
    BY <1>1 DEF Exchange
  <2> QED BY <2>1, <2>2, <2>3, <2>4 DEF Moves
<1>3. ASSUME NEW r \in Reports, PeerReports(k, r)
      PROVE  /\ Moves(k) /\ cred[k].st = "proposal-sent" /\ cred'[k].st # "done"
  <2>1. /\ cred' = [cred EXCEPT ![k].st = "abandoned", ![k].report = r]
        /\ cred[k].st = "proposal-sent" /\ r \in Int
    BY <1>3, LimitsAreNat DEF PeerReports
  <2>2. /\ cred'[k] = [cred[k] EXCEPT !.st = "abandoned", !.report = r]
        /\ cred'[k].st = "abandoned"
        /\ \A j \in Cred : j # k => cred'[j] = cred[j]
    BY <1>1, <2>1 DEF TypeOK, Exchange
  <2>3. "abandoned" \in CredState
    BY DEF CredState
  <2> QED BY <2>1, <2>2, <2>3 DEF Moves
<1> QED BY <1>2, <1>3

(* No step takes away an invitation, or what an exchange was begun with. *)
LEMMA NothingTaken ==
  ASSUME TypeOK, [Next]_vars
  PROVE  Present \subseteq Present' /\ \A k \in Cred : KeptOver(k)
<1>p. UNCHANGED validity => Present \subseteq Present'
  BY DEF Present
<1> USE DEF row, invites, cloud
<1>1. CASE UserStep
  <2>1. ASSUME NEW k \in Cred, SubmitPinCode(k) PROVE \A j \in Cred : KeptOver(j)
    BY <2>1, BeginsKeeps DEF SubmitPinCode
  <2>2. ASSUME NEW t \in Task,
               SubmitNewInvite(t) \/ SubmitFromInvite(t) \/ DisconnectConnection(t)
        PROVE  cred' = cred
    BY <2>2 DEF SubmitNewInvite, SubmitFromInvite, DisconnectConnection
  <2>3. validity' = validity
    BY <1>1 DEF UserStep, SubmitNewInvite, SubmitFromInvite, DisconnectConnection, SubmitPinCode
  <2> QED BY <1>1, <1>p, <2>1, <2>2, <2>3, SameKeeps DEF UserStep
<1>2. CASE PeerAct \/ AgentStep
  <2>1. validity' = validity
    BY <1>2 DEF PeerAct, AgentStep, PeerAccepts, PeerHangsUp, PeerProposes, PeerReports,
                AgentSettles, PeerAdvances
  <2>2. ASSUME NEW k \in Cred, PeerAdvances(k) \/ \E r \in Reports : PeerReports(k, r)
        PROVE  \A j \in Cred : KeptOver(j)
    BY <2>2, PeerMoves, MovesKeeps
  <2>3. ASSUME NEW k \in Cred, NEW c \in AgentConn, NEW pin \in Invite \cup {NoInvite},
               NEW agrees \in BOOLEAN, PeerProposes(k, c, pin, agrees)
        PROVE  \A j \in Cred : KeptOver(j)
    BY <2>3, BeginsKeeps DEF PeerProposes
  <2>4. ASSUME NEW c \in AgentConn,
               \/ \E i \in Invite : PeerAccepts(i, c)
               \/ PeerHangsUp(c)
               \/ \E st \in {"completed", "abandoned"} : AgentSettles(c, st)
        PROVE  cred' = cred
    BY <2>4 DEF PeerAccepts, PeerHangsUp, AgentSettles
  <2> QED BY <1>2, <1>p, <2>1, <2>2, <2>3, <2>4, SameKeeps DEF PeerAct, AgentStep
<1>3. CASE Mishap
  <2>1. validity' = validity /\ cred' = cred
    BY <1>3 DEF Mishap, InviteLapses, RequestFails, HandlerFails, SocketReconnects, Restart
  <2> QED BY <1>p, <2>1, SameKeeps
<1>4. ASSUME NEW t \in Task, Handle(t)
      PROVE  Present \subseteq Present' /\ \A k \in Cred : KeptOver(k)
  <2>1. PICK e \in events :
          \/ ConnectionStateChanged(t, e) \/ ConnectionDidRotated(t, e)
          \/ ProposalReceived(t, e) \/ ForwardExchange(t, e) \/ ExchangeDone(t, e)
          \/ ProblemReported(t, e)
    BY <1>4 DEF Handle
  <2>2. validity' = validity
    BY <2>1 DEF ConnectionStateChanged, ConnectionDidRotated, ProposalReceived,
                ForwardExchange, ExchangeDone, ProblemReported
  <2>3. CASE ForwardExchange(t, e)
    <3>1. e.id \in Cred
      BY <2>3 DEF ForwardExchange, TypeOK, Event
    <3> QED BY <1>p, <2>2, <2>3, <3>1, ForwardMoves, MovesKeeps, SameKeeps
  <2>4. CASE ~ForwardExchange(t, e)
    <3>1. cred' = cred
      BY <2>1, <2>4 DEF ConnectionStateChanged, ConnectionDidRotated, ProposalReceived,
                        ExchangeDone, ProblemReported
    <3> QED BY <1>p, <2>2, <3>1, SameKeeps
  <2> QED BY <2>3, <2>4
<1>5. ASSUME NEW t \in Task, NodeStep(t)
      PROVE  Present \subseteq Present' /\ \A k \in Cred : KeptOver(k)
  <2>1. CASE AcceptProposal(t) \/ SendProblemReport(t)
    <3>1. validity' = validity
      BY <2>1 DEF AcceptProposal, SendProblemReport
    <3>2. task[t].ev.id \in Cred
      BY <2>1, CredentialTask DEF AcceptProposal, SendProblemReport, At, CredentialHandlerStep
    <3> QED BY <1>p, <2>1, <3>1, <3>2, NodeMoves, MovesKeeps, SameKeeps
  <2>2. CASE ~(AcceptProposal(t) \/ SendProblemReport(t))
    <3>1. cred' = cred
      BY <1>5, <2>2 DEF NodeStep, NewConnectionStep, ConnectionStep, CredentialStep,
         CheckInvites, CreateInvitation, InsertNewConnection, RereadInvites, PurgeOob,
         BeginReissue, CommitReissue, UpdateConnection, MissConnection, MarkUsed,
         CloseConnection, MarkDisconnected, IncrementAttempts, LockInvites, ResetAttempts,
         ComparePin, ExpirePins, WriteDone
    <3>2. Present \subseteq Present'
      <4>1. CASE InsertNewConnection(t)
        BY <4>1 DEF InsertNewConnection, Present, TypeOK
      <4>2. CASE CommitReissue(t)
        BY <4>2 DEF CommitReissue, Present
      <4>3. CASE UpdateConnection(t) \/ MarkUsed(t)
        BY <4>3 DEF UpdateConnection, MarkUsed, UseInvites, Present
      <4>4. CASE LockInvites(t) \/ ExpirePins(t)
        BY <4>4 DEF LockInvites, ExpirePins, Present
      <4>5. CASE \/ CheckInvites(t) \/ CreateInvitation(t) \/ RereadInvites(t) \/ PurgeOob(t)
                 \/ BeginReissue(t) \/ MissConnection(t) \/ CloseConnection(t)
                 \/ MarkDisconnected(t) \/ IncrementAttempts(t) \/ ResetAttempts(t)
                 \/ ComparePin(t) \/ WriteDone(t)
        BY <1>p, <4>5 DEF CheckInvites, CreateInvitation, RereadInvites, PurgeOob,
           BeginReissue, MissConnection, CloseConnection, MarkDisconnected,
           IncrementAttempts, ResetAttempts, ComparePin, WriteDone
      <4> QED BY <1>5, <2>2, <4>1, <4>2, <4>3, <4>4, <4>5
              DEF NodeStep, NewConnectionStep, ConnectionStep, CredentialStep
    <3> QED BY <3>1, <3>2, SameKeeps
  <2> QED BY <2>1, <2>2
<1>6. CASE UNCHANGED vars
  BY <1>6, <1>p, SameKeeps DEF vars
<1> QED BY <1>1, <1>2, <1>3, <1>4, <1>5, <1>6 DEF Next

-----------------------------------------------------------------------------
(* With one slot, a step that moves a task moves every one. *)
LEMMA SlotMoves ==
  ASSUME TypeOK, OneSlot, NEW t \in Task, NEW next, Goto(t, next)
  PROVE  \A u \in Task : u = t /\ task'[u] = next
BY DEF OneSlot, Goto, TypeOK, TaskOK

\* What a status may become.
StatusMay ==
    /\ status = "verified_both" => status' \in {"verified_both", "disconnected"}
    /\ status = "disconnected" => status' \in {"disconnected", "pending"}
    /\ status = "pending" => status' \in {"pending", "unverified", "disconnected"}

Verified == {"verified_them", "verified_us", "verified_both"}
Watched == Reissuing \cup {"connection", "mark_used", "done"}

\* The row keeps its status and its connection.
RowStays == status' = status /\ agentId' = agentId

(* Evidence of the row's connection is never lost. *)
LEMMA CurrentEvidenceStays ==
  ASSUME TypeOK, EvidenceInv, [Next]_vars, agentId' = agentId
  PROVE  \A k \in Cred :
           /\ IssuedTo(k) /\ cred[k].conn = agentId
                => IssuedTo(k)' /\ cred'[k].conn = agentId'
           /\ ReceivedFrom(k) /\ cred[k].conn = agentId
                => ReceivedFrom(k)' /\ cred'[k].conn = agentId'
<1> SUFFICES ASSUME NEW k \in Cred
             PROVE  /\ IssuedTo(k) /\ cred[k].conn = agentId
                         => IssuedTo(k)' /\ cred'[k].conn = agentId'
                    /\ ReceivedFrom(k) /\ cred[k].conn = agentId
                         => ReceivedFrom(k)' /\ cred'[k].conn = agentId'
  OBVIOUS
<1>1. Present \subseteq Present' /\ KeptOver(k)
  BY NothingTaken
<1>2. /\ IssuedTo(k) => IssuedTo(k)'
      /\ ReceivedFrom(k) => ReceivedFrom(k)'
  BY <1>1, EvidenceStays DEF KeptOver
<1>3. IssuedTo(k) \/ ReceivedFrom(k) => cred[k].role # "none"
  BY DEF IssuedTo, ReceivedFrom
<1> QED BY <1>1, <1>2, <1>3 DEF KeptOver

(* A handler of a completed exchange that does not move finds it as it was. *)
LEMMA DoneStays ==
  ASSUME TypeOK, EvidenceInv, [Next]_vars, NEW t \in Task, Current(task[t]),
         task'[t] = task[t], RowStays
  PROVE  Current(task[t])'
<1>1. CASE task[t].at = "done"
  <2> DEFINE k == task[t].ev.id
  <2>1. k \in Cred /\ cred[k].st = "done"
    BY <1>1, CredentialTask DEF EvidenceInv, TaskEvident, CredentialHandlerStep
  <2>2. cred[k].role # "none"
    BY <2>1 DEF EvidenceInv, RolesOK
  <2>3. cred'[k].role = cred[k].role /\ cred'[k].conn = cred[k].conn
    BY <2>1, <2>2, NothingTaken DEF KeptOver, Kept
  <2>4. /\ task[t].seen = AfterDone(status, cred[k].role)
        /\ task[t].seen # status /\ OnRow(k)
    BY <1>1 DEF Current
  <2>5. OnRow(k)'
    BY <2>3, <2>4 DEF OnRow, RowStays
  <2>6. AfterDone(status', cred'[k].role) = AfterDone(status, cred[k].role)
    BY <2>3 DEF RowStays
  <2> QED BY <1>1, <2>4, <2>5, <2>6 DEF Current, RowStays, Reissuing
<1>2. CASE task[t].at # "done"
  BY <1>2 DEF Current, RowStays
<1> QED BY <1>1, <1>2

(* A step keeps the invariant if it verifies the row on current evidence only and
   leaves its tasks up to date. *)
LEMMA CurrentKept ==
  ASSUME TypeOK, EvidenceInv, CurrentInv, [Next]_vars,
         RowStays \/ status' \notin Verified \/ CurrentEvidence',
         \A t \in Task : (task'[t] = task[t] /\ RowStays) \/ Current(task[t])'
  PROVE  CurrentInv'
<1>1. CurrentEvidence'
  <2>1. CASE RowStays
    <3>1. \A k \in Cred :
            /\ IssuedTo(k) /\ cred[k].conn = agentId
                 => IssuedTo(k)' /\ cred'[k].conn = agentId'
            /\ ReceivedFrom(k) /\ cred[k].conn = agentId
                 => ReceivedFrom(k)' /\ cred'[k].conn = agentId'
      BY <2>1, CurrentEvidenceStays DEF RowStays
    <3> QED BY <2>1, <3>1
            DEF RowStays, CurrentInv, CurrentEvidence, TheyAreVerified, WeAreVerified
  <2>2. CASE status' \notin Verified
    BY <2>2 DEF Verified, CurrentEvidence, TheyAreVerified, WeAreVerified
  <2> QED BY <2>1, <2>2
<1>2. \A t \in Task : Current(task[t])'
  BY DoneStays DEF CurrentInv
<1> QED BY <1>1, <1>2 DEF CurrentInv

(* A step that leaves the row and the tasks alone. *)
LEMMA CurrentStill ==
  ASSUME TypeOK, EvidenceInv, CurrentInv, [Next]_vars, RowStays, task' = task
  PROVE  CurrentInv' /\ StatusMay
<1>1. CurrentInv'
  BY CurrentKept
<1> QED BY <1>1 DEF StatusMay, RowStays

(* A step after which no task depends on what the row says. *)
LEMMA CurrentLets ==
  ASSUME TypeOK, EvidenceInv, CurrentInv, [Next]_vars, OneSlot,
         NEW t \in Task, NEW next, Goto(t, next), next.at \notin Watched,
         RowStays \/ status' \notin Verified
  PROVE  CurrentInv'
<1>1. \A u \in Task : Current(task[u])'
  BY SlotMoves DEF Current, Watched
<1> QED BY <1>1, CurrentKept

(* A step after which the task is up to date. *)
LEMMA CurrentGoes ==
  ASSUME TypeOK, EvidenceInv, CurrentInv, [Next]_vars, OneSlot,
         NEW t \in Task, NEW next, Goto(t, next), RowStays, Current(task[t])'
  PROVE  CurrentInv' /\ StatusMay
<1>1. \A u \in Task : Current(task[u])'
  BY DEF OneSlot
<1>2. CurrentInv'
  BY <1>1, CurrentKept
<1> QED BY <1>2 DEF StatusMay, RowStays

LEMMA IdleIsUnwatched == Idle.at = "idle" /\ Idle.at \notin Watched
BY DEF Idle, Watched, Reissuing

(* The requests. *)
LEMMA CurrentNewConnection ==
  ASSUME TypeOK, EvidenceInv, CurrentInv, [Next]_vars, OneSlot, NEW t \in Task,
         \/ SubmitNewInvite(t) \/ SubmitFromInvite(t) \/ RequestFails(t)
         \/ NewConnectionStep(t)
  PROVE  CurrentInv' /\ StatusMay
<1>l. task[t] \in Local /\ Current(task[t])
  BY DEF TypeOK, TaskOK, CurrentInv
<1>m. RowStays => StatusMay
  BY DEF RowStays, StatusMay
<1>r. ASSUME NEW next, Goto(t, next), RowStays, next.at \in Reissuing,
             next.seen = status, status # "verified_both"
      PROVE  CurrentInv' /\ StatusMay
  <2>1. task'[t] = next
    BY <1>r, SlotMoves
  <2>2. Current(task[t])'
    BY <1>r, <2>1 DEF Current, Reissuing, RowStays
  <2> QED BY <1>r, <2>2, CurrentGoes
<1> USE DEF row, invites, cloud
<1>1. CASE SubmitNewInvite(t)
  <2> DEFINE next == [Idle EXCEPT !.at = IF status = "none" THEN "create" ELSE "check",
                                  !.seen = status]
  <2>1. next.at \in Reissuing /\ next.seen = status
    BY DEF Idle, Reissuing
  <2>2. Goto(t, next) /\ RowStays /\ status # "verified_both"
    BY <1>1 DEF SubmitNewInvite, RowStays
  <2> HIDE DEF next
  <2> QED BY <1>r, <2>1, <2>2
<1>2. CASE SubmitFromInvite(t)
  <2>1. PICK i \in Invite, c \in AgentConn :
          Goto(t, [Idle EXCEPT !.at = "insert", !.inv = i, !.conn = c])
    BY <1>2 DEF SubmitFromInvite
  <2> DEFINE next == [Idle EXCEPT !.at = "insert", !.inv = i, !.conn = c]
  <2>2. next.at \notin Watched
    BY DEF Idle, Watched, Reissuing
  <2>3. Goto(t, next) /\ RowStays
    BY <1>2, <2>1 DEF SubmitFromInvite, RowStays
  <2> HIDE DEF next
  <2> QED BY <1>m, <2>2, <2>3, CurrentLets
<1>3. CASE RequestFails(t)
  BY <1>3, <1>m, IdleIsUnwatched, CurrentLets DEF RequestFails, Finish, RowStays
<1>4. CASE CheckInvites(t)
  <2> DEFINE next == [task[t] EXCEPT !.at = "create"]
  <2>1. next.at = "create" /\ next.seen = task[t].seen
    BY <1>l DEF Local
  <2>2. task[t].seen = status /\ status # "verified_both"
    BY <1>4, <1>l DEF CheckInvites, At, Current, Reissuing
  <2>3. (Goto(t, next) \/ Goto(t, Idle)) /\ RowStays
    BY <1>4 DEF CheckInvites, Finish, RowStays
  <2> HIDE DEF next
  <2> QED BY <1>m, <1>r, <2>1, <2>2, <2>3, IdleIsUnwatched, CurrentLets DEF Reissuing
<1>5. CASE CreateInvitation(t)
  <2>1. PICK i \in Invite :
          Goto(t, [task[t] EXCEPT !.inv = i,
                     !.at = IF task[t].seen = "none" THEN "insert" ELSE "reread"])
    BY <1>5 DEF CreateInvitation
  <2> DEFINE next == [task[t] EXCEPT !.inv = i,
                        !.at = IF task[t].seen = "none" THEN "insert" ELSE "reread"]
  <2>2. next.at \in {"insert", "reread"} /\ next.seen = task[t].seen
    BY <1>l DEF Local
  <2>3. task[t].seen = status /\ status # "verified_both"
    BY <1>5, <1>l DEF CreateInvitation, At, Current, Reissuing
  <2>4. Goto(t, next) /\ RowStays
    BY <1>5, <2>1 DEF CreateInvitation, RowStays
  <2> HIDE DEF next
  <2>5. CASE next.at = "insert"
    BY <1>m, <2>4, <2>5, CurrentLets DEF Watched, Reissuing
  <2>6. CASE next.at = "reread"
    BY <1>r, <2>2, <2>3, <2>4, <2>6 DEF Reissuing
  <2> QED BY <2>2, <2>5, <2>6
<1>6. CASE InsertNewConnection(t)
  <2>1. Goto(t, Idle) /\ (RowStays \/ (status = "none" /\ status' = "pending"))
    BY <1>6 DEF InsertNewConnection, Finish, RowStays
  <2>2. StatusMay
    BY <1>m, <2>1 DEF StatusMay
  <2> QED BY <2>1, <2>2, IdleIsUnwatched, CurrentLets DEF Verified
<1>7. CASE RereadInvites(t)
  <2> DEFINE next == [task[t] EXCEPT !.at = "purge", !.known = Present]
  <2>1. next.at = "purge" /\ next.seen = task[t].seen
    BY <1>l DEF Local
  <2>2. task[t].seen = status /\ status # "verified_both"
    BY <1>7, <1>l DEF RereadInvites, At, Current, Reissuing
  <2>3. Goto(t, next) /\ RowStays
    BY <1>7 DEF RereadInvites, RowStays
  <2> HIDE DEF next
  <2> QED BY <1>r, <2>1, <2>2, <2>3 DEF Reissuing
<1>8. CASE PurgeOob(t)
  <2>1. PICK i \in task[t].known :
          Goto(t, [task[t] EXCEPT !.known = task[t].known \ {i},
                     !.at = IF task[t].known \ {i} = {} THEN "expire" ELSE "purge"])
    BY <1>8 DEF PurgeOob
  <2> DEFINE next == [task[t] EXCEPT !.known = task[t].known \ {i},
                        !.at = IF task[t].known \ {i} = {} THEN "expire" ELSE "purge"]
  <2>2. next.at \in {"expire", "purge"} /\ next.seen = task[t].seen
    BY <1>l DEF Local
  <2>3. task[t].seen = status /\ status # "verified_both"
    BY <1>8, <1>l DEF PurgeOob, At, Current, Reissuing
  <2>4. Goto(t, next) /\ RowStays
    BY <1>8, <2>1 DEF PurgeOob, RowStays
  <2> HIDE DEF next
  <2> QED BY <1>r, <2>2, <2>3, <2>4 DEF Reissuing
<1>9. CASE BeginReissue(t)
  <2> DEFINE next == [task[t] EXCEPT !.at = "commit", !.known = Present]
  <2>1. next.at = "commit" /\ next.seen = task[t].seen
    BY <1>l DEF Local
  <2>2. task[t].seen = status /\ status # "verified_both"
    BY <1>9, <1>l DEF BeginReissue, At, Current, Reissuing
  <2>3. Goto(t, next) /\ RowStays
    BY <1>9 DEF BeginReissue, RowStays
  <2> HIDE DEF next
  <2> QED BY <1>r, <2>1, <2>2, <2>3 DEF Reissuing
<1>10. CASE CommitReissue(t)
  <2>1. status # "verified_both"
    BY <1>10, <1>l DEF CommitReissue, At, Current, Reissuing
  <2>2. Goto(t, Idle) /\ status' = "pending"
    BY <1>10 DEF CommitReissue, Finish
  <2>3. StatusMay
    BY <2>1, <2>2 DEF StatusMay
  <2> QED BY <2>2, <2>3, IdleIsUnwatched, CurrentLets DEF Verified
<1> QED
  BY <1>1, <1>2, <1>3, <1>4, <1>5, <1>6, <1>7, <1>8, <1>9, <1>10 DEF NewConnectionStep

(* The handlers of connection events, and the disconnect request. *)
LEMMA CurrentConnection ==
  ASSUME TypeOK, EvidenceInv, CurrentInv, [Next]_vars, OneSlot, NEW t \in Task,
         \/ \E e \in events : ConnectionStateChanged(t, e) \/ ConnectionDidRotated(t, e)
         \/ DisconnectConnection(t)
         \/ ConnectionStep(t)
  PROVE  CurrentInv' /\ StatusMay
<1>l. task[t] \in Local /\ Current(task[t]) /\ status \in ConnectionStatus
  BY DEF TypeOK, TaskOK, CurrentInv
<1>m. RowStays => StatusMay
  BY DEF RowStays, StatusMay
<1> USE DEF row, invites, cloud
<1>1. ASSUME NEW e \in events, ConnectionStateChanged(t, e) PROVE CurrentInv' /\ StatusMay
  <2> DEFINE next == [Idle EXCEPT !.at = "connection", !.ev = e, !.seen = status]
  <2>1. RowStays
    BY <1>1 DEF ConnectionStateChanged, RowStays
  <2>2. CASE task' = task
    BY <2>1, <2>2, CurrentStill
  <2>3. CASE task' # task
    <3>1. Goto(t, next) /\ ~Ignored(e.st, status)
      BY <1>1, <2>3 DEF ConnectionStateChanged
    <3>2. next.at = "connection" /\ next.ev = e /\ next.seen = status
      BY DEF Idle
    <3> HIDE DEF next
    <3>3. task'[t] = next
      BY <3>1, SlotMoves
    <3>4. Current(task[t])'
      BY <2>1, <3>1, <3>2, <3>3 DEF Current, Reissuing, RowStays
    <3> QED BY <2>1, <3>1, <3>4, CurrentGoes
  <2> QED BY <2>2, <2>3
<1>2. ASSUME NEW e \in events, ConnectionDidRotated(t, e) PROVE CurrentInv' /\ StatusMay
  <2>1. /\ task' = task /\ task[t].at = "idle" /\ agentId' = agentId
        /\ status' \in {status, "disconnected"}
    BY <1>2 DEF ConnectionDidRotated, At
  <2>2. StatusMay
    BY <2>1 DEF StatusMay
  <2>3. \A u \in Task : Current(task[u])'
    BY <2>1 DEF OneSlot, Current, Reissuing
  <2> QED BY <2>1, <2>2, <2>3, CurrentKept DEF RowStays, Verified
<1>3. CASE UpdateConnection(t)
  <2>1. /\ ~Ignored(task[t].ev.st, status) /\ Goto(t, Idle)
        /\ status' = IF task[t].ev.st = "completed" THEN "unverified" ELSE "disconnected"
    BY <1>3, <1>l DEF UpdateConnection, UpdateStatus, At, Current, Finish
  <2>2. StatusMay
    BY <1>l, <2>1 DEF Ignored, StatusMay
  <2> QED BY <2>1, <2>2, IdleIsUnwatched, CurrentLets DEF Verified
<1>4. CASE MissConnection(t)
  BY <1>4, <1>l DEF MissConnection, At, Current
<1>5. CASE MarkUsed(t)
  BY <1>5, <1>l DEF MarkUsed, At, Current
<1>6. CASE DisconnectConnection(t)
  <2> DEFINE next == [Idle EXCEPT !.at = "close", !.conn = agentId]
  <2>1. next.at \notin Watched
    BY DEF Idle, Watched, Reissuing
  <2>2. Goto(t, next) /\ RowStays
    BY <1>6 DEF DisconnectConnection, RowStays
  <2> HIDE DEF next
  <2> QED BY <1>m, <2>1, <2>2, CurrentLets
<1>7. CASE CloseConnection(t)
  <2> DEFINE next == [task[t] EXCEPT !.at = "mark"]
  <2>1. next.at \notin Watched
    BY <1>l DEF Local, Watched, Reissuing
  <2>2. (Goto(t, next) \/ Goto(t, Idle)) /\ RowStays
    BY <1>7 DEF CloseConnection, Finish, RowStays
  <2> HIDE DEF next
  <2> QED BY <1>m, <2>1, <2>2, IdleIsUnwatched, CurrentLets
<1>8. CASE MarkDisconnected(t)
  <2>1. Goto(t, Idle) /\ status' = "disconnected"
    BY <1>8 DEF MarkDisconnected, Finish
  <2>2. StatusMay
    BY <2>1 DEF StatusMay
  <2> QED BY <2>1, <2>2, IdleIsUnwatched, CurrentLets DEF Verified
<1> QED
  BY <1>1, <1>2, <1>3, <1>4, <1>5, <1>6, <1>7, <1>8 DEF ConnectionStep

(* The handlers of credential events. *)
LEMMA CurrentCredential ==
  ASSUME TypeOK, EvidenceInv, CurrentInv, [Next]_vars, OneSlot, NEW t \in Task,
         \/ \E e \in events : \/ ProposalReceived(t, e) \/ ForwardExchange(t, e)
                              \/ ExchangeDone(t, e) \/ ProblemReported(t, e)
         \/ CredentialStep(t)
  PROVE  CurrentInv' /\ StatusMay
<1>m. RowStays => StatusMay
  BY DEF RowStays, StatusMay
<1> USE DEF row, invites, cloud
<1>1. ASSUME NEW e \in events, ProposalReceived(t, e) PROVE CurrentInv' /\ StatusMay
  <2> DEFINE next == [Idle EXCEPT !.at = "count", !.ev = e]
  <2>1. next.at \notin Watched
    BY DEF Idle, Watched, Reissuing
  <2>2. (task' = task \/ Goto(t, next)) /\ RowStays
    BY <1>1 DEF ProposalReceived, RowStays
  <2> HIDE DEF next
  <2> QED BY <1>m, <2>1, <2>2, CurrentStill, CurrentLets
<1>2. ASSUME NEW e \in events, ForwardExchange(t, e) \/ ProblemReported(t, e)
      PROVE  CurrentInv' /\ StatusMay
  BY <1>2, CurrentStill DEF ForwardExchange, ProblemReported, RowStays
<1>3. ASSUME NEW e \in events, ExchangeDone(t, e) PROVE CurrentInv' /\ StatusMay
  <2> DEFINE after == AfterDone(status, cred[e.id].role)
             next == [Idle EXCEPT !.at = "done", !.ev = e, !.seen = after]
  <2>1. RowStays /\ cred' = cred
    BY <1>3 DEF ExchangeDone, RowStays
  <2>2. CASE task' = task
    BY <2>1, <2>2, CurrentStill
  <2>3. CASE task' # task
    <3>1. Goto(t, next) /\ after # status /\ OnRow(e.id)
      BY <1>3, <2>3 DEF ExchangeDone
    <3>2. next.at = "done" /\ next.ev = e /\ next.seen = after
      <4> HIDE DEF after
      <4> QED BY DEF Idle
    <3>3. task'[t] = next
      BY <3>1, SlotMoves
    <3>4. after' = after /\ OnRow(e.id)'
      BY <2>1, <3>1 DEF RowStays, OnRow
    <3>5. Current(task[t])'
      <4> HIDE DEF next, after
      <4>1. task'[t].at = "done" /\ task'[t].ev = e /\ task'[t].seen = after
        BY <3>2, <3>3
      <4>2. AfterDone(status', cred'[e.id].role) = after
        BY <2>1 DEF after, RowStays
      <4>3. after # status'
        BY <2>1, <3>1 DEF RowStays
      <4> QED BY <3>4, <4>1, <4>2, <4>3 DEF Current, Reissuing
    <3> QED BY <2>1, <3>1, <3>5, CurrentGoes
  <2> QED BY <2>2, <2>3
<1>4. ASSUME CredentialStep(t), ~WriteDone(t) PROVE CurrentInv' /\ StatusMay
  <2>1. RowStays
    BY <1>4 DEF CredentialStep, IncrementAttempts, LockInvites, ResetAttempts, ComparePin,
                ExpirePins, AcceptProposal, SendProblemReport, RowStays
  <2>2. PICK next : /\ Goto(t, next)
                    /\ next = Idle \/ next.at \in CredentialHandlerStep \ {"done"}
    BY <1>4, HandlerGoesOn DEF GoesOn
  <2>3. next.at \notin Watched
    BY <2>2, IdleIsUnwatched DEF Watched, Reissuing, CredentialHandlerStep
  <2> QED BY <1>m, <2>1, <2>2, <2>3, CurrentLets
<1>5. CASE WriteDone(t)
  <2> DEFINE k == task[t].ev.id
  <2>1. Goto(t, Idle) /\ status' = task[t].seen /\ agentId' = agentId
    BY <1>5 DEF WriteDone, Finish
  <2>2. k \in Cred /\ cred[k].st = "done"
    BY <1>5, CredentialTask
    DEF WriteDone, At, EvidenceInv, TaskEvident, CredentialHandlerStep
  <2>3. /\ task[t].seen = AfterDone(status, cred[k].role)
        /\ task[t].seen # status /\ OnRow(k)
    BY <1>5 DEF WriteDone, At, CurrentInv, Current
  <2>4. cred[k].role \in {"issuer", "holder"}
    BY <2>2 DEF EvidenceInv, RolesOK
  <2>5. \/ status = "unverified" /\ cred[k].role = "holder" /\ status' = "verified_us"
        \/ status = "unverified" /\ cred[k].role = "issuer" /\ status' = "verified_them"
        \/ status = "verified_them" /\ cred[k].role = "holder" /\ status' = "verified_both"
        \/ status = "verified_us" /\ cred[k].role = "issuer" /\ status' = "verified_both"
    BY <2>1, <2>3, <2>4 DEF AfterDone
  <2>6. /\ cred[k].role = "issuer" => IssuedTo(k)
        /\ cred[k].role = "holder" => ReceivedFrom(k)
        /\ cred[k].conn = agentId
    BY <2>2, <2>3 DEF EvidenceInv, AcceptedIsGenuine, IssuedTo, ReceivedFrom, OnRow
  <2> HIDE DEF k
  <2>7. /\ status' # "verified_us" => \E j \in Cred : IssuedTo(j) /\ cred[j].conn = agentId
        /\ status' # "verified_them" => \E j \in Cred : ReceivedFrom(j) /\ cred[j].conn = agentId
    <3>1. /\ status = "verified_them" => \E j \in Cred : IssuedTo(j) /\ cred[j].conn = agentId
          /\ status = "verified_us" => \E j \in Cred : ReceivedFrom(j) /\ cred[j].conn = agentId
      BY DEF CurrentInv, CurrentEvidence, TheyAreVerified, WeAreVerified
    <3> QED BY <2>2, <2>5, <2>6, <3>1
  <2>8. CurrentEvidence'
    BY <2>1, <2>7, CurrentEvidenceStays DEF CurrentEvidence, TheyAreVerified, WeAreVerified
  <2>9. \A u \in Task : Current(task[u])'
    BY <2>1, SlotMoves, IdleIsUnwatched DEF Current, Watched
  <2>10. StatusMay
    BY <2>5 DEF StatusMay
  <2> QED BY <2>8, <2>9, <2>10, CurrentKept
<1> QED BY <1>1, <1>2, <1>3, <1>4, <1>5

(* Every step. *)
LEMMA CurrentNext ==
  ASSUME TypeOK, EvidenceInv, CurrentInv, OneSlot, [Next]_vars
  PROVE  CurrentInv' /\ StatusMay
<1> USE DEF row, invites, cloud
<1>m. RowStays => StatusMay
  BY DEF RowStays, StatusMay
<1>1. CASE UserStep
  <2>1. ASSUME NEW k \in Cred, SubmitPinCode(k) PROVE CurrentInv' /\ StatusMay
    BY <2>1, CurrentStill DEF SubmitPinCode, RowStays
  <2> QED BY <1>1, <2>1, CurrentNewConnection, CurrentConnection DEF UserStep
<1>2. CASE PeerAct \/ AgentStep
  <2>1. RowStays /\ task' = task
    BY <1>2 DEF PeerAct, AgentStep, PeerAccepts, PeerHangsUp, PeerProposes, PeerReports,
                AgentSettles, PeerAdvances, RowStays
  <2> QED BY <2>1, CurrentStill
<1>3. CASE Mishap
  <2>1. ASSUME NEW t \in Task, HandlerFails(t) PROVE CurrentInv' /\ StatusMay
    <3>1. Goto(t, Idle) /\ RowStays
      BY <2>1 DEF HandlerFails, Reject, Finish, RowStays
    <3> QED BY <1>m, <3>1, IdleIsUnwatched, CurrentLets
  <2>2. CASE SocketReconnects \/ \E i \in Invite : InviteLapses(i)
    BY <2>2, CurrentStill DEF SocketReconnects, InviteLapses, RowStays
  <2>3. CASE Restart
    <3>1. RowStays /\ \A t \in Task : task'[t] = Idle
      BY <2>3 DEF Restart, RowStays
    <3>2. \A t \in Task : Current(task[t])'
      BY <3>1, IdleIsUnwatched DEF Current, Watched
    <3> QED BY <1>m, <3>1, <3>2, CurrentKept
  <2> QED BY <1>3, <2>1, <2>2, <2>3, CurrentNewConnection DEF Mishap
<1>4. ASSUME NEW t \in Task, Handle(t) PROVE CurrentInv' /\ StatusMay
  BY <1>4, CurrentConnection, CurrentCredential DEF Handle
<1>5. ASSUME NEW t \in Task, NodeStep(t) PROVE CurrentInv' /\ StatusMay
  BY <1>5, CurrentNewConnection, CurrentConnection, CurrentCredential DEF NodeStep
<1>6. CASE UNCHANGED vars
  BY <1>6, CurrentStill DEF vars, RowStays
<1> QED BY <1>1, <1>2, <1>3, <1>4, <1>5, <1>6 DEF Next

LEMMA CurrentInit == Init => CurrentInv
BY DEF Init, CurrentInv, CurrentEvidence, TheyAreVerified, WeAreVerified, Current, Reissuing,
       Idle

(* With one slot, whatever fails, is lost or replayed, the evidence for a
   verified row is of the connection the row points to now. *)
THEOREM CurrentEvidenceHolds ==
  ASSUME OneSlot
  PROVE  Spec => []CurrentEvidence
<1>1. TypeOK /\ EvidenceInv /\ CurrentInv /\ [Next]_vars => CurrentInv'
  BY CurrentNext
<1>2. CurrentInv => CurrentEvidence
  BY DEF CurrentInv
<1> QED
  BY <1>1, <1>2, TypeCorrect, EvidenceHolds, CurrentInit, PTL DEF Spec

(* With one slot a mutual verification ends only in a disconnection, only a
   reissue revives a disconnected row, and a pending row is connected first. *)
THEOREM StatusMovesHolds ==
  ASSUME OneSlot
  PROVE  Spec => StatusMoves
<1>1. TypeOK /\ EvidenceInv /\ CurrentInv /\ [Next]_vars => CurrentInv'
  BY CurrentNext
<1>2. TypeOK /\ EvidenceInv /\ CurrentInv /\ [Next]_vars => [StatusMay]_vars
  BY CurrentNext
<1> QED
  BY <1>1, <1>2, TypeCorrect, EvidenceHolds, CurrentInit, PTL DEF Spec, StatusMoves, StatusMay

-----------------------------------------------------------------------------
(* One open invitation (hypotheses: one slot, and no failure or restart that   *)
(* ends a reissue halfway, with the records deleted and no new invitation).    *)

Purging == {"purge", "expire", "commit"}
Opening == {"insert", "reread", "expire_pins"} \cup Purging

\* What a request knows of the invitation it is about to open and of those it is
\* about to close, and a handler of those it is about to expire.
Opens(x) ==
    /\ x.at \in {"insert", "reread"} \cup Purging =>
         x.inv \in Invite \ Present /\ oob[x.inv] \in {"sender", "receiver"}
    /\ x.at \in {"purge", "expire_pins"} => x.known \subseteq Present
    /\ x.at = "commit" => x.known = Present

(* Why OneOpenInvite is inductive: an invitation is new when its row is inserted,
   and a reissue knows every other one. *)
OpenInv ==
    /\ \A i, j \in InviteWith("valid") : i = j
    /\ (\A t \in Task : task[t].at \notin Purging) =>
         \A i \in InviteWith("valid") : oob[i] # "deleted"
    /\ \A i \in Present : oob[i] # "unused"
    /\ status = "none" => Present = {}
    /\ \A t \in Task : Opens(task[t])

(* A step keeps the invariant if it opens no invitation, touches no out-of-band
   record, and interrupts no reissue. *)
LEMMA OpenKept ==
  ASSUME OpenInv, Present' = Present, InviteWith("valid")' \subseteq InviteWith("valid"),
         oob' = oob, status' = status \/ status' # "none",
         \A t \in Task : \/ task'[t] = task[t]
                         \/ task[t].at \notin Purging /\ Opens(task[t])'
  PROVE  OpenInv'
<1>1. \A t \in Task : Opens(task[t])'
  BY DEF OpenInv, Opens
<1>2. (\A t \in Task : task'[t].at \notin Purging) => \A t \in Task : task[t].at \notin Purging
  OBVIOUS
<1> QED BY <1>1, <1>2 DEF OpenInv

\* The rows of the invitations stay as they are, or no longer count as open.
NoneOpened ==
    /\ Present' = Present /\ InviteWith("valid")' \subseteq InviteWith("valid")
    /\ oob' = oob /\ (status' = status \/ status' # "none")

LEMMA OpenStill ==
  ASSUME OpenInv, NoneOpened, task' = task
  PROVE  OpenInv'
<1>1. \A t \in Task : task'[t] = task[t]
  OBVIOUS
<1> QED BY <1>1, OpenKept DEF NoneOpened

(* A step that moves the task to where it claims nothing. *)
LEMMA OpenLets ==
  ASSUME TypeOK, OneSlot, OpenInv, NoneOpened, NEW t \in Task, NEW next, Goto(t, next),
         task[t].at \notin Purging, next.at \notin Opening
  PROVE  OpenInv'
<1>1. \A u \in Task : u = t /\ task'[u] = next
  BY SlotMoves
<1>2. \A u \in Task : task[u].at \notin Purging /\ Opens(task[u])'
  BY <1>1 DEF Opens, Opening, Purging
<1> QED BY <1>2, OpenKept DEF NoneOpened

LEMMA SameInvites ==
  ASSUME UNCHANGED <<validity, oob, status>>
  PROVE  NoneOpened
BY DEF NoneOpened, Present, InviteWith

LEMMA IdleOpensNothing == Idle.at = "idle" /\ Idle.at \notin Opening
BY DEF Idle, Opening, Purging

(* The requests. *)
LEMMA OpenNewConnection ==
  ASSUME TypeOK, OpenInv, OneSlot, NEW t \in Task,
         SubmitNewInvite(t) \/ SubmitFromInvite(t) \/ NewConnectionStep(t)
  PROVE  OpenInv'
<1>l. task[t] \in Local /\ Opens(task[t])
  BY DEF TypeOK, TaskOK, OpenInv
<1>o. \A i \in Invite : oob[i] = "unused" => i \notin Present
  BY DEF OpenInv
<1>v. InviteWith("valid") \subseteq Present /\ Present \subseteq Invite
  BY DEF InviteWith, Present
<1> USE DEF row, invites, cloud
<1>n. ASSUME NEW i \in Invite, NEW s \in {"sender", "receiver"}, oob[i] = "unused",
             oob' = [oob EXCEPT ![i] = s], UNCHANGED <<validity, status>>,
             task[t].at \notin Purging, NEW next, Goto(t, next), next.inv = i,
             next.at \in {"insert", "reread"}
      PROVE  OpenInv'
  <2>1. \A u \in Task : u = t /\ task'[u] = next
    BY <1>n, SlotMoves
  <2>2. Present' = Present /\ InviteWith("valid")' = InviteWith("valid") /\ i \notin Present
    BY <1>n, <1>o DEF Present, InviteWith
  <2>3. oob'[i] = s /\ \A j \in Invite : j # i => oob'[j] = oob[j]
    BY <1>n DEF TypeOK
  <2>4. \A u \in Task : Opens(task[u])'
    BY <1>n, <2>1, <2>2, <2>3 DEF Opens, Purging
  <2>5. \A j \in InviteWith("valid") : oob[j] # "deleted"
    BY <1>n, <2>1 DEF OpenInv
  <2>6. /\ \A j \in InviteWith("valid")' : oob'[j] # "deleted"
        /\ \A j \in Present' : oob'[j] # "unused"
    BY <1>v, <2>2, <2>3, <2>5 DEF OpenInv
  <2> QED BY <1>n, <2>2, <2>4, <2>6 DEF OpenInv
<1>1. CASE SubmitNewInvite(t)
  <2> DEFINE next == [Idle EXCEPT !.at = IF status = "none" THEN "create" ELSE "check",
                                  !.seen = status]
  <2>1. next.at \notin Opening
    BY DEF Idle, Opening, Purging
  <2>2. Goto(t, next) /\ NoneOpened /\ task[t].at \notin Purging
    BY <1>1, SameInvites DEF SubmitNewInvite, At, Purging
  <2> HIDE DEF next
  <2> QED BY <2>1, <2>2, OpenLets
<1>2. CASE SubmitFromInvite(t)
  <2>1. PICK i \in Invite, c \in AgentConn :
          /\ oob[i] = "unused" /\ oob' = [oob EXCEPT ![i] = "receiver"]
          /\ Goto(t, [Idle EXCEPT !.at = "insert", !.inv = i, !.conn = c])
    BY <1>2 DEF SubmitFromInvite
  <2> DEFINE next == [Idle EXCEPT !.at = "insert", !.inv = i, !.conn = c]
  <2>2. next.at = "insert" /\ next.inv = i
    BY DEF Idle
  <2>3. task[t].at \notin Purging /\ UNCHANGED <<validity, status>> /\ Goto(t, next)
    BY <1>2, <2>1 DEF SubmitFromInvite, At, Purging
  <2> HIDE DEF next
  <2> QED BY <1>n, <2>1, <2>2, <2>3
<1>4. CASE CheckInvites(t)
  <2> DEFINE next == [task[t] EXCEPT !.at = "create"]
  <2>1. next.at \notin Opening
    BY <1>l DEF Local, Opening, Purging
  <2>2. (Goto(t, next) \/ Goto(t, Idle)) /\ NoneOpened /\ task[t].at \notin Purging
    BY <1>4, SameInvites DEF CheckInvites, Finish, At, Purging
  <2> HIDE DEF next
  <2> QED BY <2>1, <2>2, IdleOpensNothing, OpenLets
<1>5. CASE CreateInvitation(t)
  <2>1. PICK i \in Invite :
          /\ oob[i] = "unused" /\ oob' = [oob EXCEPT ![i] = "sender"]
          /\ Goto(t, [task[t] EXCEPT !.inv = i,
                        !.at = IF task[t].seen = "none" THEN "insert" ELSE "reread"])
    BY <1>5 DEF CreateInvitation
  <2> DEFINE next == [task[t] EXCEPT !.inv = i,
                        !.at = IF task[t].seen = "none" THEN "insert" ELSE "reread"]
  <2>2. next.at \in {"insert", "reread"} /\ next.inv = i
    BY <1>l DEF Local
  <2>3. task[t].at \notin Purging /\ UNCHANGED <<validity, status>> /\ Goto(t, next)
    BY <1>5, <2>1 DEF CreateInvitation, At, Purging
  <2> HIDE DEF next
  <2> QED BY <1>n, <2>1, <2>2, <2>3
<1>6. CASE InsertNewConnection(t)
  <2>1. Goto(t, Idle) /\ oob' = oob /\ task[t].at = "insert"
    BY <1>6 DEF InsertNewConnection, Finish, At
  <2>2. CASE status # "none"
    BY <1>6, <2>1, <2>2, SameInvites, IdleOpensNothing, OpenLets
       DEF InsertNewConnection, Purging
  <2>3. CASE status = "none"
    <3> DEFINE i == task[t].inv
    <3>1. i \in Invite /\ oob[i] \in {"sender", "receiver"}
      BY <1>l, <2>1 DEF Opens
    <3>2. Present = {}
      BY <2>3 DEF OpenInv
    <3>3. validity' = [validity EXCEPT ![i] = "valid"] /\ status' = "pending"
      BY <1>6, <2>3 DEF InsertNewConnection
    <3>4. Present' = {i} /\ InviteWith("valid")' = {i}
      BY <3>1, <3>2, <3>3 DEF Present, InviteWith, TypeOK
    <3>5. \A u \in Task : Opens(task[u])'
      BY <2>1, SlotMoves, IdleOpensNothing DEF Opens, Opening
    <3> HIDE DEF i
    <3> QED BY <2>1, <3>1, <3>3, <3>4, <3>5 DEF OpenInv
  <2> QED BY <2>2, <2>3
<1>7. CASE RereadInvites(t)
  <2> DEFINE next == [task[t] EXCEPT !.at = "purge", !.known = Present]
  <2>1. next.at = "purge" /\ next.known = Present /\ next.inv = task[t].inv
    BY <1>l DEF Local
  <2>2. Goto(t, next) /\ NoneOpened /\ task[t].at = "reread"
    BY <1>7, SameInvites DEF RereadInvites, At
  <2> HIDE DEF next
  <2>3. \A u \in Task : u = t /\ task'[u] = next
    BY <2>2, SlotMoves
  <2>4. \A u \in Task : Opens(task[u])'
    BY <1>l, <2>1, <2>2, <2>3 DEF Opens, NoneOpened
  <2> QED BY <2>2, <2>3, <2>4, OpenKept DEF NoneOpened, Purging
<1>8. CASE PurgeOob(t)
  <2>1. PICK i \in task[t].known :
          /\ oob' = [oob EXCEPT ![i] = IF @ = "sender" THEN "deleted" ELSE @]
          /\ Goto(t, [task[t] EXCEPT !.known = task[t].known \ {i},
                        !.at = IF task[t].known \ {i} = {} THEN "expire" ELSE "purge"])
    BY <1>8 DEF PurgeOob
  <2> DEFINE next == [task[t] EXCEPT !.known = task[t].known \ {i},
                        !.at = IF task[t].known \ {i} = {} THEN "expire" ELSE "purge"]
  <2>2. /\ next.at \in {"expire", "purge"} /\ next.inv = task[t].inv
        /\ next.known = task[t].known \ {i}
    BY <1>l DEF Local
  <2>3. /\ task[t].known \subseteq Present /\ task[t].inv \in Invite \ Present
        /\ oob[task[t].inv] \in {"sender", "receiver"}
    BY <1>8, <1>l DEF PurgeOob, At, Opens, Purging
  <2>4. Goto(t, next) /\ UNCHANGED <<validity, status>>
    BY <1>8, <2>1 DEF PurgeOob
  <2> HIDE DEF next
  <2>5. \A u \in Task : u = t /\ task'[u] = next
    BY <2>4, SlotMoves
  <2>6. Present' = Present /\ InviteWith("valid")' = InviteWith("valid")
    BY <2>4 DEF Present, InviteWith
  <2>7. /\ \A j \in Invite : j # i => oob'[j] = oob[j]
        /\ oob'[i] = oob[i] \/ oob'[i] = "deleted"
    BY <1>v, <2>1, <2>3 DEF TypeOK
  <2>8. oob'[task[t].inv] = oob[task[t].inv]
    BY <2>1, <2>3, <2>7
  <2>9. \A u \in Task : Opens(task[u])'
    BY <2>2, <2>3, <2>5, <2>6, <2>8 DEF Opens
  <2>10. \A j \in Present' : oob'[j] # "unused"
    BY <1>v, <2>6, <2>7 DEF OpenInv
  <2>11. next.at \in Purging
    BY <2>2 DEF Purging
  <2> QED BY <2>4, <2>5, <2>6, <2>9, <2>10, <2>11 DEF OpenInv
<1>9. CASE BeginReissue(t)
  <2> DEFINE next == [task[t] EXCEPT !.at = "commit", !.known = Present]
  <2>1. next.at = "commit" /\ next.known = Present /\ next.inv = task[t].inv
    BY <1>l DEF Local
  <2>2. Goto(t, next) /\ UNCHANGED <<validity, status, oob>> /\ task[t].at = "expire"
    BY <1>9 DEF BeginReissue, At
  <2> HIDE DEF next
  <2>3. \A u \in Task : u = t /\ task'[u] = next
    BY <2>2, SlotMoves
  <2>4. Present' = Present /\ InviteWith("valid")' = InviteWith("valid")
    BY <2>2 DEF Present, InviteWith
  <2>5. \A u \in Task : Opens(task[u])'
    BY <1>l, <2>1, <2>2, <2>3, <2>4 DEF Opens, Purging
  <2>6. next.at \in Purging
    BY <2>1 DEF Purging
  <2> QED BY <2>2, <2>3, <2>4, <2>5, <2>6 DEF OpenInv
<1>10. CASE CommitReissue(t)
  <2> DEFINE n == task[t].inv
             retired == InviteWith("used") \cup (InviteWith("valid") \cap task[t].known)
  <2>1. /\ n \in Invite \ Present /\ oob[n] \in {"sender", "receiver"}
        /\ task[t].known = Present
    BY <1>10, <1>l DEF CommitReissue, At, Opens, Purging
  <2>2. /\ validity' = [i \in Invite |-> IF i = n THEN "valid"
                          ELSE IF i \in retired THEN "expired" ELSE validity[i]]
        /\ status' = "pending" /\ oob' = oob /\ Goto(t, Idle)
    BY <1>10 DEF CommitReissue, Finish
  <2>3. InviteWith("valid") \subseteq retired
    BY <1>v, <2>1
  <2>4. retired \subseteq Present
    BY DEF InviteWith, Present
  <2> HIDE DEF n, retired
  <2>5. InviteWith("valid")' = {n}
    BY <2>1, <2>2, <2>3 DEF InviteWith
  <2>6. Present' = Present \cup {n}
    BY <2>1, <2>2, <2>4 DEF Present
  <2>7. \A u \in Task : Opens(task[u])'
    BY <2>2, SlotMoves, IdleOpensNothing DEF Opens, Opening
  <2> QED BY <2>1, <2>2, <2>5, <2>6, <2>7 DEF OpenInv
<1> QED
  BY <1>1, <1>2, <1>4, <1>5, <1>6, <1>7, <1>8, <1>9, <1>10 DEF NewConnectionStep

(* The handlers and the disconnect request open nothing. *)
LEMMA OpenHandlers ==
  ASSUME TypeOK, EvidenceInv, OpenInv, OneSlot, NEW t \in Task,
         Handle(t) \/ DisconnectConnection(t) \/ ConnectionStep(t) \/ CredentialStep(t)
  PROVE  OpenInv'
<1>l. task[t] \in Local /\ Opens(task[t])
  BY DEF TypeOK, TaskOK, OpenInv
<1>u. UseInvites => Present' = Present /\ InviteWith("valid")' \subseteq InviteWith("valid")
  BY DEF UseInvites, Present, InviteWith, TypeOK
<1> USE DEF row, invites, cloud
<1>1. CASE DisconnectConnection(t)
  <2> DEFINE next == [Idle EXCEPT !.at = "close", !.conn = agentId]
  <2>1. next.at \notin Opening
    BY DEF Idle, Opening, Purging
  <2>2. Goto(t, next) /\ NoneOpened /\ task[t].at \notin Purging
    BY <1>1, SameInvites DEF DisconnectConnection, At, Purging
  <2> HIDE DEF next
  <2> QED BY <2>1, <2>2, OpenLets
<1>2. CASE ConnectionStep(t)
  <2>1. NoneOpened
    <3>1. CASE UpdateConnection(t)
      BY <1>u, <3>1 DEF UpdateConnection, UpdateStatus, NoneOpened
    <3>2. CASE MarkUsed(t)
      BY <1>u, <3>2 DEF MarkUsed, NoneOpened
    <3>3. CASE MarkDisconnected(t)
      BY <3>3 DEF MarkDisconnected, NoneOpened, Present, InviteWith
    <3>4. CASE MissConnection(t) \/ CloseConnection(t)
      BY <3>4, SameInvites DEF MissConnection, CloseConnection
    <3> QED BY <1>2, <3>1, <3>2, <3>3, <3>4 DEF ConnectionStep
  <2>2. \/ Goto(t, Idle)
        \/ Goto(t, [task[t] EXCEPT !.at = "mark_used"])
        \/ Goto(t, [task[t] EXCEPT !.at = "mark"])
    BY <1>2 DEF ConnectionStep, UpdateConnection, MarkUsed, MarkDisconnected, MissConnection,
                CloseConnection, Finish
  <2>3. /\ [task[t] EXCEPT !.at = "mark_used"].at \notin Opening
        /\ [task[t] EXCEPT !.at = "mark"].at \notin Opening
    BY <1>l DEF Local, Opening, Purging
  <2>4. task[t].at \notin Purging
    BY <1>2 DEF ConnectionStep, UpdateConnection, MarkUsed, MarkDisconnected, MissConnection,
                CloseConnection, At, Purging
  <2> QED BY <2>1, <2>2, <2>3, <2>4, IdleOpensNothing, OpenLets
<1>3. CASE CredentialStep(t)
  <2>1. task[t].at \notin Purging
    BY <1>3, HandlerGoesOn DEF CredentialHandlerStep, Purging
  <2>2. CASE LockInvites(t) \/ ExpirePins(t)
    <3>1. task[t].known \subseteq Present \/ LockInvites(t)
      BY <1>l, <2>2 DEF ExpirePins, At, Opens
    <3>2. NoneOpened
      BY <2>2, <3>1 DEF LockInvites, ExpirePins, NoneOpened, Present, InviteWith, TypeOK
    <3>3. \/ Goto(t, [task[t] EXCEPT !.at = "reset"])
          \/ Goto(t, [task[t] EXCEPT !.at = "answer", !.known = {}])
      BY <2>2 DEF LockInvites, ExpirePins
    <3>4. /\ [task[t] EXCEPT !.at = "reset"].at \notin Opening
          /\ [task[t] EXCEPT !.at = "answer", !.known = {}].at \notin Opening
      BY <1>l DEF Local, Opening, Purging
    <3> QED BY <2>1, <3>2, <3>3, <3>4, OpenLets
  <2>3. CASE ComparePin(t)
    <3> DEFINE used == InviteWith("used")
               late == {i \in used : lapsed[i]}
               right == ExchangeOf(t).pin \in used \ late
               count == IF used = {} THEN 0 ELSE task[t].cnt
               step == IF late = {} THEN "answer" ELSE "expire_pins"
               next == [task[t] EXCEPT !.known = late, !.good = right,
                                       !.cnt = count, !.at = step]
    <3>1. Goto(t, next) /\ NoneOpened
      BY <2>3, SameInvites DEF ComparePin
    <3>2. next.at = step /\ next.known = late
      <4> HIDE DEF step, late, right, count
      <4> QED BY <1>l DEF Local
    <3>3. late \subseteq Present
      BY DEF InviteWith, Present
    <3>4. step \in {"answer", "expire_pins"}
      OBVIOUS
    <3> HIDE DEF next, step, late
    <3>5. \A u \in Task : u = t /\ task'[u] = next
      BY <3>1, SlotMoves
    <3>6. \A u \in Task : Opens(task[u])'
      BY <3>1, <3>2, <3>3, <3>4, <3>5 DEF Opens, Purging, NoneOpened
    <3> QED BY <2>1, <3>1, <3>5, <3>6, OpenKept DEF NoneOpened
  <2>4. CASE WriteDone(t)
    <3>1. status' # "none" /\ UNCHANGED <<validity, oob>> /\ Goto(t, Idle)
      BY <2>4 DEF WriteDone, At, EvidenceInv, TaskEvident, Finish
    <3>2. NoneOpened
      BY <3>1 DEF NoneOpened, Present, InviteWith
    <3> QED BY <2>1, <3>1, <3>2, IdleOpensNothing, OpenLets
  <2>5. CASE AcceptProposal(t) \/ SendProblemReport(t)
    BY <2>1, <2>5, SameInvites, IdleOpensNothing, OpenLets
       DEF AcceptProposal, SendProblemReport, Reject, Finish
  <2>6. CASE IncrementAttempts(t) \/ ResetAttempts(t)
    <3> DEFINE step == IF attempts' >= PinLimit THEN "lock" ELSE "compare"
               next == [task[t] EXCEPT !.cnt = PinTries - attempts', !.at = step]
               done == [task[t] EXCEPT !.at = "report"]
    <3>1. next.at \notin Opening /\ done.at \notin Opening
      <4>1. step \in {"lock", "compare"}
        OBVIOUS
      <4> HIDE DEF step
      <4> QED BY <1>l, <4>1 DEF Local, Opening, Purging
    <3>2. (Goto(t, next) \/ Goto(t, done)) /\ NoneOpened
      BY <2>6, SameInvites DEF IncrementAttempts, ResetAttempts
    <3> HIDE DEF next, done
    <3> QED BY <2>1, <3>1, <3>2, OpenLets
  <2> QED BY <1>3, <2>2, <2>3, <2>4, <2>5, <2>6 DEF CredentialStep
<1>4. CASE Handle(t)
  <2>1. PICK e \in events :
          \/ ConnectionStateChanged(t, e) \/ ConnectionDidRotated(t, e)
          \/ ProposalReceived(t, e) \/ ForwardExchange(t, e) \/ ExchangeDone(t, e)
          \/ ProblemReported(t, e)
    BY <1>4 DEF Handle
  <2>2. UNCHANGED <<validity, oob>> /\ status' \in {status, "disconnected"} /\ task[t].at = "idle"
    BY <2>1 DEF ConnectionStateChanged, ConnectionDidRotated, ProposalReceived,
                ForwardExchange, ExchangeDone, ProblemReported, At
  <2>3. NoneOpened /\ task[t].at \notin Purging
    BY <2>2 DEF NoneOpened, Present, InviteWith, Purging
  <2> DEFINE after == AfterDone(status, cred[e.id].role)
             a == [Idle EXCEPT !.at = "connection", !.ev = e, !.seen = status]
             b == [Idle EXCEPT !.at = "count", !.ev = e]
             c == [Idle EXCEPT !.at = "done", !.ev = e, !.seen = after]
  <2>4. task' = task \/ Goto(t, a) \/ Goto(t, b) \/ Goto(t, c)
    BY <2>1 DEF ConnectionStateChanged, ConnectionDidRotated, ProposalReceived,
                ForwardExchange, ExchangeDone, ProblemReported
  <2>5. a.at \notin Opening /\ b.at \notin Opening /\ c.at \notin Opening
    <3> HIDE DEF after
    <3> QED BY DEF Idle, Opening, Purging
  <2> HIDE DEF a, b, c
  <2> QED BY <2>3, <2>4, <2>5, OpenStill, OpenLets
<1> QED BY <1>1, <1>2, <1>3, <1>4

(* Every step. *)
LEMMA OpenNext ==
  ASSUME TypeOK, EvidenceInv, OpenInv, OneSlot, "fail" \notin Faults, "crash" \notin Faults,
         [Next]_vars
  PROVE  OpenInv'
<1> USE DEF row, invites, cloud
<1>1. CASE UserStep
  <2>1. ASSUME NEW k \in Cred, SubmitPinCode(k) PROVE OpenInv'
    BY <2>1, SameInvites, OpenStill DEF SubmitPinCode
  <2> QED BY <1>1, <2>1, OpenNewConnection, OpenHandlers DEF UserStep
<1>2. CASE PeerAct \/ AgentStep
  <2>1. UNCHANGED <<validity, oob, status, task>>
    BY <1>2 DEF PeerAct, AgentStep, PeerAccepts, PeerHangsUp, PeerProposes, PeerReports,
                AgentSettles, PeerAdvances
  <2> QED BY <2>1, SameInvites, OpenStill
<1>3. CASE Mishap
  <2>1. UNCHANGED <<validity, oob, status, task>>
    BY <1>3 DEF Mishap, InviteLapses, RequestFails, HandlerFails, SocketReconnects, Restart
  <2> QED BY <2>1, SameInvites, OpenStill
<1>4. ASSUME NEW t \in Task, Handle(t) \/ NodeStep(t) PROVE OpenInv'
  BY <1>4, OpenNewConnection, OpenHandlers DEF NodeStep
<1>5. CASE UNCHANGED vars
  BY <1>5, SameInvites, OpenStill DEF vars
<1> QED BY <1>1, <1>2, <1>3, <1>4, <1>5 DEF Next

LEMMA OpenInit == Init => OpenInv
<1> SUFFICES ASSUME Init PROVE OpenInv
  OBVIOUS
<1>1. Present = {} /\ InviteWith("valid") = {}
  BY DEF Init, Present, InviteWith
<1>2. \A t \in Task : Opens(task[t])
  BY IdleOpensNothing DEF Init, Opens, Opening
<1> QED BY <1>1, <1>2 DEF OpenInv

(* With one slot, and while no reissue is cut short by a failure or a restart,
   one invitation is valid between requests, and its record is still there. *)
THEOREM OneOpenInviteHolds ==
  ASSUME OneSlot, "fail" \notin Faults, "crash" \notin Faults
  PROVE  Spec => []OneOpenInvite
<1>1. TypeOK /\ EvidenceInv /\ OpenInv /\ [Next]_vars => OpenInv'
  BY OpenNext
<1>2. OpenInv => OneOpenInvite
  BY DEF OpenInv, OneOpenInvite, Resting, At, Purging
<1> QED
  BY <1>1, <1>2, TypeCorrect, EvidenceHolds, OpenInit, PTL DEF Spec

-----------------------------------------------------------------------------
(* Both sides verified (hypotheses: one slot, invitations of ours only, and    *)
(* neither a lost socket nor a restart, which forget a hangup and announce     *)
(* connections again that the row has left behind).                            *)

\* A handler works on an event; it is still to be handled, or being handled.
WorksOn(x, e) == x.at \in HandlerStep /\ x.ev = e
Coming(e) == e \in events \/ \E t \in Task : WorksOn(task[t], e)

\* The protocol of a connection has come to an end.
Begun(c) == agent[c].st \notin {"none", "requested"}

\* Until it has, nothing is heard of a connection.
Untold(c) == ~Begun(c) =>
    /\ agentId # c
    /\ \A st \in {"completed", "abandoned"} : ~Coming(ConnectionEvent(c, st))
    /\ \A k \in Cred : cred[k].conn # c

\* A connection whose completion is still to be heard of has no exchange that the
\* row could have taken up.
Fresh(c) == Coming(ConnectionEvent(c, "completed")) =>
    /\ agentId # c /\ ~Coming(ConnectionEvent(c, "abandoned"))
    /\ \A k \in Cred : cred[k].conn = c => cred[k].st = "proposal-received"

Live == status \notin {"none", "pending", "disconnected"}

\* An exchange over the row's connection that is done is in the row's status, or
\* about to be.
InStatus(k) == \/ cred[k].role = "issuer" /\ TheyAreVerified
               \/ cred[k].role = "holder" /\ WeAreVerified
Heeded(k) == Live /\ cred[k].st = "done" /\ OnRow(k) =>
    Coming(CredentialEvent(k, "done")) \/ InStatus(k)

OnTheRow(x) ==
    /\ x.at \in {"check", "create", "insert"} => x.conn = NoConn
    /\ x.at = "connection" => x.ev \notin events
    /\ x.at \in CredentialHandlerStep => OnRow(x.ev.id)

(* Why BothSidesVerified is inductive: no exchange is done before its connection
   is the row's, and from then on every completed exchange is announced. *)
HeededInv ==
    /\ \A c \in AgentConn : Untold(c) /\ Fresh(c)
    /\ \A k \in Cred : Heeded(k)
    /\ \A t \in Task : OnTheRow(task[t])
    /\ Live => agentId # NoConn

\* An exchange goes on over a connection the row knows, or has just begun.
Modest(k) ==
    \/ cred'[k] = cred[k]
    \/ /\ cred'[k].conn = cred[k].conn
       /\ cred[k].conn = agentId \/ cred[k].st # "proposal-received"
    \/ /\ cred'[k].conn \in AgentConn /\ Begun(cred'[k].conn)
       /\ cred'[k].conn = agentId \/ cred'[k].st = "proposal-received"

\* Its completion is announced until it is in the status.
Announced(k) ==
    /\ Live /\ Coming(CredentialEvent(k, "done")) /\ OnRow(k)
         => Coming(CredentialEvent(k, "done"))' \/ InStatus(k)
    /\ cred'[k].st = "done" /\ cred[k].st # "done" => Coming(CredentialEvent(k, "done"))'

BegunStays == \A c \in AgentConn : Begun(c) => Begun(c)'
NoneComes == \A c \in AgentConn, st \in {"completed", "abandoned"} :
    Coming(ConnectionEvent(c, st))' => Coming(ConnectionEvent(c, st))

(* What is known of connections stays so. *)
LEMMA ConnectionsKept ==
  ASSUME HeededInv, BegunStays, NoneComes, agentId' \in {agentId, NoConn},
         \A k \in Cred : Modest(k)
  PROVE  \A c \in AgentConn : Untold(c)' /\ Fresh(c)'
<1> SUFFICES ASSUME NEW c \in AgentConn PROVE Untold(c)' /\ Fresh(c)'
  OBVIOUS
<1>1. Untold(c) /\ Fresh(c) /\ c # NoConn
  BY NullsAreNotIds DEF HeededInv
<1>2. ASSUME ~Begun(c)' PROVE Untold(c)'
  <2>1. ~Begun(c)
    BY <1>2 DEF BegunStays
  <2>2. /\ agentId # c /\ \A k \in Cred : cred[k].conn # c
        /\ \A st \in {"completed", "abandoned"} : ~Coming(ConnectionEvent(c, st))
    BY <1>1, <2>1 DEF Untold
  <2>3. \A st \in {"completed", "abandoned"} : ~Coming(ConnectionEvent(c, st))'
    BY <2>2 DEF NoneComes
  <2>4. agentId' # c
    BY <1>1, <2>2
  <2>5. \A k \in Cred : cred'[k].conn # c
    BY <2>1, <2>2 DEF Modest
  <2> QED BY <2>3, <2>4, <2>5 DEF Untold
<1>3. ASSUME Coming(ConnectionEvent(c, "completed"))' PROVE Fresh(c)'
  <2>1. /\ agentId # c /\ ~Coming(ConnectionEvent(c, "abandoned"))
        /\ \A k \in Cred : cred[k].conn = c => cred[k].st = "proposal-received"
    BY <1>1, <1>3 DEF Fresh, NoneComes
  <2>2. ~Coming(ConnectionEvent(c, "abandoned"))' /\ agentId' # c
    BY <1>1, <2>1 DEF NoneComes
  <2>3. \A k \in Cred : cred'[k].conn = c => cred'[k].st = "proposal-received"
    BY <2>1 DEF Modest
  <2> QED BY <2>2, <2>3 DEF Fresh
<1>4. Untold(c)'
  BY <1>2 DEF Untold
<1> QED BY <1>3, <1>4 DEF Fresh

(* A completed exchange stays announced, or in the status. *)
LEMMA HeededStays ==
  ASSUME TypeOK, EvidenceInv, HeededInv, [Next]_vars, RowStays \/ ~Live',
         NEW k \in Cred, Announced(k)
  PROVE  Heeded(k)'
<1> SUFFICES ASSUME Live', cred'[k].st = "done", OnRow(k)'
             PROVE  Coming(CredentialEvent(k, "done"))' \/ InStatus(k)'
  BY DEF Heeded
<1>1. CASE cred[k].st # "done"
  BY <1>1 DEF Announced
<1>2. CASE cred[k].st = "done"
  <2>1. cred[k].role # "none"
    BY <1>2 DEF EvidenceInv, RolesOK
  <2>2. cred'[k].role = cred[k].role /\ cred'[k].conn = cred[k].conn
    BY <2>1, NothingTaken DEF KeptOver, Kept
  <2>3. Live /\ OnRow(k)
    BY <2>2 DEF RowStays, Live, OnRow
  <2>4. Coming(CredentialEvent(k, "done")) \/ InStatus(k)
    BY <1>2, <2>3 DEF HeededInv, Heeded
  <2>5. InStatus(k) => InStatus(k)'
    BY <2>2 DEF RowStays, InStatus, TheyAreVerified, WeAreVerified
  <2> QED BY <2>3, <2>4, <2>5 DEF Announced
<1> QED BY <1>1, <1>2

LEMMA HeededKept ==
  ASSUME TypeOK, EvidenceInv, HeededInv, [Next]_vars, BegunStays, NoneComes,
         RowStays \/ ~Live', agentId' \in {agentId, NoConn},
         \A k \in Cred : Modest(k) /\ Announced(k),
         \A t \in Task : OnTheRow(task[t])'
  PROVE  HeededInv'
<1>1. \A c \in AgentConn : Untold(c)' /\ Fresh(c)'
  BY ConnectionsKept
<1>2. \A k \in Cred : Heeded(k)'
  BY HeededStays
<1>3. Live' => agentId' # NoConn
  BY DEF HeededInv, RowStays, Live
<1> QED BY <1>1, <1>2, <1>3 DEF HeededInv

(* What a task that does not move knows of the row stays so. *)
LEMMA OnTheRowStays ==
  ASSUME TypeOK, EvidenceInv, [Next]_vars, NEW t \in Task, OnTheRow(task[t]),
         task'[t] = task[t], agentId' = agentId,
         task[t].at = "connection" => task[t].ev \notin events'
  PROVE  OnTheRow(task[t])'
<1>1. CASE task[t].at \in CredentialHandlerStep
  <2> DEFINE k == task[t].ev.id
  <2>1. k \in Cred /\ TaskEvident(task[t])
    BY <1>1, CredentialTask DEF EvidenceInv
  <2>2. cred[k].role # "none"
    BY <1>1, <2>1 DEF TaskEvident, EvidenceInv, RolesOK
  <2>3. cred'[k].conn = cred[k].conn
    BY <2>1, <2>2, NothingTaken DEF KeptOver
  <2>4. OnRow(k)'
    BY <1>1, <2>3 DEF OnTheRow, OnRow
  <2> QED BY <1>1, <2>4 DEF OnTheRow, CredentialHandlerStep
<1>2. CASE task[t].at \notin CredentialHandlerStep
  BY <1>2 DEF OnTheRow
<1> QED BY <1>1, <1>2

(* What comes, before and after a step. *)
LEMMA ComingStays ==
  ASSUME task' = task, NEW e, e \in events' <=> e \in events
  PROVE  Coming(e)' <=> Coming(e)
BY DEF Coming, WorksOn

LEMMA ComingGoes ==
  ASSUME TypeOK, OneSlot, NEW t \in Task, NEW next, Goto(t, next)
  PROVE  \A e : /\ Coming(e) <=> e \in events \/ WorksOn(task[t], e)
                /\ Coming(e)' <=> e \in events' \/ WorksOn(next, e)
<1>1. \A u \in Task : u = t /\ task'[u] = next
  BY SlotMoves
<1> QED BY <1>1 DEF Coming, WorksOn

LEMMA EventFields ==
  ASSUME NEW i, NEW s
  PROVE  /\ ConnectionEvent(i, s).of = "connection" /\ ConnectionEvent(i, s).st = s
         /\ ConnectionEvent(i, s).id = i
         /\ CredentialEvent(i, s).of = "credential" /\ CredentialEvent(i, s).st = s
         /\ CredentialEvent(i, s).id = i
         /\ RotationEvent(i).of = "rotation"
BY DEF ConnectionEvent, CredentialEvent, RotationEvent

LEMMA EventIs ==
  ASSUME NEW e \in Event, e.of = "connection"
  PROVE  /\ e.id \in AgentConn /\ e.st \in {"completed", "abandoned"}
         /\ e = ConnectionEvent(e.id, e.st)
BY DEF Event, ConnectionEvent

LEMMA SameExchanges ==
  ASSUME cred' = cred, NEW k \in Cred,
         Coming(CredentialEvent(k, "done")) => Coming(CredentialEvent(k, "done"))'
  PROVE  Modest(k) /\ Announced(k)
BY DEF Modest, Announced

(* A step of a request, or one that begins or ends it. *)
LEMMA HeededRequest ==
  ASSUME TypeOK, EvidenceInv, HeededInv, OneSlot, [Next]_vars,
         NEW t \in Task, NEW next, Goto(t, next),
         task[t].at \notin HandlerStep, next.at \notin HandlerStep,
         next.at \in {"check", "create", "insert"} => next.conn = NoConn,
         events' = events, cred' = cred, BegunStays,
         RowStays \/ ~Live', agentId' \in {agentId, NoConn}
  PROVE  HeededInv'
<1>1. \A e : Coming(e)' <=> Coming(e)
  BY ComingGoes DEF WorksOn
<1>2. NoneComes /\ \A k \in Cred : Modest(k) /\ Announced(k)
  BY <1>1, SameExchanges DEF NoneComes
<1>3. \A u \in Task : task'[u] = next
  BY SlotMoves
<1>4. \A u \in Task : OnTheRow(task[u])'
  BY <1>3 DEF OnTheRow, HandlerStep, ConnectionHandlerStep
<1> QED BY <1>2, <1>4, HeededKept

(* The requests. *)
LEMMA HeededNewConnection ==
  ASSUME TypeOK, EvidenceInv, HeededInv, OneSlot, "receiver" \notin Origins, [Next]_vars,
         NEW t \in Task,
         \/ SubmitNewInvite(t) \/ SubmitFromInvite(t) \/ RequestFails(t)
         \/ DisconnectConnection(t) \/ CloseConnection(t) \/ MarkDisconnected(t)
         \/ NewConnectionStep(t)
  PROVE  HeededInv'
<1>l. task[t] \in Local /\ OnTheRow(task[t])
  BY DEF TypeOK, TaskOK, HeededInv
<1>b. agent' = agent => BegunStays
  BY DEF BegunStays, Begun
<1>i. Idle.at = "idle" /\ Idle.at \notin HandlerStep
  BY DEF Idle, HandlerStep, ConnectionHandlerStep, CredentialHandlerStep
<1>a. task[t].at \in RequestStep \cup {"idle"} /\ task[t].at \notin HandlerStep
  BY DEF SubmitNewInvite, SubmitFromInvite, RequestFails, DisconnectConnection, CloseConnection,
         MarkDisconnected, NewConnectionStep, CheckInvites, CreateInvitation,
         InsertNewConnection, RereadInvites, PurgeOob, BeginReissue, CommitReissue, At,
         RequestStep, HandlerStep, ConnectionHandlerStep, CredentialHandlerStep
<1>s. ASSUME NEW next, Goto(t, next), next.at \in RequestStep \cup {"idle"},
             next.at \in {"check", "create", "insert"} => next.conn = NoConn,
             events' = events, cred' = cred, agent' = agent,
             RowStays \/ ~Live', agentId' \in {agentId, NoConn}
      PROVE  HeededInv'
  <2>1. next.at \notin HandlerStep
    BY <1>s DEF RequestStep, HandlerStep, ConnectionHandlerStep, CredentialHandlerStep
  <2> QED BY <1>a, <1>b, <1>s, <2>1, HeededRequest
<1>r. RowStays => agentId' \in {agentId, NoConn}
  BY DEF RowStays
<1> USE DEF row, invites, cloud
<1>1. CASE SubmitNewInvite(t)
  <2> DEFINE next == [Idle EXCEPT !.at = IF status = "none" THEN "create" ELSE "check",
                                  !.seen = status]
  <2>1. next.at \in {"check", "create"} /\ next.conn = NoConn
    BY DEF Idle
  <2>2. Goto(t, next) /\ RowStays /\ UNCHANGED <<events, cred, agent>>
    BY <1>1 DEF SubmitNewInvite, RowStays
  <2> HIDE DEF next
  <2> QED BY <1>s, <1>r, <2>1, <2>2 DEF RequestStep
<1>2. CASE SubmitFromInvite(t)
  BY <1>2 DEF SubmitFromInvite
<1>3. CASE RequestFails(t)
  BY <1>3, <1>s, <1>r, <1>i DEF RequestFails, Finish, RowStays
<1>4. CASE CheckInvites(t)
  <2> DEFINE next == [task[t] EXCEPT !.at = "create"]
  <2>1. next.at = "create" /\ next.conn = NoConn
    BY <1>4, <1>l DEF CheckInvites, At, OnTheRow, Local
  <2>2. (Goto(t, next) \/ Goto(t, Idle)) /\ RowStays /\ UNCHANGED <<events, cred, agent>>
    BY <1>4 DEF CheckInvites, Finish, RowStays
  <2> HIDE DEF next
  <2> QED BY <1>s, <1>r, <1>i, <2>1, <2>2 DEF RequestStep
<1>5. CASE CreateInvitation(t)
  <2>1. PICK i \in Invite :
          Goto(t, [task[t] EXCEPT !.inv = i,
                     !.at = IF task[t].seen = "none" THEN "insert" ELSE "reread"])
    BY <1>5 DEF CreateInvitation
  <2> DEFINE next == [task[t] EXCEPT !.inv = i,
                        !.at = IF task[t].seen = "none" THEN "insert" ELSE "reread"]
  <2>2. next.at \in {"insert", "reread"} /\ next.conn = NoConn
    BY <1>5, <1>l DEF CreateInvitation, At, OnTheRow, Local
  <2>3. Goto(t, next) /\ RowStays /\ UNCHANGED <<events, cred, agent>>
    BY <1>5, <2>1 DEF CreateInvitation, RowStays
  <2> HIDE DEF next
  <2> QED BY <1>s, <1>r, <2>2, <2>3 DEF RequestStep
<1>6. CASE InsertNewConnection(t)
  <2>1. task[t].conn = NoConn
    BY <1>6, <1>l DEF InsertNewConnection, At, OnTheRow
  <2>2. /\ Goto(t, Idle) /\ UNCHANGED <<events, cred, agent>>
        /\ \/ RowStays
           \/ status' = "pending" /\ agentId' = NoConn
    BY <1>6, <2>1 DEF InsertNewConnection, Finish, RowStays
  <2> QED BY <1>s, <1>r, <1>i, <2>2 DEF Live
<1>7. CASE RereadInvites(t)
  <2> DEFINE next == [task[t] EXCEPT !.at = "purge", !.known = Present]
  <2>1. next.at = "purge"
    BY <1>l DEF Local
  <2>2. Goto(t, next) /\ RowStays /\ UNCHANGED <<events, cred, agent>>
    BY <1>7 DEF RereadInvites, RowStays
  <2> HIDE DEF next
  <2> QED BY <1>s, <1>r, <2>1, <2>2 DEF RequestStep
<1>8. CASE PurgeOob(t)
  <2>1. PICK i \in task[t].known :
          Goto(t, [task[t] EXCEPT !.known = task[t].known \ {i},
                     !.at = IF task[t].known \ {i} = {} THEN "expire" ELSE "purge"])
    BY <1>8 DEF PurgeOob
  <2> DEFINE next == [task[t] EXCEPT !.known = task[t].known \ {i},
                        !.at = IF task[t].known \ {i} = {} THEN "expire" ELSE "purge"]
  <2>2. next.at \in {"expire", "purge"}
    BY <1>l DEF Local
  <2>3. Goto(t, next) /\ RowStays /\ UNCHANGED <<events, cred, agent>>
    BY <1>8, <2>1 DEF PurgeOob, RowStays
  <2> HIDE DEF next
  <2> QED BY <1>s, <1>r, <2>2, <2>3 DEF RequestStep
<1>9. CASE BeginReissue(t)
  <2> DEFINE next == [task[t] EXCEPT !.at = "commit", !.known = Present]
  <2>1. next.at = "commit"
    BY <1>l DEF Local
  <2>2. Goto(t, next) /\ RowStays /\ UNCHANGED <<events, cred, agent>>
    BY <1>9 DEF BeginReissue, RowStays
  <2> HIDE DEF next
  <2> QED BY <1>s, <1>r, <2>1, <2>2 DEF RequestStep
<1>10. CASE CommitReissue(t)
  <2>1. /\ Goto(t, Idle) /\ UNCHANGED <<events, cred, agent, agentId>>
        /\ status' = "pending"
    BY <1>10 DEF CommitReissue, Finish
  <2> QED BY <1>s, <1>i, <2>1 DEF Live
<1>11. CASE DisconnectConnection(t)
  <2> DEFINE next == [Idle EXCEPT !.at = "close", !.conn = agentId]
  <2>1. next.at = "close"
    BY DEF Idle
  <2>2. Goto(t, next) /\ RowStays /\ UNCHANGED <<events, cred, agent>>
    BY <1>11 DEF DisconnectConnection, RowStays
  <2> HIDE DEF next
  <2> QED BY <1>s, <1>r, <2>1, <2>2 DEF RequestStep
<1>12. CASE CloseConnection(t)
  <2> DEFINE next == [task[t] EXCEPT !.at = "mark"]
  <2>1. next.at = "mark" /\ next.at \notin HandlerStep
    BY <1>l DEF Local, HandlerStep, ConnectionHandlerStep, CredentialHandlerStep
  <2>2. (Goto(t, next) \/ Goto(t, Idle)) /\ RowStays /\ UNCHANGED <<events, cred>>
    BY <1>12 DEF CloseConnection, Finish, RowStays
  <2>3. BegunStays
    <3>1. agent' = agent \/ agent' = [agent EXCEPT ![task[t].conn].st = "deleted"]
      BY <1>12 DEF CloseConnection
    <3>2. \A c \in AgentConn : agent'[c].st \in {agent[c].st, "deleted"}
      BY <3>1 DEF TypeOK, Agent
    <3> QED BY <3>2 DEF BegunStays, Begun
  <2> HIDE DEF next
  <2> QED BY <1>a, <1>r, <1>i, <2>1, <2>2, <2>3, HeededRequest
<1>13. CASE MarkDisconnected(t)
  <2>1. /\ Goto(t, Idle) /\ UNCHANGED <<events, cred, agent, agentId>>
        /\ status' = "disconnected"
    BY <1>13 DEF MarkDisconnected, Finish
  <2> QED BY <1>s, <1>i, <2>1 DEF Live
<1> QED
  BY <1>1, <1>2, <1>3, <1>4, <1>5, <1>6, <1>7, <1>8, <1>9, <1>10, <1>11, <1>12, <1>13
     DEF NewConnectionStep


LEMMA CredentialEventIs ==
  ASSUME NEW e \in Event, e.of = "credential"
  PROVE  e.id \in Cred /\ e = CredentialEvent(e.id, e.st)
BY DEF Event, CredentialEvent

(* One exchange goes on. *)
LEMMA MovesModest ==
  ASSUME TypeOK, NEW k \in Cred, Moves(k),
         cred[k].conn = agentId \/ cred[k].st # "proposal-received",
         cred'[k].st = "done" => cred[k].st = "done" \/ Coming(CredentialEvent(k, "done"))',
         \A j \in Cred : Coming(CredentialEvent(j, "done")) => Coming(CredentialEvent(j, "done"))'
  PROVE  \A j \in Cred : Modest(j) /\ Announced(j)
<1>1. /\ \A j \in Cred : j # k => cred'[j] = cred[j]
      /\ cred'[k].conn = cred[k].conn
  BY DEF Moves, TypeOK, Exchange
<1> QED BY <1>1 DEF Modest, Announced

LEMMA IdleComing ==
  ASSUME OneSlot, NEW t \in Task, At(t, "idle")
  PROVE  /\ \A e : Coming(e) <=> e \in events
         /\ task' = task => \A e : Coming(e)' <=> e \in events'
BY DEF OneSlot, At, Coming, WorksOn, HandlerStep, ConnectionHandlerStep, CredentialHandlerStep

(* A notification reaches its handler, which goes on with it or ends at once. *)
LEMMA HeededNotice ==
  ASSUME TypeOK, EvidenceInv, HeededInv, OneSlot, [Next]_vars, NEW t \in Task, NEW e \in events,
         At(t, "idle"), events' = events \ {e}, cred' = cred, agent' = agent,
         agentId' = agentId, RowStays \/ ~Live', NEW next, next.ev = e, next.at \in HandlerStep,
         task' = task \/ (Goto(t, next) /\ OnTheRow(task[t])'),
         \/ e.of # "credential" \/ e.st # "done"
         \/ Goto(t, next) \/ ~Live \/ ~OnRow(e.id) \/ InStatus(e.id)
  PROVE  HeededInv'
<1>1. \A x : Coming(x) <=> x \in events
  BY IdleComing
<1>2. \A x : Coming(x)' => Coming(x)
  <2>1. CASE task' = task
    BY <1>1, <2>1, IdleComing
  <2>2. CASE Goto(t, next)
    BY <1>1, <2>2, ComingGoes DEF WorksOn
  <2> QED BY <2>1, <2>2
<1>3. \A x : Coming(x) /\ x # e => Coming(x)'
  BY <1>1 DEF Coming
<1>4. Goto(t, next) => Coming(e)'
  BY ComingGoes DEF WorksOn
<1>5. ASSUME NEW k \in Cred PROVE Modest(k) /\ Announced(k)
  <2>1. CASE e # CredentialEvent(k, "done")
    BY <1>3, <2>1, SameExchanges
  <2>2. CASE e = CredentialEvent(k, "done")
    <3>1. e.of = "credential" /\ e.st = "done" /\ e.id = k
      BY <2>2, EventFields
    <3>2. Coming(e)' \/ ~Live \/ ~OnRow(k) \/ InStatus(k)
      BY <1>4, <3>1
    <3> QED BY <2>2, <3>2 DEF Modest, Announced
  <2> QED BY <2>1, <2>2
<1>6. NoneComes /\ BegunStays
  BY <1>2 DEF NoneComes, BegunStays, Begun
<1>7. \A u \in Task : OnTheRow(task[u])'
  <2>1. CASE task' = task
    BY <2>1 DEF OneSlot, At, OnTheRow, CredentialHandlerStep
  <2>2. CASE Goto(t, next) /\ OnTheRow(task[t])'
    BY <2>2 DEF OneSlot
  <2> QED BY <2>1, <2>2
<1> QED BY <1>5, <1>6, <1>7, HeededKept

(* The handlers read a notification. *)
LEMMA HeededHandle ==
  ASSUME TypeOK, EvidenceInv, HeededInv, OneSlot, [Next]_vars, NEW t \in Task, Handle(t)
  PROVE  HeededInv'
<1> USE DEF row, invites, cloud
<1> SUFFICES ASSUME NEW e \in events,
               \/ ConnectionStateChanged(t, e) \/ ConnectionDidRotated(t, e)
               \/ ProposalReceived(t, e) \/ ForwardExchange(t, e) \/ ExchangeDone(t, e)
               \/ ProblemReported(t, e)
             PROVE  HeededInv'
  BY DEF Handle
<1>e. e \in Event /\ status \in ConnectionStatus
  BY DEF TypeOK
<1>h. {"connection", "count", "done"} \subseteq HandlerStep
  BY DEF HandlerStep, ConnectionHandlerStep, CredentialHandlerStep
<1>1. CASE ConnectionStateChanged(t, e)
  <2> DEFINE next == [Idle EXCEPT !.at = "connection", !.ev = e, !.seen = status]
  <2>1. next.at = "connection" /\ next.ev = e
    BY DEF Idle
  <2>2. /\ At(t, "idle") /\ e.of = "connection" /\ events' = events \ {e}
        /\ task' = task \/ Goto(t, next)
        /\ RowStays /\ UNCHANGED <<cred, agent, agentId>>
    BY <1>1 DEF ConnectionStateChanged, RowStays
  <2> HIDE DEF next
  <2>3. Goto(t, next) => OnTheRow(task[t])'
    <3> SUFFICES ASSUME Goto(t, next) PROVE OnTheRow(task[t])'
      OBVIOUS
    <3>1. task'[t] = next
      BY SlotMoves
    <3> QED BY <2>1, <2>2, <3>1 DEF OnTheRow, CredentialHandlerStep
  <2> QED BY <1>h, <2>1, <2>2, <2>3, HeededNotice
<1>2. CASE ConnectionDidRotated(t, e)
  <2> DEFINE next == [Idle EXCEPT !.at = "connection", !.ev = e]
  <2>1. next.at = "connection" /\ next.ev = e
    BY DEF Idle
  <2>2. /\ At(t, "idle") /\ e.of = "rotation" /\ events' = events \ {e}
        /\ task' = task /\ status' \in {status, "disconnected"}
        /\ UNCHANGED <<cred, agent, agentId>>
    BY <1>2 DEF ConnectionDidRotated
  <2> HIDE DEF next
  <2> QED BY <1>h, <2>1, <2>2, HeededNotice DEF RowStays, Live
<1>3. CASE ProposalReceived(t, e)
  <2> DEFINE next == [Idle EXCEPT !.at = "count", !.ev = e]
  <2>1. next.at = "count" /\ next.ev = e
    BY DEF Idle
  <2>2. /\ At(t, "idle") /\ e.st = "proposal-received" /\ events' = events \ {e}
        /\ task' = task \/ Goto(t, next)
        /\ OnRow(e.id) /\ RowStays /\ UNCHANGED <<cred, agent, agentId>>
    BY <1>3 DEF ProposalReceived, RowStays
  <2> HIDE DEF next
  <2>3. Goto(t, next) => OnTheRow(task[t])'
    <3> SUFFICES ASSUME Goto(t, next) PROVE OnTheRow(task[t])'
      OBVIOUS
    <3>1. task'[t] = next
      BY SlotMoves
    <3>2. OnRow(e.id)'
      BY <2>2 DEF OnRow
    <3> QED BY <2>1, <3>1, <3>2 DEF OnTheRow
  <2> QED BY <1>h, <2>1, <2>2, <2>3, HeededNotice
<1>4. CASE ForwardExchange(t, e)
  <2> DEFINE k == e.id
  <2>1. /\ At(t, "idle") /\ e.of = "credential" /\ task' = task
        /\ e.st \in {"offer-received", "request-received", "credential-received"}
        /\ RowStays /\ UNCHANGED <<agent, agentId>>
    BY <1>4 DEF ForwardExchange, Onward, RowStays
  <2>2. CASE cred' = cred /\ events' = events \ {e}
    <3> DEFINE next == [Idle EXCEPT !.at = "count", !.ev = e]
    <3>1. next.at = "count" /\ next.ev = e
      BY DEF Idle
    <3> HIDE DEF next
    <3> QED BY <1>h, <2>1, <2>2, <3>1, HeededNotice
  <2>3. CASE /\ Moves(k) /\ cred[k].st = e.st
             /\ events' = (events \ {e}) \cup
                  (IF cred'[k].st = "done" THEN {CredentialEvent(k, "done")} ELSE {})
    <3>1. /\ \A x : Coming(x) <=> x \in events
          /\ \A x : Coming(x)' <=> x \in events'
      BY <2>1, IdleComing
    <3>2. k \in Cred
      BY <1>e, <2>1, CredentialEventIs
    <3>3. \A j \in Cred : Coming(CredentialEvent(j, "done")) => Coming(CredentialEvent(j, "done"))'
      BY <2>1, <2>3, <3>1, EventFields
    <3>4. cred'[k].st = "done" => Coming(CredentialEvent(k, "done"))'
      BY <2>3, <3>1
    <3>5. \A j \in Cred : Modest(j) /\ Announced(j)
      BY <2>1, <2>3, <3>2, <3>3, <3>4, MovesModest
    <3>6. NoneComes
      BY <2>3, <3>1, EventFields DEF NoneComes
    <3>7. BegunStays
      BY <2>1 DEF BegunStays, Begun
    <3>8. \A u \in Task : OnTheRow(task[u])'
      BY <2>1 DEF OneSlot, At, OnTheRow, CredentialHandlerStep
    <3> QED BY <2>1, <3>5, <3>6, <3>7, <3>8, HeededKept
  <2> QED BY <1>4, <2>1, <2>2, <2>3, ForwardMoves
<1>5. CASE ExchangeDone(t, e)
  <2> DEFINE after == AfterDone(status, cred[e.id].role)
             next == [Idle EXCEPT !.at = "done", !.ev = e, !.seen = after]
  <2>1. next.at = "done" /\ next.ev = e
    <3> HIDE DEF after
    <3> QED BY DEF Idle
  <2>2. /\ At(t, "idle") /\ e.of = "credential" /\ e.st = "done" /\ events' = events \ {e}
        /\ \/ task' = task /\ (~OnRow(e.id) \/ after = status)
           \/ Goto(t, next) /\ OnRow(e.id)
        /\ RowStays /\ UNCHANGED <<cred, agent, agentId>>
    BY <1>5 DEF ExchangeDone, RowStays
  <2>3. ASSUME after = status, Live PROVE InStatus(e.id)
    <3>1. e.id \in Cred /\ cred[e.id].st = "done"
      BY <2>2, <1>e, CredentialEventIs DEF EvidenceInv, DoneIsDone
    <3>2. cred[e.id].role \in {"issuer", "holder"}
      BY <3>1 DEF EvidenceInv, RolesOK
    <3>3. status \in {"unverified", "verified_them", "verified_us", "verified_both"}
      BY <1>e, <2>3 DEF Live, ConnectionStatus
    <3> QED BY <2>3, <3>2, <3>3 DEF AfterDone, InStatus, TheyAreVerified, WeAreVerified
  <2>4. Goto(t, next) /\ OnRow(e.id) => OnTheRow(task[t])'
    <3> HIDE DEF next
    <3> SUFFICES ASSUME Goto(t, next), OnRow(e.id) PROVE OnTheRow(task[t])'
      OBVIOUS
    <3>1. task'[t] = next
      BY SlotMoves
    <3>2. OnRow(e.id)'
      BY <2>2 DEF OnRow
    <3> QED BY <2>1, <3>1, <3>2 DEF OnTheRow
  <2> HIDE DEF next, after
  <2> QED BY <1>h, <2>1, <2>2, <2>3, <2>4, HeededNotice
<1>6. CASE ProblemReported(t, e)
  <2> DEFINE next == [Idle EXCEPT !.at = "count", !.ev = e]
  <2>1. next.at = "count" /\ next.ev = e
    BY DEF Idle
  <2>2. /\ At(t, "idle") /\ e.st = "abandoned" /\ events' = events \ {e}
        /\ task' = task /\ RowStays /\ UNCHANGED <<cred, agent, agentId>>
    BY <1>6 DEF ProblemReported, RowStays
  <2> HIDE DEF next
  <2> QED BY <1>h, <2>1, <2>2, HeededNotice
<1> QED BY <1>1, <1>2, <1>3, <1>4, <1>5, <1>6

(* The connection is the row's from now on: its completion is not heard again. *)
LEMMA HeededConnection ==
  ASSUME TypeOK, HeededInv, CurrentInv, OneSlot, NEW t \in Task,
         UpdateConnection(t) \/ MissConnection(t) \/ MarkUsed(t)
  PROVE  HeededInv'
<1> USE DEF row, invites, cloud
<1>1. UpdateConnection(t)
  BY DEF CurrentInv, Current, MissConnection, MarkUsed, At
<1> DEFINE c == task[t].ev.id
           st == task[t].ev.st
           e == task[t].ev
<1>2. /\ e \in Event /\ e.of = "connection" /\ e \notin events
  BY <1>1 DEF UpdateConnection, At, TypeOK, TaskOK, Started, HandlerStep, ConnectionHandlerStep,
              HeededInv, OnTheRow
<1>3. c \in AgentConn /\ st \in {"completed", "abandoned"} /\ e = ConnectionEvent(c, st)
  BY <1>2, EventIs
<1>4. /\ Goto(t, Idle) /\ agentId' = c /\ UNCHANGED <<agent, cred, events>>
      /\ status' = IF st = "completed" THEN "unverified" ELSE "disconnected"
  BY <1>1 DEF UpdateConnection, UpdateStatus, Finish
<1> HIDE DEF c, st, e
<1>5. Coming(ConnectionEvent(c, st))
  BY <1>1, <1>3 DEF UpdateConnection, At, Coming, WorksOn, HandlerStep, ConnectionHandlerStep, e
<1>6. \A x : Coming(x)' => Coming(x) /\ x \in events
  <2>1. \A x : Coming(x)' <=> x \in events' \/ WorksOn(Idle, x)
    BY <1>4, ComingGoes
  <2>2. \A x : ~WorksOn(Idle, x)
    BY DEF WorksOn, Idle, HandlerStep, ConnectionHandlerStep, CredentialHandlerStep
  <2> QED BY <1>4, <2>1, <2>2 DEF Coming
<1>7. Begun(c)
  BY <1>3, <1>5 DEF HeededInv, Untold
<1>8. ASSUME NEW d \in AgentConn PROVE Untold(d)'
  <2>1. Untold(d)
    BY DEF HeededInv
  <2>2. ~Begun(d)' => ~Begun(d) /\ d # c
    BY <1>4, <1>7 DEF Begun
  <2> QED BY <1>4, <1>6, <2>1, <2>2 DEF Untold
<1>9. ASSUME NEW d \in AgentConn PROVE Fresh(d)'
  <2> SUFFICES ASSUME Coming(ConnectionEvent(d, "completed"))' PROVE Fresh(d)'
    BY DEF Fresh
  <2>1. Coming(ConnectionEvent(d, "completed")) /\ ConnectionEvent(d, "completed") \in events
    BY <1>6
  <2>2. /\ ~Coming(ConnectionEvent(d, "abandoned"))
        /\ \A k \in Cred : cred[k].conn = d => cred[k].st = "proposal-received"
    BY <2>1 DEF HeededInv, Fresh
  <2>3. d # c
    BY <1>2, <1>3, <1>5, <2>1, <2>2
  <2> QED BY <1>4, <1>6, <2>2, <2>3 DEF Fresh
<1>10. ASSUME NEW k \in Cred PROVE Heeded(k)'
  <2>1. CASE st = "completed"
    <3>1. cred[k].conn = c => cred[k].st = "proposal-received"
      BY <1>3, <1>5, <2>1 DEF HeededInv, Fresh
    <3> QED BY <1>4, <3>1 DEF Heeded, OnRow
  <2>2. CASE st = "abandoned"
    BY <1>4, <2>2 DEF Heeded, Live
  <2> QED BY <1>3, <2>1, <2>2
<1>11. \A u \in Task : OnTheRow(task[u])'
  BY <1>4, SlotMoves DEF OnTheRow, Idle, CredentialHandlerStep
<1>12. agentId' # NoConn
  BY <1>3, <1>4, NullsAreNotIds
<1> QED BY <1>8, <1>9, <1>10, <1>11, <1>12 DEF HeededInv

(* The handlers of proposals and of completed exchanges. *)
LEMMA HeededCredential ==
  ASSUME TypeOK, EvidenceInv, HeededInv, CurrentInv, OneSlot, [Next]_vars, NEW t \in Task,
         CredentialStep(t)
  PROVE  HeededInv'
<1> USE DEF row, invites, cloud
<1>1. task[t].at \in CredentialHandlerStep /\ GoesOn(t)
  BY HandlerGoesOn
<1>e. PICK e \in Event : e = task[t].ev /\ e.of = "credential" /\ e.id \in Cred
  BY <1>1, CredentialTask
<1>k. PICK k \in Cred : k = e.id
  BY <1>e
<1>2. OnRow(k) /\ TaskEvident(task[t])
  BY <1>1, <1>e, <1>k DEF HeededInv, OnTheRow, EvidenceInv
<1>3. PICK next : /\ Goto(t, next)
                  /\ \/ next = Idle
                     \/ next.at \in CredentialHandlerStep \ {"done"} /\ next.ev = e
  BY <1>1, <1>e DEF GoesOn
<1>4. agent' = agent /\ agentId' = agentId /\ BegunStays
  BY DEF CredentialStep, IncrementAttempts, LockInvites, ResetAttempts, ComparePin,
         ExpirePins, AcceptProposal, SendProblemReport, WriteDone, BegunStays, Begun
<1>5. events \subseteq events' /\ events' \subseteq events \cup {e}
  BY <1>e DEF CredentialStep, IncrementAttempts, LockInvites, ResetAttempts, ComparePin,
         ExpirePins, AcceptProposal, SendProblemReport, WriteDone, Reject
<1>6. /\ \A x : Coming(x) <=> x \in events \/ WorksOn(task[t], x)
      /\ \A x : Coming(x)' <=> x \in events' \/ WorksOn(next, x)
  BY <1>3, ComingGoes
<1>7. WorksOn(task[t], e) /\ \A x : WorksOn(task[t], x) \/ WorksOn(next, x) => x = e
  BY <1>1, <1>e, <1>3 DEF WorksOn, HandlerStep, Idle, ConnectionHandlerStep, CredentialHandlerStep
<1>8. NoneComes
  BY <1>e, <1>5, <1>6, <1>7, EventFields DEF NoneComes
<1>9. cred'[k].conn = cred[k].conn => \A u \in Task : OnTheRow(task[u])'
  <2> SUFFICES ASSUME cred'[k].conn = cred[k].conn PROVE \A u \in Task : OnTheRow(task[u])'
    OBVIOUS
  <2>1. OnRow(k)'
    BY <1>2, <1>4 DEF OnRow
  <2>2. \A u \in Task : task'[u] = next
    BY <1>3, SlotMoves
  <2>3. next = Idle => next.at = "idle"
    BY DEF Idle
  <2> QED BY <1>e, <1>k, <1>3, <2>1, <2>2, <2>3 DEF OnTheRow, CredentialHandlerStep
<1>10. CASE task[t].at # "done"
  <2>1. e.st = "proposal-received"
    BY <1>1, <1>2, <1>e, <1>10 DEF TaskEvident
  <2>2. ASSUME NEW j \in Cred, Coming(CredentialEvent(j, "done"))
        PROVE  Coming(CredentialEvent(j, "done"))'
    BY <1>5, <1>6, <1>7, <2>1, <2>2, EventFields
  <2>3. RowStays
    BY <1>10 DEF CredentialStep, IncrementAttempts, LockInvites, ResetAttempts, ComparePin,
                 ExpirePins, AcceptProposal, SendProblemReport, WriteDone, At, RowStays
  <2>4. cred' = cred \/ (Moves(k) /\ (cred'[k].st = "done" => cred[k].st = "done"))
    <3>1. CASE AcceptProposal(t) \/ SendProblemReport(t)
      BY <1>e, <1>k, <3>1, NodeMoves
    <3>2. CASE ~(AcceptProposal(t) \/ SendProblemReport(t))
      BY <3>2 DEF CredentialStep, IncrementAttempts, LockInvites, ResetAttempts, ComparePin,
                  ExpirePins, WriteDone
    <3> QED BY <3>1, <3>2
  <2>5. cred[k].conn = agentId
    BY <1>2 DEF OnRow
  <2>6. \A j \in Cred : Modest(j) /\ Announced(j)
    <3>1. CASE cred' = cred
      BY <2>2, <3>1, SameExchanges
    <3>2. CASE Moves(k) /\ (cred'[k].st = "done" => cred[k].st = "done")
      BY <1>2, <2>2, <2>5, <3>2, MovesModest
    <3> QED BY <2>4, <3>1, <3>2
  <2>7. cred'[k].conn = cred[k].conn
    BY <1>2, <2>4, MovesKeeps DEF Moves, TypeOK, Exchange
  <2> QED BY <1>4, <1>8, <1>9, <2>3, <2>6, <2>7, HeededKept
<1>11. CASE task[t].at = "done"
  <2>1. WriteDone(t) /\ e.st = "done" /\ cred[k].st = "done"
    BY <1>2, <1>e, <1>k, <1>11 DEF CredentialStep, IncrementAttempts, LockInvites, ResetAttempts, ComparePin,
                 ExpirePins, AcceptProposal, SendProblemReport, WriteDone, At, TaskEvident
  <2>2. /\ cred' = cred /\ events' = events
        /\ status' = AfterDone(status, cred[k].role) /\ status' # status
    BY <1>e, <1>k, <1>11, <2>1 DEF WriteDone, At, CurrentInv, Current
  <2>3. cred[k].role \in {"issuer", "holder"}
    BY <1>2, <2>1 DEF EvidenceInv, RolesOK
  <2>4. \/ status = "unverified" /\ cred[k].role = "holder" /\ status' = "verified_us"
        \/ status = "unverified" /\ cred[k].role = "issuer" /\ status' = "verified_them"
        \/ status = "verified_them" /\ cred[k].role = "holder" /\ status' = "verified_both"
        \/ status = "verified_us" /\ cred[k].role = "issuer" /\ status' = "verified_both"
    BY <2>2, <2>3 DEF AfterDone
  <2>5. ASSUME NEW j \in Cred PROVE Heeded(j)'
    <3> SUFFICES ASSUME cred[j].st = "done", OnRow(j)
                 PROVE  Coming(CredentialEvent(j, "done"))' \/ InStatus(j)'
      BY <1>4, <2>2 DEF Heeded, OnRow
    <3>1. CASE j = k
      BY <2>2, <2>4, <3>1 DEF InStatus, TheyAreVerified, WeAreVerified
    <3>2. CASE j # k /\ Coming(CredentialEvent(j, "done"))
      BY <1>e, <1>k, <1>5, <1>6, <1>7, <3>2, EventFields
    <3>3. CASE InStatus(j)
      BY <2>2, <2>4, <3>3 DEF InStatus, TheyAreVerified, WeAreVerified
    <3>4. Live
      BY <2>4 DEF Live
    <3> QED BY <3>1, <3>2, <3>3, <3>4 DEF HeededInv, Heeded
  <2>6. \A j \in Cred : Modest(j)
    BY <2>2 DEF Modest
  <2>7. \A c \in AgentConn : Untold(c)' /\ Fresh(c)'
    BY <1>4, <1>8, <2>6, ConnectionsKept
  <2>8. \A u \in Task : OnTheRow(task[u])'
    BY <1>9, <2>2
  <2>9. agentId' # NoConn
    BY <1>4, <2>4 DEF HeededInv, Live
  <2> QED BY <2>5, <2>7, <2>8, <2>9 DEF HeededInv
<1> QED BY <1>10, <1>11

(* A step outside the node, which leaves the row and the tasks alone and says nothing
   of a connection. *)
LEMMA HeededStill ==
  ASSUME TypeOK, EvidenceInv, HeededInv, [Next]_vars, RowStays, task' = task, BegunStays,
         events \subseteq events',
         \A x \in events' : x \in events \/ x.of # "connection",
         \A k \in Cred : Modest(k) /\ Announced(k)
  PROVE  HeededInv'
<1>1. ASSUME NEW x, Coming(x)' PROVE Coming(x) \/ x.of # "connection"
  BY <1>1 DEF Coming, WorksOn
<1>2. NoneComes
  BY <1>1, EventFields DEF NoneComes
<1>3. ASSUME NEW u \in Task PROVE OnTheRow(task[u])'
  <2>1. OnTheRow(task[u])
    BY DEF HeededInv
  <2>2. task[u].at = "connection" => task[u].ev \in Event /\ task[u].ev.of = "connection"
    BY DEF TypeOK, TaskOK, Started, HandlerStep, ConnectionHandlerStep
  <2>3. task[u].at = "connection" => task[u].ev \notin events'
    BY <2>1, <2>2 DEF OnTheRow
  <2> QED BY <2>1, <2>3, OnTheRowStays DEF RowStays
<1> QED BY <1>2, <1>3, HeededKept DEF RowStays

\* Nothing that comes is taken away.
LEMMA StillComing ==
  ASSUME task' = task, events \subseteq events'
  PROVE  \A x : (Coming(x) => Coming(x)') /\ (x \in events' => Coming(x)')
BY DEF Coming, WorksOn

(* The end of a connection's protocol is heard of for the first time. *)
LEMMA HeededSettles ==
  ASSUME TypeOK, EvidenceInv, HeededInv, [Next]_vars,
         NEW c \in AgentConn, NEW st \in {"completed", "abandoned"}, AgentSettles(c, st)
  PROVE  HeededInv'
<1> USE DEF row, invites, cloud
<1>1. /\ agent[c].st = "requested" /\ agent' = [agent EXCEPT ![c].st = st]
      /\ events' = events \cup {ConnectionEvent(c, st)}
      /\ task' = task /\ RowStays /\ UNCHANGED <<cred, agentId>>
  BY DEF AgentSettles, RowStays
<1>2. /\ agent'[c].st = st
      /\ \A d \in AgentConn : d # c => agent'[d] = agent[d]
  BY <1>1 DEF TypeOK, Agent
<1>3. /\ agentId # c /\ \A k \in Cred : cred[k].conn # c
      /\ \A s \in {"completed", "abandoned"} : ~Coming(ConnectionEvent(c, s))
  BY <1>1 DEF HeededInv, Untold, Begun
<1>4. \A x : Coming(x)' <=> Coming(x) \/ x = ConnectionEvent(c, st)
  BY <1>1 DEF Coming, WorksOn
<1>5. ASSUME NEW d \in AgentConn PROVE Untold(d)' /\ Fresh(d)'
  <2>1. CASE d = c
    <3>1. Begun(c)'
      BY <1>2 DEF Begun
    <3>2. ~(Coming(ConnectionEvent(c, "completed"))' /\ Coming(ConnectionEvent(c, "abandoned"))')
      BY <1>3, <1>4, EventFields
    <3> QED BY <1>1, <1>3, <2>1, <3>1, <3>2 DEF Untold, Fresh
  <2>2. CASE d # c
    <3>1. \A s \in {"completed", "abandoned"} :
            Coming(ConnectionEvent(d, s))' <=> Coming(ConnectionEvent(d, s))
      BY <1>4, <2>2, EventFields
    <3>2. Begun(d)' <=> Begun(d)
      BY <1>2, <2>2 DEF Begun
    <3>3. Untold(d) /\ Fresh(d)
      BY DEF HeededInv
    <3> QED BY <1>1, <3>1, <3>2, <3>3 DEF Untold, Fresh
  <2> QED BY <2>1, <2>2
<1>6. ASSUME NEW k \in Cred PROVE Heeded(k)'
  <2>1. Announced(k)
    BY <1>1, <1>4 DEF Announced
  <2> QED BY <1>1, <2>1, HeededStays
<1>7. ASSUME NEW u \in Task PROVE OnTheRow(task[u])'
  <2>1. OnTheRow(task[u])
    BY DEF HeededInv
  <2>2. ASSUME task[u].at = "connection" PROVE task[u].ev \notin events'
    <3>1. Coming(task[u].ev) /\ task[u].ev \notin events
      BY <2>1, <2>2 DEF Coming, WorksOn, HandlerStep, ConnectionHandlerStep, OnTheRow
    <3> QED BY <1>1, <1>3, <3>1
  <2> QED BY <1>1, <2>1, <2>2, OnTheRowStays
<1>8. Live' => agentId' # NoConn
  BY <1>1 DEF HeededInv, RowStays, Live
<1> QED BY <1>5, <1>6, <1>7, <1>8 DEF HeededInv

(* The cloudagent and the peer, and the page that submits our PIN. *)
LEMMA HeededCloud ==
  ASSUME TypeOK, EvidenceInv, HeededInv, [Next]_vars,
         PeerAct \/ AgentStep \/ \E k \in Cred : SubmitPinCode(k)
  PROVE  HeededInv'
<1> USE DEF row, invites, cloud
<1>b. agent' = agent => BegunStays
  BY DEF BegunStays, Begun
<1>1. ASSUME NEW i \in Invite, NEW c \in AgentConn, PeerAccepts(i, c) PROVE HeededInv'
  <2>1. /\ agent[c].st = "none" /\ agent' = [agent EXCEPT ![c] = [st |-> "requested", oob |-> i]]
        /\ RowStays /\ task' = task /\ events' = events /\ cred' = cred
    BY <1>1 DEF PeerAccepts, RowStays
  <2>2. BegunStays
    BY <2>1 DEF BegunStays, Begun, TypeOK
  <2>3. \A k \in Cred : Modest(k) /\ Announced(k)
    BY <2>1, StillComing, SameExchanges
  <2> QED BY <2>1, <2>2, <2>3, HeededStill
<1>2. ASSUME NEW c \in AgentConn, PeerHangsUp(c) PROVE HeededInv'
  <2>1. /\ agent[c].st = "completed" /\ agent' = [agent EXCEPT ![c].st = "hungup"]
        /\ events' = events \cup {RotationEvent(c)}
        /\ RowStays /\ task' = task /\ cred' = cred
    BY <1>2 DEF PeerHangsUp, RowStays
  <2>2. BegunStays
    BY <2>1 DEF BegunStays, Begun, TypeOK, Agent
  <2>3. \A k \in Cred : Modest(k) /\ Announced(k)
    BY <2>1, StillComing, SameExchanges
  <2>4. \A x \in events' : x \in events \/ x.of # "connection"
    BY <2>1, EventFields
  <2> QED BY <2>1, <2>2, <2>3, <2>4, HeededStill
<1>3. ASSUME NEW k \in Cred, NEW c \in AgentConn, NEW new, cred[k].role = "none",
             agent[c].st = "completed", cred' = [cred EXCEPT ![k] = new], new.conn = c,
             new.st # "done", c = agentId \/ new.st = "proposal-received",
             RowStays, task' = task, agent' = agent, events \subseteq events',
             \A x \in events' : x \in events \/ x.of # "connection"
      PROVE  HeededInv'
  <2>1. cred'[k] = new /\ \A j \in Cred : j # k => cred'[j] = cred[j]
    BY <1>3 DEF TypeOK
  <2>2. Begun(c)
    BY <1>3 DEF Begun
  <2>3. \A j \in Cred : Modest(j)
    BY <1>3, <2>1, <2>2 DEF Modest
  <2>4. \A j \in Cred : Announced(j)
    BY <1>3, <2>1, StillComing DEF Announced
  <2> QED BY <1>b, <1>3, <2>3, <2>4, HeededStill
<1>4. ASSUME NEW k \in Cred, NEW c \in AgentConn, NEW pin \in Invite \cup {NoInvite},
             NEW agrees \in BOOLEAN, PeerProposes(k, c, pin, agrees)
      PROVE  HeededInv'
  <2> DEFINE new == [NoExchange EXCEPT !.role = "issuer", !.st = "proposal-received",
                       !.conn = c, !.pin = pin, !.agrees = agrees]
  <2>1. new.conn = c /\ new.st = "proposal-received"
    BY DEF NoExchange
  <2>2. /\ agent[c].st = "completed" /\ cred[k].role = "none"
        /\ cred' = [cred EXCEPT ![k] = new]
        /\ events' = events \cup {CredentialEvent(k, "proposal-received")}
        /\ RowStays /\ task' = task /\ agent' = agent
    BY <1>4 DEF PeerProposes, RowStays
  <2> HIDE DEF new
  <2>3. \A x \in events' : x \in events \/ x.of # "connection"
    BY <2>2, EventFields
  <2> QED BY <1>3, <2>1, <2>2, <2>3
<1>5. ASSUME NEW k \in Cred, SubmitPinCode(k) PROVE HeededInv'
  <2> DEFINE new == [NoExchange EXCEPT !.role = "holder", !.st = "proposal-sent",
                       !.conn = agentId]
  <2>1. new.conn = agentId /\ new.st = "proposal-sent"
    BY DEF NoExchange
  <2>2. /\ agentId \in AgentConn /\ agent[agentId].st = "completed" /\ cred[k].role = "none"
        /\ cred' = [cred EXCEPT ![k] = new] /\ events' = events
        /\ RowStays /\ task' = task /\ agent' = agent
    BY <1>5 DEF SubmitPinCode, RowStays, TypeOK
  <2> HIDE DEF new
  <2> QED BY <1>3, <2>1, <2>2
<1>6. ASSUME NEW k \in Cred, PeerAdvances(k) \/ \E r \in Reports : PeerReports(k, r)
      PROVE  HeededInv'
  <2>1. /\ Moves(k) /\ cred[k].st # "proposal-received"
        /\ cred'[k].st # "done" \/ CredentialEvent(k, "done") \in events'
    BY <1>6, PeerMoves
  <2>2. /\ RowStays /\ task' = task /\ agent' = agent
        /\ \E s : events' = events \cup {CredentialEvent(k, s)}
    BY <1>6 DEF PeerAdvances, PeerReports, RowStays
  <2>3. /\ events \subseteq events'
        /\ \A x \in events' : x \in events \/ x.of # "connection"
    BY <2>2, EventFields
  <2>4. \A j \in Cred : Modest(j) /\ Announced(j)
    BY <2>1, <2>2, <2>3, StillComing, MovesModest
  <2> QED BY <1>b, <2>2, <2>3, <2>4, HeededStill
<1> QED BY <1>1, <1>2, <1>4, <1>5, <1>6, HeededSettles DEF PeerAct, AgentStep

(* A handler fails: its event comes again, unless the exchange has left it behind. *)
LEMMA HeededFails ==
  ASSUME TypeOK, EvidenceInv, HeededInv, OneSlot, [Next]_vars, NEW t \in Task, HandlerFails(t)
  PROVE  HeededInv'
<1> USE DEF row, invites, cloud
<1>1. /\ task[t].at \in HandlerStep /\ Goto(t, Idle) /\ RowStays
      /\ UNCHANGED <<cred, agent, agentId>>
      /\ \/ events' = events \cup {task[t].ev}
         \/ ~Latest(task[t].ev) /\ events' = events
  BY DEF HandlerFails, Reject, Finish, RowStays
<1>2. ~WorksOn(Idle, task[t].ev) /\ \A x : ~WorksOn(Idle, x)
  BY DEF WorksOn, Idle, HandlerStep, ConnectionHandlerStep, CredentialHandlerStep
<1>3. /\ \A x : Coming(x) <=> x \in events \/ WorksOn(task[t], x)
      /\ \A x : Coming(x)' <=> x \in events'
  BY <1>1, <1>2, ComingGoes
<1>4. \A x : Coming(x)' => Coming(x)
  BY <1>1, <1>3 DEF WorksOn
<1>5. ASSUME NEW k \in Cred, Coming(CredentialEvent(k, "done"))
      PROVE  Coming(CredentialEvent(k, "done"))'
  <2>1. CASE CredentialEvent(k, "done") \in events
    BY <1>1, <1>3, <2>1
  <2>2. CASE WorksOn(task[t], CredentialEvent(k, "done"))
    <3>1. task[t].ev = CredentialEvent(k, "done")
      BY <2>2 DEF WorksOn
    <3>2. task[t].ev.of = "credential" /\ task[t].ev.st = "done" /\ task[t].ev.id = k
      BY <3>1, EventFields
    <3>3. task[t].at \in CredentialHandlerStep
      BY <1>1, <3>2 DEF TypeOK, TaskOK, Started, HandlerStep
    <3>4. cred[k].st = "done"
      BY <3>2, <3>3 DEF EvidenceInv, TaskEvident
    <3>5. Latest(task[t].ev)
      BY <3>2, <3>4 DEF Latest
    <3> QED BY <1>1, <1>3, <3>1, <3>5
  <2> QED BY <1>3, <1>5, <2>1, <2>2
<1>6. \A k \in Cred : Modest(k) /\ Announced(k)
  BY <1>1, <1>5, SameExchanges
<1>7. NoneComes /\ BegunStays
  BY <1>1, <1>4 DEF NoneComes, BegunStays, Begun
<1>8. \A u \in Task : OnTheRow(task[u])'
  BY <1>1, SlotMoves DEF OnTheRow, Idle, CredentialHandlerStep
<1> QED BY <1>1, <1>6, <1>7, <1>8, HeededKept

LEMMA HeededNext ==
  ASSUME TypeOK, EvidenceInv, CurrentInv, HeededInv, OneSlot, "receiver" \notin Origins,
         "drop" \notin Faults, "crash" \notin Faults, [Next]_vars
  PROVE  HeededInv'
<1> USE DEF row, invites, cloud
<1>s. ASSUME RowStays, UNCHANGED <<task, agent, events, cred>> PROVE HeededInv'
  <2>1. BegunStays
    BY <1>s DEF BegunStays, Begun
  <2>2. \A k \in Cred : Modest(k) /\ Announced(k)
    BY <1>s, StillComing, SameExchanges
  <2> QED BY <1>s, <2>1, <2>2, HeededStill
<1>1. CASE UserStep
  BY <1>1, HeededNewConnection, HeededCloud DEF UserStep
<1>2. CASE PeerAct \/ AgentStep
  BY <1>2, HeededCloud
<1>3. CASE Mishap
  <2>1. ASSUME NEW i \in Invite, InviteLapses(i) PROVE HeededInv'
    BY <1>s, <2>1 DEF InviteLapses, RowStays
  <2>2. ~SocketReconnects /\ ~Restart
    BY DEF SocketReconnects, Restart
  <2> QED BY <1>3, <2>1, <2>2, HeededNewConnection, HeededFails DEF Mishap
<1>4. ASSUME NEW t \in Task, Handle(t) PROVE HeededInv'
  BY <1>4, HeededHandle
<1>5. ASSUME NEW t \in Task, NodeStep(t) PROVE HeededInv'
  BY <1>5, HeededNewConnection, HeededConnection, HeededCredential DEF NodeStep, ConnectionStep
<1>6. CASE UNCHANGED vars
  BY <1>6, <1>s DEF vars, RowStays
<1> QED BY <1>1, <1>2, <1>3, <1>4, <1>5, <1>6 DEF Next

LEMMA HeededInit == Init => HeededInv
<1> SUFFICES ASSUME Init PROVE HeededInv
  OBVIOUS
<1>1. /\ \A t \in Task : task[t].at = "idle"
      /\ \A k \in Cred : cred[k].conn = NoConn /\ cred[k].st = "none"
      /\ \A c \in AgentConn : agent[c].st = "none"
      /\ events = {} /\ agentId = NoConn
  BY DEF Init, Idle, NoExchange
<1>2. \A e : ~Coming(e)
  BY <1>1 DEF Coming, WorksOn, HandlerStep, ConnectionHandlerStep, CredentialHandlerStep
<1>3. \A c \in AgentConn : Untold(c) /\ Fresh(c)
  BY <1>1, <1>2, NullsAreNotIds DEF Untold, Fresh
<1>4. \A t \in Task : OnTheRow(task[t])
  BY <1>1 DEF OnTheRow, CredentialHandlerStep
<1> QED BY <1>1, <1>3, <1>4 DEF HeededInv, Heeded, Live, Init

(* With one slot, our own invitations only and neither a lost socket nor a
   restart, nothing is left in flight of two exchanges that are done over a live
   row's connection but a mutual verification, in whichever order they came. *)
THEOREM BothSidesVerifiedHolds ==
  ASSUME OneSlot, "receiver" \notin Origins, "drop" \notin Faults, "crash" \notin Faults
  PROVE  Spec => []BothSidesVerified
<1>1. TypeOK /\ EvidenceInv /\ CurrentInv /\ [Next]_vars => CurrentInv'
  BY CurrentNext
<1>2. TypeOK /\ EvidenceInv /\ CurrentInv /\ HeededInv /\ [Next]_vars => HeededInv'
  BY HeededNext
<1>3. TypeOK /\ HeededInv => BothSidesVerified
  <2> SUFFICES ASSUME TypeOK, HeededInv, Quiet, Live,
                      NEW j \in Cred, IssuedTo(j), cred[j].conn = agentId,
                      NEW k \in Cred, ReceivedFrom(k), cred[k].conn = agentId
               PROVE  status = "verified_both"
    BY DEF BothSidesVerified, Live
  <2>1. \A e : ~Coming(e)
    BY DEF Quiet, Resting, At, Coming, WorksOn, HandlerStep, ConnectionHandlerStep,
           CredentialHandlerStep
  <2>2. agentId # NoConn => InStatus(j) /\ InStatus(k)
    BY <2>1 DEF HeededInv, Heeded, OnRow, IssuedTo, ReceivedFrom
  <2>3. agentId # NoConn
    BY DEF HeededInv
  <2> QED BY <2>2, <2>3 DEF InStatus, IssuedTo, ReceivedFrom, TheyAreVerified, WeAreVerified
<1> QED
  BY <1>1, <1>2, <1>3, TypeCorrect, EvidenceHolds, CurrentInit, HeededInit, PTL DEF Spec

-----------------------------------------------------------------------------
(* The number of guesses (hypotheses: one invitation, so no reissue starts the *)
(* count again, and no lost socket, after which a completion that was handled  *)
(* is announced again and may open a locked invitation).                       *)

\* A node has one invitation to issue or to accept.
OneInvite == \A i, j \in Invite : i = j

Proposing(x) == x.at \in CredentialHandlerStep
Connecting(x) == x.at \in ConnectionHandlerStep
OfConnection(e) == e.of = "connection"

\* The state of the connection an event tells of.
Told(e) == agent[e.id].st \in (IF e.st = "completed" THEN {"completed", "hungup", "deleted"}
                                                     ELSE {"abandoned", "deleted"})

\* No PIN has come over a connection of the row.
Untouched == /\ status \in {"none", "pending", "disconnected"} /\ attempts = 0
             /\ \A i \in Invite : checked[i] = 0
             /\ \A t \in Task : ~Proposing(task[t])

\* The row's connection is still to come up, or to be heard of, or did not.
Early == \/ status \in {"none", "pending"}
         \/ \E t \in Task : Connecting(task[t])
         \/ \E c \in AgentConn : agent[c].st \in {"requested", "abandoned"}
         \/ \E e \in events : OfConnection(e) /\ e.st = "abandoned"

\* One connection, and one announcement of its end at a time.
OneConnection ==
    /\ \A c, d \in AgentConn : agent[c].st # "none" /\ agent[d].st # "none" => c = d
    /\ \A c \in AgentConn : agent[c].st # "none" =>
         agent[c].oob \in Invite /\ oob[agent[c].oob] # "unused"
    /\ \A e, f \in events : OfConnection(e) /\ OfConnection(f) => e = f
    /\ \A e \in events : OfConnection(e) => Told(e)
    /\ \A t, u \in Task : Connecting(task[t]) /\ Connecting(task[u]) => t = u
    /\ \A t \in Task : Connecting(task[t]) =>
         Told(task[t].ev) /\ \A e \in events : ~OfConnection(e)

\* What the requests in flight know of the invitation and of the row.
Asks(x) ==
    /\ x.at \notin {"reread", "purge", "expire", "commit"}
    /\ x.at = "insert" => x.inv \in Invite /\ oob[x.inv] # "unused"
    /\ x.at = "check" \/ (x.at = "create" /\ x.seen # "none") => Present # {}
    /\ x.at = "close" => x.conn \in AgentConn /\ agent[x.conn].st # "none"
    /\ x.at \in {"close", "mark"} => agentId # NoConn

\* The row has its invitation, and once it has been more than pending a connection.
OneRow ==
    /\ status = "none" <=> Present = {}
    /\ status = "none" => agentId = NoConn
    /\ status \notin {"none", "pending"} => agentId # NoConn
    /\ \A i \in Present : oob[i] # "unused"
    /\ \A t \in Task : Asks(task[t])

Comparing == {t \in Task : task[t].at = "compare"}

\* Each comparison, made or about to be made, has been counted.
Counted ==
    /\ \A i \in Invite : checked[i] < PinLimit
    /\ \A i \in InviteWith("used") :
         /\ checked[i] + Cardinality(Comparing) <= attempts
         /\ checked[i] + Cardinality(Comparing) < PinLimit
    /\ \A t \in Task : task[t].at = "reset" => InviteWith("used") = {}

(* Why GuessBudget is inductive: the count starts again only once the invitation
   is locked, and nothing but the one completion of the one connection, before
   the first PIN, makes it count as used. *)
GuessInv == OneConnection /\ OneRow /\ (Early => Untouched) /\ Counted

\* What a connection record, and an out-of-band record, may become.
AgentGoes == \A c \in AgentConn :
    \/ agent'[c] = agent[c]
    \/ /\ agent'[c].oob = agent[c].oob
       /\ \/ agent[c].st = "completed" /\ agent'[c].st = "hungup"
          \/ agent[c].st # "none" /\ agent'[c].st = "deleted"
OobGoes == \A i \in Invite : oob[i] # "unused" => oob'[i] # "unused"

LEMMA AgentStays == agent' = agent /\ oob' = oob => AgentGoes /\ OobGoes
BY DEF AgentGoes, OobGoes

LEMMA ToldStays ==
  ASSUME AgentGoes, NEW e, e.id \in AgentConn, Told(e)
  PROVE  Told(e)'
BY DEF AgentGoes, Told

(* Connections and their announcements, where none begins or ends. *)
LEMMA OneConnectionKept ==
  ASSUME TypeOK, OneConnection, AgentGoes, OobGoes,
         \A e \in events' : OfConnection(e) => e \in events,
         \A t \in Task : task'[t] = task[t] \/ ~Connecting(task'[t])
  PROVE  OneConnection'
<1>1. \A c \in AgentConn : /\ agent'[c].st # "none" <=> agent[c].st # "none"
                           /\ agent'[c].oob = agent[c].oob
  BY DEF AgentGoes
<1>2. ASSUME NEW e \in events, OfConnection(e) PROVE Told(e)'
  <2>1. e.id \in AgentConn
    BY <1>2 DEF TypeOK, Event, OfConnection
  <2> QED BY <1>2, <2>1, ToldStays DEF OneConnection
<1>3. ASSUME NEW t \in Task, Connecting(task[t]) PROVE Told(task[t].ev)'  \/ task'[t] # task[t]
  <2>1. task[t].ev.id \in AgentConn /\ Told(task[t].ev)
    BY <1>3 DEF TypeOK, TaskOK, Started, Connecting, HandlerStep, Event, OneConnection
  <2> QED BY <2>1 DEF AgentGoes, Told
<1>4. \A t \in Task : Connecting(task'[t]) => task'[t] = task[t] /\ Connecting(task[t])
  OBVIOUS
<1>5. /\ \A c, d \in AgentConn : agent'[c].st # "none" /\ agent'[d].st # "none" => c = d
      /\ \A c \in AgentConn : agent'[c].st # "none" =>
           agent'[c].oob \in Invite /\ oob'[agent'[c].oob] # "unused"
  BY <1>1 DEF OneConnection, OobGoes
<1>6. /\ \A e, f \in events' : OfConnection(e) /\ OfConnection(f) => e = f
      /\ \A e \in events' : OfConnection(e) => Told(e)'
  BY <1>2 DEF OneConnection
<1>7. /\ \A t, u \in Task : Connecting(task'[t]) /\ Connecting(task'[u]) => t = u
      /\ \A t \in Task : Connecting(task'[t]) => \A e \in events' : ~OfConnection(e)
  BY <1>4 DEF OneConnection
<1>8. ASSUME NEW t \in Task, Connecting(task'[t]) PROVE Told(task[t].ev)'
  BY <1>3, <1>4, <1>8
<1> QED BY <1>5, <1>6, <1>7, <1>8 DEF OneConnection, Connecting, OfConnection

\* What the row may become, and stay a row with an invitation and a connection.
RowGoes ==
    \/ status' = status /\ agentId' = agentId
    \/ /\ status # "none" /\ status' # "none"
       /\ agentId' = agentId \/ agentId' # NoConn
       /\ agentId' # NoConn \/ status' = "pending"

LEMMA OneRowKept ==
  ASSUME TypeOK, OneRow, AgentGoes, OobGoes, RowGoes, Present' = Present,
         \A t \in Task : task'[t] = task[t] \/ Asks(task[t])'
  PROVE  OneRow'
<1>1. agentId # NoConn => agentId' # NoConn
  BY DEF RowGoes
<1>2. \A c \in AgentConn : agent[c].st # "none" => agent'[c].st # "none"
  BY DEF AgentGoes
<1>3. ASSUME NEW t \in Task, task'[t] = task[t] PROVE Asks(task[t])'
  <2>1. Asks(task[t]) /\ task[t] \in Local
    BY DEF OneRow, TypeOK, TaskOK
  <2> QED BY <1>1, <1>2, <1>3, <2>1 DEF Asks, OobGoes
<1>4. /\ status' = "none" <=> Present' = {}
      /\ status' = "none" => agentId' = NoConn
      /\ status' \notin {"none", "pending"} => agentId' # NoConn
      /\ \A i \in Present' : oob'[i] # "unused"
  BY DEF OneRow, RowGoes, OobGoes, Present
<1> QED BY <1>3, <1>4 DEF OneRow

(* The count, where nothing is counted or compared. *)
LEMMA CountedKept ==
  ASSUME Counted, checked' = checked, attempts' = attempts,
         InviteWith("used")' \subseteq InviteWith("used"), Comparing' = Comparing,
         \A t \in Task : task'[t].at = "reset" =>
            task[t].at = "reset" \/ InviteWith("used")' = {}
  PROVE  Counted'
<1>1. \A t \in Task : task'[t].at = "reset" => InviteWith("used")' = {}
  BY DEF Counted
<1>2. /\ \A i \in Invite : checked'[i] < PinLimit
      /\ \A i \in InviteWith("used")' :
           /\ checked'[i] + Cardinality(Comparing') <= attempts'
           /\ checked'[i] + Cardinality(Comparing') < PinLimit
  BY DEF Counted
<1> QED BY <1>1, <1>2 DEF Counted

(* While no PIN has come the count is zero. *)
LEMMA UntouchedCounts ==
  ASSUME TypeOK, PinLimit > 0, Untouched
  PROVE  Counted
<1>1. Comparing = {}
  BY DEF Untouched, Comparing, Proposing, CredentialHandlerStep
<1>2. Cardinality(Comparing) = 0
  BY <1>1, FS_EmptySet
<1>3. \A t \in Task : task[t].at # "reset"
  BY DEF Untouched, Proposing, CredentialHandlerStep
<1> QED BY <1>2, <1>3, LimitsAreNat DEF Untouched, Counted, InviteWith

\* The row and the counts stay as they are.
CountsStay == UNCHANGED <<status, agentId, attempts, validity, checked>>

(* A step of a request, or of a connection handler that ends, or nobody's. *)
LEMMA GuessStill ==
  ASSUME TypeOK, GuessInv, AgentGoes, OobGoes, CountsStay,
         \A e \in events' : OfConnection(e) => e \in events,
         \A t \in Task : \/ task'[t] = task[t]
                         \/ /\ task'[t].at \in RequestStep \cup {"idle"} /\ Asks(task[t])'
                            /\ task[t].at \notin CredentialHandlerStep
  PROVE  GuessInv'
<1>1. \A t \in Task : /\ task'[t] = task[t] \/ ~Connecting(task'[t])
                      /\ task'[t] = task[t] \/ Asks(task[t])'
                      /\ Proposing(task'[t]) => Proposing(task[t])
                      /\ task'[t].at = "compare" <=> task[t].at = "compare"
                      /\ task'[t].at = "reset" => task[t].at = "reset"
  BY DEF Connecting, Proposing, RequestStep, ConnectionHandlerStep, CredentialHandlerStep
<1>2. OneConnection'
  BY <1>1, OneConnectionKept DEF GuessInv
<1>3. Present' = Present /\ InviteWith("used")' = InviteWith("used")
  BY DEF Present, InviteWith, CountsStay
<1>4. OneRow'
  BY <1>1, <1>3, OneRowKept DEF GuessInv, RowGoes, CountsStay
<1>5. Early' => Early
  <2>1. \A t \in Task : Connecting(task'[t]) => Connecting(task[t])
    BY <1>1
  <2>2. \A c \in AgentConn : agent'[c].st \in {"requested", "abandoned"} =>
          agent[c].st \in {"requested", "abandoned"}
    BY DEF AgentGoes
  <2> QED BY <2>1, <2>2 DEF Early, CountsStay, OfConnection, Connecting
<1>6. Untouched => Untouched'
  BY <1>1 DEF Untouched, CountsStay, Proposing
<1>7. Comparing' = Comparing
  BY <1>1 DEF Comparing
<1>8. Counted'
  BY <1>1, <1>3, <1>7, CountedKept DEF GuessInv, CountsStay
<1> QED BY <1>2, <1>4, <1>5, <1>6, <1>8 DEF GuessInv

(* The requests that issue an invitation or accept one. *)
LEMMA GuessNewConnection ==
  ASSUME TypeOK, BindingInv, GuessInv, OneInvite, PinLimit > 0, NEW t \in Task,
         \/ SubmitNewInvite(t) \/ RequestFails(t) \/ NewConnectionStep(t)
  PROVE  GuessInv'
<1> USE DEF row, invites, cloud
<1>l. task[t] \in Local /\ Asks(task[t]) /\ OneRow
  BY DEF TypeOK, TaskOK, GuessInv, OneRow
<1>g. ASSUME NEW next, Goto(t, next), next.at \in RequestStep \cup {"idle"}, Asks(task[t])',
             task[t].at \notin CredentialHandlerStep,
             AgentGoes, OobGoes, CountsStay, events' = events
      PROVE  GuessInv'
  <2>1. /\ task'[t] = next
        /\ \A u \in Task : u # t => task'[u] = task[u]
    BY <1>g, OneTaskMoves
  <2> QED BY <1>g, <2>1, GuessStill
<1>i. Idle.at = "idle"
  BY DEF Idle
<1>r. task[t].at \in RequestStep \cup {"idle"} => task[t].at \notin CredentialHandlerStep
  BY DEF RequestStep, CredentialHandlerStep
<1>f. ASSUME Finish(t), task[t].at \in RequestStep \cup {"idle"},
             AgentGoes, OobGoes, CountsStay, events' = events
      PROVE  GuessInv'
  <2>1. Goto(t, Idle) /\ task'[t] = Idle
    BY <1>f, OneTaskMoves DEF Finish
  <2>2. Asks(task[t])'
    BY <2>1, <1>i DEF Asks
  <2> QED BY <1>f, <1>g, <1>i, <1>r, <2>1, <2>2
<1>1. CASE SubmitNewInvite(t)
  <2>1. PICK next : next = [Idle EXCEPT !.at = IF status = "none" THEN "create" ELSE "check",
                                        !.seen = status]
    OBVIOUS
  <2>2. /\ next.at = (IF status = "none" THEN "create" ELSE "check") /\ next.seen = status
    BY <2>1 DEF Idle
  <2>3. /\ Goto(t, next) /\ At(t, "idle")
        /\ CountsStay /\ UNCHANGED <<agent, oob, events>>
    BY <1>1, <2>1 DEF SubmitNewInvite, CountsStay
  <2>4. Present' = Present /\ task'[t] = next
    BY <2>3, OneTaskMoves DEF CountsStay, Present
  <2>5. Asks(task[t])'
    BY <1>l, <2>2, <2>4 DEF Asks, OneRow
  <2> QED BY <1>g, <1>r, <2>2, <2>3, <2>5, AgentStays DEF RequestStep, At
<1>2. CASE RequestFails(t)
  BY <1>2, <1>f, AgentStays DEF RequestFails, CountsStay
<1>3. CASE CheckInvites(t)
  <2>1. PICK next : next = [task[t] EXCEPT !.at = "create"]
    OBVIOUS
  <2>2. next.at = "create"
    BY <1>l, <2>1 DEF Local
  <2>3. /\ Goto(t, next) \/ Finish(t)
        /\ At(t, "check") /\ CountsStay /\ UNCHANGED <<agent, oob, events>>
    BY <1>3, <2>1 DEF CheckInvites, CountsStay
  <2>4. Present' = Present /\ Present # {}
    BY <1>l, <2>3 DEF CountsStay, Present, At, Asks
  <2>5. Goto(t, next) => Asks(task[t])'
    <3> SUFFICES ASSUME Goto(t, next) PROVE Asks(task[t])'
      OBVIOUS
    <3>1. task'[t] = next
      BY OneTaskMoves
    <3> QED BY <2>2, <2>4, <3>1 DEF Asks
  <2> QED BY <1>f, <1>g, <1>r, <2>2, <2>3, <2>5, AgentStays DEF RequestStep, At
<1>4. CASE CreateInvitation(t)
  <2>1. PICK i \in Invite :
          /\ oob[i] = "unused" /\ oob' = [oob EXCEPT ![i] = "sender"]
          /\ Goto(t, [task[t] EXCEPT !.inv = i,
                       !.at = IF task[t].seen = "none" THEN "insert" ELSE "reread"])
    BY <1>4 DEF CreateInvitation
  <2>2. PICK next : next = [task[t] EXCEPT !.inv = i,
                              !.at = IF task[t].seen = "none" THEN "insert" ELSE "reread"]
    OBVIOUS
  <2>3. next.inv = i /\ next.at = (IF task[t].seen = "none" THEN "insert" ELSE "reread")
    BY <1>l, <2>2 DEF Local
  <2>4. At(t, "create") /\ CountsStay /\ UNCHANGED <<agent, events>>
    BY <1>4 DEF CreateInvitation, CountsStay
  <2>5. Present = {}
    BY <1>l, <2>1 DEF OneInvite, OneRow, Present
  <2>6. next.at = "insert"
    BY <1>l, <2>3, <2>4, <2>5 DEF Asks, At
  <2>7. oob'[i] = "sender" /\ OobGoes /\ AgentGoes /\ task'[t] = next
    BY <2>1, <2>2, <2>4, OneTaskMoves DEF OobGoes, AgentGoes, TypeOK
  <2>8. Asks(task[t])'
    BY <2>3, <2>6, <2>7 DEF Asks
  <2> QED BY <1>g, <1>r, <2>1, <2>2, <2>4, <2>6, <2>7, <2>8 DEF RequestStep, At
<1>5. CASE InsertNewConnection(t)
  <2>1. Finish(t) /\ At(t, "insert") /\ UNCHANGED <<agent, oob, events, checked>>
    BY <1>5 DEF InsertNewConnection
  <2>2. CASE status # "none"
    BY <1>5, <1>f, <2>1, <2>2, AgentStays DEF InsertNewConnection, CountsStay, At, RequestStep
  <2>3. CASE status = "none"
    <3>1. /\ status' = "pending" /\ agentId' = task[t].conn /\ attempts' = 0
          /\ validity' = [validity EXCEPT ![task[t].inv] = "valid"]
      BY <1>5, <2>3 DEF InsertNewConnection
    <3>2. task[t].inv \in Invite /\ oob[task[t].inv] # "unused" /\ Present = {}
      BY <1>l, <2>1, <2>3 DEF At, Asks, OneRow
    <3>3. /\ task'[t] = Idle
          /\ \A u \in Task : u # t => task'[u] = task[u]
      BY <2>1, OneTaskMoves DEF Finish
    <3>4. /\ \A u \in Task : task'[u] = task[u] \/ ~Connecting(task'[u])
          /\ \A u \in Task : Proposing(task'[u]) => Proposing(task[u])
      BY <1>i, <3>3 DEF Connecting, Proposing, ConnectionHandlerStep, CredentialHandlerStep
    <3>5. OneConnection'
      BY <2>1, <3>4, AgentStays, OneConnectionKept DEF GuessInv
    <3>6. Present' = {task[t].inv}
      BY <3>1, <3>2 DEF Present, TypeOK
    <3>7. OneRow'
      <4>1. agentId = NoConn
        BY <1>l, <2>3 DEF OneRow
      <4>2. ASSUME NEW u \in Task PROVE Asks(task[u])'
        <5>1. CASE u = t
          BY <1>i, <3>3, <5>1 DEF Asks
        <5>2. CASE u # t
          <6>1. Asks(task[u])
            BY <1>l DEF OneRow
          <6> QED BY <2>1, <3>3, <3>6, <4>1, <5>2, <6>1 DEF Asks
        <5> QED BY <5>1, <5>2
      <4> QED BY <2>1, <3>1, <3>2, <3>6, <4>2 DEF OneRow
    <3>8. Untouched'
      <4>1. Untouched
        BY <2>3 DEF GuessInv, Early
      <4> QED BY <2>1, <3>1, <3>4, <4>1 DEF Untouched
    <3>9. Counted'
      <4>1. Comparing' = {} /\ Cardinality({}) = 0
        BY <3>8, FS_EmptySet DEF Untouched, Comparing, Proposing, CredentialHandlerStep
      <4>2. \A u \in Task : task'[u].at # "reset"
        BY <3>8 DEF Untouched, Proposing, CredentialHandlerStep
      <4>3. InviteWith("used")' = {} /\ \A i \in Invite : checked'[i] = 0
        BY <3>6, <3>1, <3>2, <3>8 DEF InviteWith, Untouched, Present, TypeOK, OneInvite
      <4> QED BY <4>1, <4>2, <4>3, LimitsAreNat DEF Counted
    <3> QED BY <3>5, <3>7, <3>8, <3>9 DEF GuessInv
  <2> QED BY <2>2, <2>3
<1>6. CASE RereadInvites(t) \/ PurgeOob(t) \/ BeginReissue(t) \/ CommitReissue(t)
  BY <1>6, <1>l DEF RereadInvites, PurgeOob, BeginReissue, CommitReissue, At, Asks
<1> QED BY <1>1, <1>2, <1>3, <1>4, <1>5, <1>6 DEF NewConnectionStep

(* An invitation is accepted: the one connection begins. *)
LEMMA GuessAccepts ==
  ASSUME TypeOK, GuessInv, OneInvite, NEW i \in Invite, NEW c \in AgentConn,
         agent[c].st = "none", \A d \in AgentConn : agent[d].st = "none",
         agent' = [agent EXCEPT ![c] = [st |-> "requested", oob |-> i]],
         OobGoes, oob'[i] # "unused", status \in {"none", "pending"}, CountsStay, events' = events,
         \A t \in Task : \/ task'[t] = task[t]
                         \/ /\ task[t].at = "idle" /\ task'[t].at = "insert"
                            /\ task'[t].inv = i
  PROVE  GuessInv'
<1>1. /\ agent'[c] = [st |-> "requested", oob |-> i]
      /\ \A d \in AgentConn : d # c => agent'[d] = agent[d]
  BY DEF TypeOK
<1>2. /\ \A e \in events : ~OfConnection(e)
      /\ \A t \in Task : ~Connecting(task[t])
  <2>1. ASSUME NEW e \in events, OfConnection(e) PROVE FALSE
    <3>1. e.id \in AgentConn /\ Told(e)
      BY <2>1 DEF TypeOK, Event, OfConnection, GuessInv, OneConnection
    <3> QED BY <3>1 DEF Told
  <2>2. ASSUME NEW t \in Task, Connecting(task[t]) PROVE FALSE
    <3>1. task[t].ev.id \in AgentConn /\ Told(task[t].ev)
      BY <2>2 DEF TypeOK, TaskOK, Started, Connecting, HandlerStep, Event, GuessInv,
                  OneConnection
    <3> QED BY <3>1 DEF Told
  <2> QED BY <2>1, <2>2
<1>3. \A t \in Task : /\ ~Connecting(task'[t])
                      /\ Proposing(task'[t]) => Proposing(task[t])
                      /\ task'[t].at = "compare" <=> task[t].at = "compare"
                      /\ task'[t].at = "reset" => task[t].at = "reset"
  BY <1>2 DEF Connecting, Proposing, ConnectionHandlerStep, CredentialHandlerStep
<1>4. OneConnection'
  <2>1. /\ \A d, e \in AgentConn : agent'[d].st # "none" /\ agent'[e].st # "none" => d = e
        /\ \A d \in AgentConn : agent'[d].st # "none" =>
             agent'[d].oob \in Invite /\ oob'[agent'[d].oob] # "unused"
    BY <1>1
  <2> QED BY <1>2, <1>3, <2>1 DEF OneConnection, Connecting, OfConnection
<1>5. Present' = Present /\ InviteWith("used")' = InviteWith("used")
  BY DEF Present, InviteWith, CountsStay
<1>6. OneRow'
  <2>1. ASSUME NEW t \in Task PROVE Asks(task[t])'
    <3>1. CASE task'[t] = task[t]
      <4>1. Asks(task[t])
        BY DEF GuessInv, OneRow
      <4> QED BY <1>1, <1>5, <3>1, <4>1 DEF Asks, CountsStay, OobGoes
    <3>2. CASE task'[t].at = "insert" /\ task'[t].inv = i
      BY <3>2 DEF Asks
    <3> QED BY <3>1, <3>2
  <2> QED BY <1>5, <2>1 DEF GuessInv, OneRow, CountsStay, OobGoes, Present
<1>7. Untouched'
  BY <1>3 DEF GuessInv, Early, Untouched, CountsStay, Proposing
<1>8. Comparing' = Comparing
  BY <1>3 DEF Comparing
<1>9. Counted'
  BY <1>3, <1>5, <1>8, CountedKept DEF GuessInv, CountsStay
<1> QED BY <1>4, <1>6, <1>7, <1>9 DEF GuessInv

(* The user pastes an invitation, or the peer accepts ours. *)
LEMMA GuessBegins ==
  ASSUME TypeOK, BindingInv, GuessInv, OneInvite,
         \/ \E t \in Task : SubmitFromInvite(t)
         \/ \E i \in Invite, c \in AgentConn : PeerAccepts(i, c)
  PROVE  GuessInv'
<1> USE DEF row, invites, cloud
<1>1. ASSUME NEW t \in Task, SubmitFromInvite(t) PROVE GuessInv'
  <2>1. PICK i \in Invite, c \in AgentConn :
          /\ oob[i] = "unused" /\ agent[c].st = "none"
          /\ oob' = [oob EXCEPT ![i] = "receiver"]
          /\ agent' = [agent EXCEPT ![c] = [st |-> "requested", oob |-> i]]
          /\ Goto(t, [Idle EXCEPT !.at = "insert", !.inv = i, !.conn = c])
    BY <1>1 DEF SubmitFromInvite
  <2>2. CountsStay /\ events' = events /\ At(t, "idle")
    BY <1>1 DEF SubmitFromInvite, CountsStay
  <2>3. PICK next : next = [Idle EXCEPT !.at = "insert", !.inv = i, !.conn = c]
    OBVIOUS
  <2>4. /\ next.at = "insert" /\ next.inv = i /\ task'[t] = next
        /\ \A u \in Task : u # t => task'[u] = task[u]
    BY <2>1, <2>3, OneTaskMoves DEF Idle
  <2>5. \A d \in AgentConn : agent[d].st = "none"
    BY <2>1 DEF GuessInv, OneConnection, OneInvite
  <2>6. status = "none"
    <3>1. i \notin Present
      BY <2>1 DEF GuessInv, OneRow
    <3> QED BY <3>1 DEF GuessInv, OneRow, OneInvite, Present
  <2>7. OobGoes /\ oob'[i] # "unused"
    BY <2>1 DEF OobGoes, TypeOK
  <2> QED BY <2>1, <2>2, <2>4, <2>5, <2>6, <2>7, GuessAccepts DEF At
<1>2. ASSUME NEW i \in Invite, NEW c \in AgentConn, PeerAccepts(i, c) PROVE GuessInv'
  <2>1. /\ oob[i] = "sender" /\ agent[c].st = "none"
        /\ \A d \in AgentConn : agent[d].oob # i
        /\ agent' = [agent EXCEPT ![c] = [st |-> "requested", oob |-> i]]
        /\ oob' = oob /\ task' = task /\ events' = events /\ CountsStay
    BY <1>2 DEF PeerAccepts, CountsStay
  <2>2. \A d \in AgentConn : agent[d].st = "none"
    BY <2>1 DEF GuessInv, OneConnection, OneInvite
  <2>3. agentId = NoConn
    BY <2>1 DEF BindingInv, BoundToOwnInvite, OneInvite, Present, TypeOK
  <2>4. status \in {"none", "pending"}
    BY <2>3 DEF GuessInv, OneRow
  <2> QED BY <2>1, <2>2, <2>4, GuessAccepts DEF OobGoes
<1> QED BY <1>1, <1>2

(* The row turns disconnected, which changes nothing of the count. *)
LEMMA GuessDisconnects ==
  ASSUME TypeOK, GuessInv, agentId # NoConn, status' = "disconnected",
         UNCHANGED <<agentId, attempts, validity, checked, agent, oob>>,
         \A e \in events' : OfConnection(e) => e \in events,
         \A t \in Task : \/ task'[t] = task[t]
                         \/ task[t].at \in RequestStep /\ task'[t].at = "idle"
  PROVE  GuessInv'
<1>1. \A t \in Task : /\ task'[t] = task[t] \/ ~Connecting(task'[t])
                      /\ task'[t] = task[t] \/ Asks(task[t])'
                      /\ Proposing(task'[t]) => Proposing(task[t])
                      /\ task'[t].at = "compare" <=> task[t].at = "compare"
                      /\ task'[t].at = "reset" => task[t].at = "reset"
  BY DEF Connecting, Proposing, RequestStep, ConnectionHandlerStep, CredentialHandlerStep, Asks
<1>2. OneConnection'
  BY <1>1, AgentStays, OneConnectionKept DEF GuessInv
<1>3. Present' = Present /\ InviteWith("used")' = InviteWith("used")
  BY DEF Present, InviteWith
<1>4. OneRow'
  BY <1>1, <1>3, AgentStays, OneRowKept DEF GuessInv, OneRow, RowGoes
<1>5. Early' => Early
  BY <1>1 DEF Early, OfConnection
<1>6. Untouched => Untouched'
  BY <1>1 DEF Untouched
<1>7. Comparing' = Comparing
  BY <1>1 DEF Comparing
<1>8. Counted'
  BY <1>1, <1>3, <1>7, CountedKept DEF GuessInv
<1> QED BY <1>2, <1>4, <1>5, <1>6, <1>8 DEF GuessInv

(* The disconnect request. *)
LEMMA GuessDisconnect ==
  ASSUME TypeOK, BindingInv, GuessInv, NEW t \in Task,
         DisconnectConnection(t) \/ CloseConnection(t) \/ MarkDisconnected(t)
  PROVE  GuessInv'
<1> USE DEF row, invites, cloud
<1>l. task[t] \in Local /\ Asks(task[t])
  BY DEF TypeOK, TaskOK, GuessInv, OneRow
<1>i. Idle.at = "idle"
  BY DEF Idle
<1>1. CASE DisconnectConnection(t)
  <2>1. PICK next : next = [Idle EXCEPT !.at = "close", !.conn = agentId]
    OBVIOUS
  <2>2. next.at = "close" /\ next.conn = agentId
    BY <2>1 DEF Idle
  <2>3. /\ Goto(t, next) /\ agentId # NoConn /\ task[t].at = "idle"
        /\ CountsStay /\ UNCHANGED <<agent, oob, events>>
    BY <1>1, <2>1 DEF DisconnectConnection, CountsStay, At
  <2>4. task'[t] = next /\ \A u \in Task : u # t => task'[u] = task[u]
    BY <2>3, OneTaskMoves
  <2>5. agentId \in AgentConn /\ agent[agentId].st # "none"
    BY <2>3, NullsAreNotIds DEF TypeOK, BindingInv, BoundToOwnInvite, Unbound, Present
  <2>6. Asks(task[t])'
    BY <2>2, <2>3, <2>4, <2>5 DEF Asks, CountsStay
  <2>7. /\ task'[t].at \in RequestStep \cup {"idle"}
        /\ task[t].at \notin CredentialHandlerStep
    BY <2>2, <2>3, <2>4 DEF RequestStep, CredentialHandlerStep
  <2> QED BY <2>3, <2>4, <2>6, <2>7, AgentStays, GuessStill
<1>2. CASE CloseConnection(t)
  <2>1. PICK next : next = [task[t] EXCEPT !.at = "mark"]
    OBVIOUS
  <2>2. next.at = "mark"
    BY <1>l, <2>1 DEF Local
  <2>3. /\ Goto(t, next) \/ Goto(t, Idle)
        /\ task[t].at = "close" /\ CountsStay /\ UNCHANGED <<oob, events>>
        /\ agent' = agent \/ agent' = [agent EXCEPT ![task[t].conn].st = "deleted"]
    BY <1>2, <2>1 DEF CloseConnection, Finish, CountsStay, At
  <2>4. /\ task'[t] \in {next, Idle}
        /\ \A u \in Task : u # t => task'[u] = task[u]
    BY <2>3, OneTaskMoves
  <2>5. task[t].conn \in AgentConn /\ agent[task[t].conn].st # "none" /\ agentId # NoConn
    BY <1>l, <2>3 DEF Asks
  <2>6. AgentGoes /\ OobGoes
    <3>1. OobGoes
      BY <2>3 DEF OobGoes
    <3>2. ASSUME agent' = [agent EXCEPT ![task[t].conn].st = "deleted"], NEW c \in AgentConn
          PROVE  agent'[c] = agent[c] \/ (agent'[c].oob = agent[c].oob /\ agent[c].st # "none"
                                            /\ agent'[c].st = "deleted")
      BY <2>5, <3>2 DEF TypeOK, Agent
    <3> QED BY <2>3, <3>1, <3>2 DEF AgentGoes
  <2>7. Asks(task[t])'
    BY <1>i, <2>2, <2>3, <2>4, <2>5 DEF Asks, CountsStay
  <2>8. /\ task'[t].at \in RequestStep \cup {"idle"}
        /\ task[t].at \notin CredentialHandlerStep
    BY <1>i, <2>2, <2>3, <2>4 DEF RequestStep, CredentialHandlerStep
  <2> QED BY <2>3, <2>4, <2>6, <2>7, <2>8, GuessStill
<1>3. CASE MarkDisconnected(t)
  <2>1. /\ task[t].at = "mark" /\ status' = "disconnected" /\ Goto(t, Idle)
        /\ UNCHANGED <<agentId, attempts, validity, checked, agent, oob, events>>
    BY <1>3 DEF MarkDisconnected, Finish, At
  <2>2. agentId # NoConn
    BY <1>l, <2>1 DEF Asks
  <2>3. task'[t] = Idle /\ \A u \in Task : u # t => task'[u] = task[u]
    BY <2>1, OneTaskMoves
  <2> QED BY <1>i, <2>1, <2>2, <2>3, GuessDisconnects DEF RequestStep
<1> QED BY <1>1, <1>2, <1>3

(* The end of the connection is being handled: the row has not seen a PIN. *)
LEMMA GuessHandles ==
  ASSUME TypeOK, GuessInv, Untouched, NEW t \in Task, NEW e \in Event, OfConnection(e), Told(e),
         \A f \in events' : f \in events /\ ~OfConnection(f),
         \A u \in Task : Connecting(task[u]) => u = t,
         Connecting(task'[t]), task'[t].ev = e,
         \A u \in Task : u # t => task'[u] = task[u],
         CountsStay, agent' = agent, oob' = oob
  PROVE  GuessInv'
<1>1. \A u \in Task : Connecting(task'[u]) => u = t
  OBVIOUS
<1>2. Told(e)'
  BY DEF Told
<1>3. OneConnection'
  <2>1. /\ \A c, d \in AgentConn : agent'[c].st # "none" /\ agent'[d].st # "none" => c = d
        /\ \A c \in AgentConn : agent'[c].st # "none" =>
             agent'[c].oob \in Invite /\ oob'[agent'[c].oob] # "unused"
    BY DEF GuessInv, OneConnection
  <2>2. Told(task[t].ev)'
    BY <1>2 DEF Told
  <2> QED BY <1>1, <2>1, <2>2 DEF OneConnection, OfConnection, Connecting
<1>4. Present' = Present
  BY DEF Present, CountsStay
<1>5. Asks(task[t])'
  BY DEF Connecting, ConnectionHandlerStep, Asks
<1>6. OneRow'
  BY <1>4, <1>5, AgentStays, OneRowKept DEF GuessInv, RowGoes, CountsStay
<1>7. Untouched'
  <2>1. \A u \in Task : ~Proposing(task'[u])
    BY DEF Untouched, Proposing, Connecting, ConnectionHandlerStep, CredentialHandlerStep
  <2> QED BY <2>1 DEF Untouched, CountsStay, Proposing
<1>8. Counted'
  <2>1. \A u \in Task : task'[u].at # "compare" /\ task'[u].at # "reset"
    BY <1>7 DEF Untouched, Proposing, CredentialHandlerStep
  <2>2. \A u \in Task : task[u].at # "compare" /\ task[u].at # "reset"
    BY DEF Untouched, Proposing, CredentialHandlerStep
  <2>3. Comparing' = Comparing
    BY <2>1, <2>2 DEF Comparing
  <2>4. InviteWith("used")' = InviteWith("used")
    BY DEF InviteWith, CountsStay
  <2> QED BY <2>1, <2>3, <2>4, CountedKept DEF GuessInv, CountsStay
<1> QED BY <1>3, <1>6, <1>7, <1>8 DEF GuessInv

(* The handlers of connection events. *)
LEMMA GuessConnection ==
  ASSUME TypeOK, BindingInv, GuessInv, PinLimit > 0, NEW t \in Task,
         \/ \E e \in events : ConnectionStateChanged(t, e) \/ ConnectionDidRotated(t, e)
         \/ UpdateConnection(t) \/ MissConnection(t) \/ MarkUsed(t)
  PROVE  GuessInv'
<1> USE DEF row, invites, cloud
<1>l. task[t] \in Local /\ Started(task[t])
  BY DEF TypeOK, TaskOK
<1>i. Idle.at = "idle"
  BY DEF Idle
<1>1. ASSUME NEW e \in events, ConnectionStateChanged(t, e) PROVE GuessInv'
  <2>1. /\ At(t, "idle") /\ OfConnection(e) /\ e \in Event /\ Told(e) /\ e.id \in AgentConn
        /\ events' = events \ {e} /\ CountsStay /\ UNCHANGED <<agent, oob>>
    BY <1>1 DEF ConnectionStateChanged, CountsStay, TypeOK, OfConnection, GuessInv,
                OneConnection, Event
  <2>2. CASE task' = task
    BY <2>1, <2>2, AgentStays, GuessStill
  <2>3. CASE task' # task
    <3>1. PICK next : next = [Idle EXCEPT !.at = "connection", !.ev = e, !.seen = status]
      OBVIOUS
    <3>2. next.at = "connection" /\ next.ev = e
      BY <3>1 DEF Idle
    <3>3. Goto(t, next) /\ KnownInvite(e.id) /\ ~Ignored(e.st, status)
      BY <1>1, <2>3, <3>1 DEF ConnectionStateChanged
    <3>4. task'[t] = next /\ \A u \in Task : u # t => task'[u] = task[u]
      BY <3>3, OneTaskMoves
    <3>5. Untouched
      <4>1. e.st \in {"completed", "abandoned"}
        BY <2>1 DEF Event, OfConnection
      <4>2. Early
        BY <2>1, <3>3, <4>1 DEF Early, Ignored
      <4> QED BY <4>2 DEF GuessInv
    <3>6. /\ \A f \in events' : f \in events /\ ~OfConnection(f)
          /\ \A u \in Task : ~Connecting(task[u])
      BY <2>1 DEF GuessInv, OneConnection
    <3>7. Connecting(task'[t])
      BY <3>2, <3>4 DEF Connecting, ConnectionHandlerStep
    <3> QED BY <2>1, <3>2, <3>4, <3>5, <3>6, <3>7, GuessHandles
  <2> QED BY <2>2, <2>3
<1>2. ASSUME NEW e \in events, ConnectionDidRotated(t, e) PROVE GuessInv'
  <2>1. /\ events' = events \ {e} /\ task' = task /\ e.id \in AgentConn
        /\ UNCHANGED <<agentId, attempts, validity, checked, agent, oob>>
        /\ status' = IF agentId = e.id THEN "disconnected" ELSE status
    BY <1>2 DEF ConnectionDidRotated, TypeOK, Event
  <2>2. CASE agentId = e.id
    BY <2>1, <2>2, NullsAreNotIds, GuessDisconnects
  <2>3. CASE agentId # e.id
    BY <2>1, <2>3, AgentStays, GuessStill DEF CountsStay
  <2> QED BY <2>2, <2>3
<1>3. ASSUME Connecting(task[t])
      PROVE  /\ Untouched /\ Told(task[t].ev) /\ OfConnection(task[t].ev) /\ task[t].ev \in Event
             /\ \A u \in Task : Connecting(task[u]) => u = t
             /\ \A e \in events : ~OfConnection(e)
             /\ task[t].ev.id \in AgentConn
  <2>1. Untouched
    BY <1>3 DEF GuessInv, Early
  <2>2. OfConnection(task[t].ev) /\ task[t].ev \in Event /\ task[t].ev.id \in AgentConn
    BY <1>3, <1>l DEF Started, Connecting, HandlerStep, Event, OfConnection
  <2> QED BY <1>3, <2>1, <2>2 DEF GuessInv, OneConnection
<1>4. CASE MissConnection(t)
  <2>1. PICK next : next = [task[t] EXCEPT !.at = "mark_used"]
    OBVIOUS
  <2>2. next.at = "mark_used" /\ next.ev = task[t].ev
    BY <1>l, <2>1 DEF Local
  <2>3. /\ Goto(t, next) /\ task[t].at = "connection" /\ CountsStay
        /\ UNCHANGED <<agent, oob, events>>
    BY <1>4, <2>1 DEF MissConnection, CountsStay, At
  <2>4. task'[t] = next /\ \A u \in Task : u # t => task'[u] = task[u]
    BY <2>3, OneTaskMoves
  <2>5. Connecting(task[t]) /\ Connecting(task'[t])
    BY <2>2, <2>3, <2>4 DEF Connecting, ConnectionHandlerStep
  <2>6. PICK e \in Event : e = task[t].ev
    BY <1>3, <2>5
  <2> QED BY <1>3, <2>2, <2>3, <2>4, <2>5, <2>6, GuessHandles
<1>5. CASE UpdateConnection(t) \/ MarkUsed(t)
  <2>1. /\ task[t].at \in {"connection", "mark_used"} /\ Goto(t, Idle) /\ UseInvites
        /\ UNCHANGED <<attempts, checked, agent, oob, events>>
        /\ \/ status' = status /\ agentId' = agentId
           \/ /\ task[t].at = "connection" /\ agentId' = task[t].ev.id
              /\ status' = IF task[t].ev.st = "completed" THEN "unverified" ELSE "disconnected"
    BY <1>5 DEF UpdateConnection, UpdateStatus, MarkUsed, Finish, At
  <2>2. task'[t] = Idle /\ \A u \in Task : u # t => task'[u] = task[u]
    BY <2>1, OneTaskMoves
  <2>3. Connecting(task[t]) /\ Untouched
    BY <1>3, <2>1 DEF Connecting, ConnectionHandlerStep
  <2>4. \A u \in Task : ~Connecting(task'[u]) /\ ~Proposing(task'[u])
    BY <1>3, <1>i, <2>2, <2>3
       DEF Untouched, Connecting, Proposing, ConnectionHandlerStep, CredentialHandlerStep
  <2>5. OneConnection'
    BY <2>1, <2>4, AgentStays, OneConnectionKept DEF GuessInv
  <2>6. Present' = Present
    BY <2>1 DEF UseInvites, Present
  <2>7. RowGoes
    <3>1. task[t].at = "connection" => Present # {}
      BY DEF BindingInv, TaskBinds
    <3>2. task[t].at = "connection" => status # "none"
      BY <3>1 DEF GuessInv, OneRow
    <3> QED BY <1>3, <2>1, <2>3, <3>2, NullsAreNotIds DEF RowGoes
  <2>8. OneRow'
    <3>1. \A u \in Task : task'[u] = task[u] \/ Asks(task[u])'
      BY <1>i, <2>2 DEF Asks
    <3> QED BY <2>1, <2>6, <2>7, <3>1, AgentStays, OneRowKept DEF GuessInv
  <2>9. Counted'
    <3>1. Comparing' = {} /\ Cardinality({}) = 0
      BY <2>4, FS_EmptySet DEF Comparing, Proposing, CredentialHandlerStep
    <3>2. \A u \in Task : task'[u].at # "reset"
      BY <2>4 DEF Proposing, CredentialHandlerStep
    <3>3. \A i \in Invite : checked'[i] = 0 /\ attempts' = 0
      BY <2>1, <2>3 DEF Untouched
    <3> QED BY <3>1, <3>2, <3>3, LimitsAreNat DEF Counted, InviteWith
  <2>10. Early' => Untouched'
    <3>1. CASE status' = "unverified"
      <4>1. \/ task[t].ev.st = "completed"
            \/ status = "unverified"
        BY <2>1, <3>1
      <4>2. task[t].ev.st = "completed"
        BY <2>3, <4>1 DEF Untouched
      <4>3. agent[task[t].ev.id].st \in {"completed", "hungup", "deleted"}
        BY <1>3, <2>3, <4>2 DEF Told
      <4>4. \A c \in AgentConn : agent[c].st \notin {"requested", "abandoned"}
        BY <1>3, <2>3, <4>3 DEF GuessInv, OneConnection
      <4>5. ~Early'
        BY <1>3, <2>1, <2>3, <2>4, <3>1, <4>4 DEF Early, Connecting
      <4> QED BY <4>5
    <3>2. CASE status' # "unverified"
      <4>1. status' \in {"none", "pending", "disconnected"}
        BY <2>1, <2>3, <3>2 DEF Untouched
      <4> QED BY <2>1, <2>3, <2>4, <4>1 DEF Untouched, Proposing
    <3> QED BY <3>1, <3>2
  <2> QED BY <2>5, <2>8, <2>9, <2>10 DEF GuessInv
<1> QED BY <1>1, <1>2, <1>4, <1>5

(* Fewer compare, nothing else is counted. *)
LEMMA CountedLess ==
  ASSUME TypeOK, Counted, IsFiniteSet(Task), checked' = checked, attempts' = attempts,
         InviteWith("used")' \subseteq InviteWith("used"), Comparing' \subseteq Comparing,
         \A t \in Task : task'[t].at = "reset" =>
            task[t].at = "reset" \/ InviteWith("used")' = {}
  PROVE  Counted'
<1>1. IsFiniteSet(Comparing)
  BY FS_Subset DEF Comparing
<1>2. /\ Cardinality(Comparing') <= Cardinality(Comparing)
      /\ Cardinality(Comparing) \in Nat /\ Cardinality(Comparing') \in Nat
  BY <1>1, FS_Subset, FS_CardinalityType
<1>3. \A i \in InviteWith("used")' : checked[i] \in Nat /\ i \in InviteWith("used")
  BY DEF InviteWith, TypeOK
<1>4. \A i \in InviteWith("used")' :
        /\ checked'[i] + Cardinality(Comparing') <= attempts'
        /\ checked'[i] + Cardinality(Comparing') < PinLimit
  BY <1>2, <1>3, LimitsAreNat DEF Counted, TypeOK
<1>5. \A t \in Task : task'[t].at = "reset" => InviteWith("used")' = {}
  BY DEF Counted
<1> QED BY <1>4, <1>5 DEF Counted

(* A step of a credential handler: the connection came up before. *)
LEMMA GuessMoves ==
  ASSUME TypeOK, GuessInv, ~Untouched, NEW t \in Task, NEW next, Goto(t, next),
         next.at \in CredentialHandlerStep \cup {"idle"},
         agent' = agent, oob' = oob, agentId' = agentId, Present' = Present,
         status' = status \/ status' \notin {"none", "pending"},
         \A e \in events' : OfConnection(e) => e \in events,
         Counted'
  PROVE  GuessInv'
<1>1. ~Early /\ status \notin {"none", "pending"} /\ agentId # NoConn
  BY DEF GuessInv, Early, OneRow
<1>2. task'[t] = next /\ \A u \in Task : u # t => task'[u] = task[u]
  BY OneTaskMoves
<1>3. ~Connecting(next)
  BY DEF Connecting, ConnectionHandlerStep, CredentialHandlerStep
<1>4. \A u \in Task : task'[u] = task[u] \/ Asks(task[u])'
  BY <1>2 DEF Asks, CredentialHandlerStep
<1>5. OneConnection'
  BY <1>2, <1>3, AgentStays, OneConnectionKept DEF GuessInv
<1>6. OneRow'
  BY <1>1, <1>4, AgentStays, OneRowKept DEF GuessInv, RowGoes
<1>7. ~Early'
  BY <1>1, <1>2, <1>3 DEF Early, OfConnection, Connecting
<1> QED BY <1>5, <1>6, <1>7 DEF GuessInv

(* What the steps of a proposal's handler count. *)
LEMMA StepCounts ==
  ASSUME TypeOK, GuessInv, IsFiniteSet(Task), NEW t \in Task,
         IncrementAttempts(t) \/ ComparePin(t)
  PROVE  Counted' /\ (\E next : Goto(t, next) /\ next.at \in CredentialHandlerStep)
<1> USE DEF row, invites, cloud
<1>l. task[t] \in Local
  BY DEF TypeOK, TaskOK
<1>f. IsFiniteSet(Comparing) /\ Cardinality(Comparing) \in Nat
  BY FS_Subset, FS_CardinalityType DEF Comparing
<1>c. Counted /\ InviteWith("used") \subseteq Invite
  BY DEF GuessInv, InviteWith
<1>1. CASE IncrementAttempts(t)
  <2>1. PICK next : next = [task[t] EXCEPT !.cnt = PinTries - attempts',
                              !.at = IF attempts' >= PinLimit THEN "lock" ELSE "compare"]
    OBVIOUS
  <2>2. next.at = IF attempts' >= PinLimit THEN "lock" ELSE "compare"
    BY <1>l, <2>1 DEF Local
  <2>3. /\ task[t].at = "count" /\ attempts' = attempts + 1 /\ Goto(t, next)
        /\ UNCHANGED <<validity, checked>>
    BY <1>1, <2>1 DEF IncrementAttempts, At
  <2>4. task'[t] = next /\ \A u \in Task : u # t => task'[u] = task[u]
    BY <2>3, OneTaskMoves
  <2>5. InviteWith("used")' = InviteWith("used") /\ attempts \in Nat
    BY <2>3 DEF InviteWith, TypeOK
  <2>6. t \notin Comparing
    BY <2>3 DEF Comparing
  <2>7. \A u \in Task : task'[u].at = "reset" => task[u].at = "reset"
    BY <2>2, <2>4
  <2>8. Counted'
    <3>1. CASE attempts' >= PinLimit
      <4>1. Comparing' = Comparing
        BY <2>2, <2>3, <2>4, <3>1 DEF Comparing
      <4>2. \A i \in InviteWith("used")' :
              /\ checked'[i] + Cardinality(Comparing') <= attempts'
              /\ checked'[i] + Cardinality(Comparing') < PinLimit
        BY <1>c, <1>f, <2>3, <2>5, <4>1 DEF Counted, TypeOK
      <4> QED BY <1>c, <2>3, <2>5, <2>7, <4>2 DEF Counted
    <3>2. CASE ~(attempts' >= PinLimit)
      <4>1. Comparing' = Comparing \cup {t}
        BY <2>2, <2>4, <3>2 DEF Comparing
      <4>2. Cardinality(Comparing') = Cardinality(Comparing) + 1
        BY <1>f, <2>6, <4>1, FS_AddElement
      <4>3. \A i \in InviteWith("used") :
              checked[i] \in Nat /\ checked[i] + Cardinality(Comparing) <= attempts
        BY <1>c DEF Counted, TypeOK
      <4>4. \A i \in InviteWith("used")' :
              /\ checked'[i] + Cardinality(Comparing') <= attempts'
              /\ checked'[i] + Cardinality(Comparing') < PinLimit
        BY <1>f, <2>3, <2>5, <3>2, <4>2, <4>3, LimitsAreNat
      <4> QED BY <1>c, <2>3, <2>5, <2>7, <4>4 DEF Counted
    <3> QED BY <3>1, <3>2
  <2> QED BY <2>2, <2>3, <2>8 DEF CredentialHandlerStep
<1>2. CASE ComparePin(t)
  <2> DEFINE used == InviteWith("used")
             late == {i \in used : lapsed[i]}
             right == ExchangeOf(t).pin \in used \ late
             count == IF used = {} THEN 0 ELSE task[t].cnt
             step == IF late = {} THEN "answer" ELSE "expire_pins"
  <2>1. PICK next : next = [task[t] EXCEPT !.known = late, !.good = right,
                                           !.cnt = count, !.at = step]
    OBVIOUS
  <2>2. next.at = step
    <3> HIDE DEF step, count, right, late
    <3> QED BY <1>l, <2>1 DEF Local
  <2>3. /\ task[t].at = "compare" /\ Goto(t, next) /\ attempts' = attempts
        /\ validity' = validity
        /\ checked' = [i \in Invite |-> IF i \in used \ late THEN checked[i] + 1
                                                              ELSE checked[i]]
    BY <1>2, <2>1 DEF ComparePin, At
  <2>4. step \in {"answer", "expire_pins"}
    OBVIOUS
  <2>5. used' = used
    BY <2>3 DEF InviteWith
  <2>6. \A i \in used : checked'[i] \in {checked[i], checked[i] + 1} /\ checked[i] \in Nat
    BY <2>3 DEF InviteWith, TypeOK
  <2>7. \A i \in Invite : i \notin used => checked'[i] = checked[i]
    BY <2>3
  <2> HIDE DEF used, late, step
  <2>8. task'[t] = next /\ \A u \in Task : u # t => task'[u] = task[u]
    BY <2>3, OneTaskMoves
  <2>9. Comparing' = Comparing \ {t} /\ t \in Comparing
    BY <2>2, <2>3, <2>4, <2>8 DEF Comparing
  <2>10. Cardinality(Comparing') = Cardinality(Comparing) - 1
    BY <1>f, <2>9, FS_RemoveElement
  <2>11. \A i \in used :
           /\ checked'[i] + Cardinality(Comparing') <= attempts'
           /\ checked'[i] + Cardinality(Comparing') < PinLimit
    <3>1. \A i \in used : /\ checked[i] + Cardinality(Comparing) <= attempts
                          /\ checked[i] + Cardinality(Comparing) < PinLimit
      BY <1>c DEF Counted, used
    <3>2. attempts \in Nat /\ PinLimit \in Nat
      BY LimitsAreNat DEF TypeOK
    <3> QED BY <1>f, <2>3, <2>6, <2>10, <3>1, <3>2
  <2>12. \A i \in Invite : checked'[i] < PinLimit
    <3>1. Cardinality(Comparing') \in Nat
      BY <1>f, <2>9, FS_RemoveElement, FS_CardinalityType
    <3>2. \A i \in used : checked'[i] \in Nat
      BY <2>6
    <3>3. \A i \in used : checked'[i] < PinLimit
      BY <2>11, <3>1, <3>2, LimitsAreNat
    <3> QED BY <1>c, <2>7, <3>3 DEF Counted
  <2>13. \A u \in Task : task'[u].at = "reset" => task[u].at = "reset"
    BY <2>2, <2>4, <2>8
  <2> QED BY <1>c, <2>2, <2>3, <2>4, <2>5, <2>11, <2>12, <2>13
          DEF Counted, used, CredentialHandlerStep
<1> QED BY <1>1, <1>2

(* The handlers of credential events. *)
LEMMA GuessCredential ==
  ASSUME TypeOK, EvidenceInv, GuessInv, OneInvite, IsFiniteSet(Task), NEW t \in Task,
         \/ \E e \in events : \/ ProposalReceived(t, e) \/ ForwardExchange(t, e)
                              \/ ExchangeDone(t, e) \/ ProblemReported(t, e)
         \/ CredentialStep(t)
  PROVE  GuessInv'
<1> USE DEF row, invites, cloud
<1>l. task[t] \in Local /\ Counted
  BY DEF TypeOK, TaskOK, GuessInv
<1>1. ASSUME NEW e \in events, ForwardExchange(t, e) \/ ProblemReported(t, e)
      PROVE  GuessInv'
  <2>1. /\ task' = task /\ CountsStay /\ UNCHANGED <<agent, oob>>
        /\ events' \subseteq events \cup {CredentialEvent(e.id, "done")}
    BY <1>1 DEF ForwardExchange, ProblemReported, CountsStay
  <2>2. \A f \in events' : OfConnection(f) => f \in events
    BY <2>1 DEF OfConnection, CredentialEvent
  <2> QED BY <2>1, <2>2, AgentStays, GuessStill
<1>2. ASSUME NEW e \in events, ProposalReceived(t, e) \/ ExchangeDone(t, e)
      PROVE  GuessInv'
  <2>1. /\ task[t].at = "idle" /\ CountsStay /\ UNCHANGED <<agent, oob>> /\ events' \subseteq events
    BY <1>2 DEF ProposalReceived, ExchangeDone, CountsStay, At
  <2>2. CASE task' = task
    BY <2>1, <2>2, AgentStays, GuessStill
  <2>3. CASE task' # task
    <3>1. PICK next : /\ Goto(t, next) /\ next.at \in {"count", "done"}
                      /\ status \notin {"none", "pending", "disconnected"}
      <4>1. CASE ProposalReceived(t, e)
        <5> DEFINE next == [Idle EXCEPT !.at = "count", !.ev = e]
        <5>1. next.at = "count"
          BY DEF Idle
        <5>2. Goto(t, next) /\ status \in {"unverified", "verified_us"}
          BY <2>3, <4>1 DEF ProposalReceived
        <5> HIDE DEF next
        <5> QED BY <5>1, <5>2
      <4>2. CASE ExchangeDone(t, e)
        <5> DEFINE after == AfterDone(status, cred[e.id].role)
                   next == [Idle EXCEPT !.at = "done", !.ev = e, !.seen = after]
        <5>1. next.at = "done"
          <6> HIDE DEF after
          <6> QED BY DEF Idle
        <5>2. Goto(t, next) /\ after # status
          BY <2>3, <4>2 DEF ExchangeDone
        <5>3. status \notin {"none", "pending", "disconnected"}
          BY <5>2 DEF AfterDone
        <5> HIDE DEF next
        <5> QED BY <5>1, <5>2, <5>3
      <4> QED BY <1>2, <4>1, <4>2
    <3>2. task'[t] = next /\ \A u \in Task : u # t => task'[u] = task[u]
      BY <3>1, OneTaskMoves
    <3>3. Comparing' = Comparing /\ InviteWith("used")' = InviteWith("used")
      BY <2>1, <3>1, <3>2 DEF Comparing, InviteWith, CountsStay
    <3>4. Counted'
      BY <1>l, <2>1, <3>1, <3>2, <3>3, CountedKept DEF CountsStay
    <3>5. ~Untouched /\ Present' = Present
      BY <2>1, <3>1 DEF Untouched, Present, CountsStay
    <3> QED BY <2>1, <3>1, <3>4, <3>5, GuessMoves DEF CountsStay, CredentialHandlerStep
  <2> QED BY <2>2, <2>3
<1>3. ASSUME CredentialStep(t) PROVE GuessInv'
  <2>1. Proposing(task[t]) /\ GoesOn(t)
    BY <1>3, HandlerGoesOn DEF Proposing
  <2>2. ~Untouched
    BY <2>1 DEF Untouched
  <2>3. /\ UNCHANGED <<agent, oob, agentId>>
        /\ events' \subseteq events \cup {task[t].ev}
    BY <1>3 DEF CredentialStep, IncrementAttempts, LockInvites, ResetAttempts, ComparePin,
                ExpirePins, AcceptProposal, SendProblemReport, WriteDone, Reject
  <2>4. \A e \in events' : OfConnection(e) => e \in events
    BY <2>1, <2>3, CredentialTask DEF Proposing, OfConnection
  <2>5. Present' = Present
    <3>1. LockInvites(t) => Present' = Present
      BY DEF LockInvites, Present
    <3>2. ExpirePins(t) => Present \subseteq Present'
      BY DEF ExpirePins, Present
    <3>3. Present # {}
      BY <2>2 DEF GuessInv, Early, OneRow
    <3>4. ExpirePins(t) => Present' = Present
      BY <3>2, <3>3 DEF OneInvite, Present
    <3> QED BY <1>3, <3>1, <3>4
            DEF CredentialStep, IncrementAttempts, ResetAttempts, ComparePin, AcceptProposal,
                SendProblemReport, WriteDone, Present
  <2>6. status' = status \/ status' \notin {"none", "pending"}
    <3>1. WriteDone(t) => status' \in {"verified_them", "verified_us", "verified_both"}
      BY DEF WriteDone, At, EvidenceInv, TaskEvident
    <3> QED BY <1>3, <3>1
            DEF CredentialStep, IncrementAttempts, LockInvites, ResetAttempts, ComparePin,
                ExpirePins, AcceptProposal, SendProblemReport
  <2>7. PICK next : /\ Goto(t, next)
                    /\ next = Idle \/ next.at \in CredentialHandlerStep \ {"done"}
    BY <2>1 DEF GoesOn
  <2>8. next.at \in CredentialHandlerStep \cup {"idle"}
    BY <2>7 DEF Idle
  <2>9. task'[t] = next /\ \A u \in Task : u # t => task'[u] = task[u]
    BY <2>7, OneTaskMoves
  <2>10. Counted'
    <3>1. CASE IncrementAttempts(t) \/ ComparePin(t)
      BY <3>1, StepCounts
    <3>2. CASE LockInvites(t)
      <4>1. /\ task[t].at = "lock" /\ Goto(t, [task[t] EXCEPT !.at = "reset"])
            /\ UNCHANGED <<attempts, checked>>
            /\ validity' = [i \in Invite |-> IF i \in Present THEN "too_many_attempts"
                                             ELSE validity[i]]
        BY <3>2 DEF LockInvites, At
      <4>2. task'[t].at = "reset"
        BY <1>l, <4>1, OneTaskMoves DEF Local
      <4>3. InviteWith("used")' = {}
        BY <4>1 DEF InviteWith, Present
      <4>4. Comparing' = Comparing
        BY <2>9, <4>1, <4>2 DEF Comparing
      <4> QED BY <1>l, <4>1, <4>3, <4>4, CountedKept
    <3>3. CASE ResetAttempts(t)
      <4>1. /\ task[t].at = "reset" /\ attempts' = 0 /\ UNCHANGED <<validity, checked>>
            /\ Goto(t, [task[t] EXCEPT !.at = "report"])
        BY <3>3 DEF ResetAttempts, At
      <4>2. InviteWith("used") = {} /\ InviteWith("used")' = {}
        BY <1>l, <4>1 DEF Counted, InviteWith
      <4> QED BY <1>l, <4>1, <4>2 DEF Counted
    <3>4. CASE ExpirePins(t)
      <4>1. /\ task[t].at = "expire_pins" /\ UNCHANGED <<attempts, checked>>
            /\ Goto(t, [task[t] EXCEPT !.at = "answer", !.known = {}])
            /\ validity' = [i \in Invite |-> IF i \in task[t].known THEN "expired"
                                             ELSE validity[i]]
        BY <3>4 DEF ExpirePins, At
      <4> DEFINE after == [task[t] EXCEPT !.at = "answer", !.known = {}]
      <4>a. after.at = "answer"
        BY <1>l DEF Local
      <4>b. Goto(t, after)
        BY <4>1
      <4> HIDE DEF after
      <4>2. task'[t].at = "answer"
        BY <4>a, <4>b, OneTaskMoves
      <4>3. InviteWith("used")' \subseteq InviteWith("used")
        BY <4>1 DEF InviteWith
      <4>4. Comparing' = Comparing
        BY <2>9, <4>1, <4>2 DEF Comparing
      <4> QED BY <1>l, <2>9, <4>1, <4>2, <4>3, <4>4, CountedKept
    <3>5. CASE AcceptProposal(t) \/ SendProblemReport(t) \/ WriteDone(t)
      <4>1. /\ task[t].at \notin {"compare", "reset"} /\ Goto(t, Idle)
            /\ UNCHANGED <<attempts, checked, validity>>
        BY <3>5 DEF AcceptProposal, SendProblemReport, WriteDone, At, Finish, Reject
      <4>2. task'[t].at = "idle"
        BY <4>1, OneTaskMoves DEF Idle
      <4>3. Comparing' = Comparing /\ InviteWith("used")' = InviteWith("used")
        BY <2>9, <4>1, <4>2 DEF Comparing, InviteWith
      <4> QED BY <1>l, <2>9, <4>1, <4>2, <4>3, CountedKept
    <3> QED BY <1>3, <3>1, <3>2, <3>3, <3>4, <3>5 DEF CredentialStep
  <2> QED BY <2>2, <2>3, <2>4, <2>5, <2>6, <2>7, <2>8, <2>10, GuessMoves
<1> QED BY <1>1, <1>2, <1>3

(* The connection protocol ends: its one announcement is on the way. *)
LEMMA GuessSettles ==
  ASSUME TypeOK, GuessInv, NEW c \in AgentConn, NEW st \in {"completed", "abandoned"},
         AgentSettles(c, st)
  PROVE  GuessInv'
<1> USE DEF row, invites, cloud
<1>1. /\ agent[c].st = "requested" /\ agent' = [agent EXCEPT ![c].st = st]
      /\ events' = events \cup {ConnectionEvent(c, st)}
      /\ CountsStay /\ oob' = oob /\ task' = task
  BY DEF AgentSettles, CountsStay
<1>2. /\ agent'[c].st = st /\ agent'[c].oob = agent[c].oob
      /\ \A d \in AgentConn : d # c => agent'[d] = agent[d]
  BY <1>1 DEF TypeOK, Agent
<1>3. Untouched /\ \A d \in AgentConn : agent[d].st # "none" => d = c
  BY <1>1 DEF GuessInv, Early, OneConnection
<1>4. /\ \A e \in events : ~OfConnection(e)
      /\ \A t \in Task : ~Connecting(task[t])
  <2>1. ASSUME NEW e \in events, OfConnection(e) PROVE FALSE
    <3>1. e.id \in AgentConn /\ Told(e)
      BY <2>1 DEF TypeOK, Event, OfConnection, GuessInv, OneConnection
    <3> QED BY <1>1, <1>3, <3>1 DEF Told
  <2>2. ASSUME NEW t \in Task, Connecting(task[t]) PROVE FALSE
    <3>1. task[t].ev.id \in AgentConn /\ Told(task[t].ev)
      BY <2>2 DEF TypeOK, TaskOK, Started, Connecting, HandlerStep, Event, GuessInv,
                  OneConnection
    <3> QED BY <1>1, <1>3, <3>1 DEF Told
  <2> QED BY <2>1, <2>2
<1>5. OneConnection'
  <2>1. PICK e : e = ConnectionEvent(c, st)
    OBVIOUS
  <2>2. e.id = c /\ e.st = st
    BY <2>1 DEF ConnectionEvent
  <2>3. Told(e)'
    BY <1>2, <2>2 DEF Told
  <2>4. \A f \in events' : OfConnection(f) => f = e
    BY <1>1, <1>4, <2>1
  <2>5. /\ \A a, d \in AgentConn : agent'[a].st # "none" /\ agent'[d].st # "none" => a = d
        /\ \A d \in AgentConn : agent'[d].st # "none" =>
             agent'[d].oob \in Invite /\ oob'[agent'[d].oob] # "unused"
    BY <1>1, <1>2, <1>3 DEF GuessInv, OneConnection
  <2>6. /\ \A f, g \in events' : OfConnection(f) /\ OfConnection(g) => f = g
        /\ \A f \in events' : OfConnection(f) => Told(f)'
    BY <2>3, <2>4
  <2> QED BY <1>1, <1>4, <2>5, <2>6 DEF OneConnection, Connecting, OfConnection
<1>6. Present' = Present /\ InviteWith("used")' = InviteWith("used") /\ Comparing' = Comparing
  BY <1>1 DEF Present, InviteWith, Comparing, CountsStay
<1>7. OneRow'
  <2>1. \A d \in AgentConn : agent[d].st # "none" => agent'[d].st # "none"
    BY <1>2
  <2>2. ASSUME NEW t \in Task PROVE Asks(task[t])'
    <3>1. Asks(task[t])
      BY DEF GuessInv, OneRow
    <3> QED BY <1>1, <1>6, <2>1, <3>1 DEF Asks, CountsStay
  <2> QED BY <1>1, <1>6, <2>2 DEF GuessInv, OneRow, CountsStay
<1>8. Untouched'
  BY <1>1, <1>3 DEF Untouched, CountsStay, Proposing
<1>9. Counted'
  BY <1>1, <1>6, CountedKept DEF GuessInv, CountsStay
<1> QED BY <1>5, <1>7, <1>8, <1>9 DEF GuessInv

(* What else the cloudagent, the peer and the operator do to exchanges. *)
LEMMA GuessCloud ==
  ASSUME TypeOK, BindingInv, GuessInv, OneInvite,
         PeerAct \/ AgentStep \/ (\E k \in Cred : SubmitPinCode(k))
  PROVE  GuessInv'
<1> USE DEF row, invites, cloud
<1>1. ASSUME CountsStay, UNCHANGED <<agent, oob, task>>, NEW k, NEW s,
             events' = events \/ events' = events \cup {CredentialEvent(k, s)}
      PROVE  GuessInv'
  <2>1. \A e \in events' : OfConnection(e) => e \in events
    BY <1>1 DEF OfConnection, CredentialEvent
  <2> QED BY <1>1, <2>1, AgentStays, GuessStill
<1>2. ASSUME NEW c \in AgentConn, PeerHangsUp(c) PROVE GuessInv'
  <2>1. /\ agent[c].st = "completed" /\ agent' = [agent EXCEPT ![c].st = "hungup"]
        /\ events' = events \cup {RotationEvent(c)}
        /\ CountsStay /\ oob' = oob /\ task' = task
    BY <1>2 DEF PeerHangsUp, CountsStay
  <2>2. AgentGoes /\ OobGoes
    BY <2>1 DEF AgentGoes, OobGoes, TypeOK, Agent
  <2>3. \A e \in events' : OfConnection(e) => e \in events
    BY <2>1 DEF OfConnection, RotationEvent
  <2> QED BY <2>1, <2>2, <2>3, GuessStill
<1>3. ASSUME NEW k \in Cred, NEW c \in AgentConn, NEW pin \in Invite \cup {NoInvite},
             NEW agrees \in BOOLEAN, PeerProposes(k, c, pin, agrees)
      PROVE  GuessInv'
  BY <1>3, <1>1 DEF PeerProposes, CountsStay
<1>4. ASSUME NEW k \in Cred, NEW r \in Reports, PeerReports(k, r) PROVE GuessInv'
  BY <1>4, <1>1 DEF PeerReports, CountsStay
<1>5. ASSUME NEW k \in Cred, PeerAdvances(k) PROVE GuessInv'
  BY <1>5, <1>1 DEF PeerAdvances, CountsStay
<1>6. ASSUME NEW k \in Cred, SubmitPinCode(k) PROVE GuessInv'
  BY <1>6, <1>1 DEF SubmitPinCode, CountsStay
<1> QED BY <1>2, <1>3, <1>4, <1>5, <1>6, GuessBegins, GuessSettles DEF PeerAct, AgentStep

(* A handler fails.  A connection's event comes again. *)
LEMMA GuessFails ==
  ASSUME TypeOK, GuessInv, IsFiniteSet(Task), NEW t \in Task, HandlerFails(t)
  PROVE  GuessInv'
<1> USE DEF row, invites, cloud
<1>1. /\ task[t].at \in HandlerStep /\ Goto(t, Idle) /\ CountsStay
      /\ UNCHANGED <<agent, oob>>
      /\ \/ events' = events \cup {task[t].ev}
         \/ ~Latest(task[t].ev) /\ events' = events
  BY DEF HandlerFails, Reject, Finish, CountsStay
<1>2. /\ task'[t] = Idle /\ Idle.at = "idle"
      /\ \A u \in Task : u # t => task'[u] = task[u]
  BY <1>1, OneTaskMoves DEF Idle
<1>3. Started(task[t])
  BY DEF TypeOK, TaskOK
<1>4. Present' = Present /\ InviteWith("used")' = InviteWith("used")
  BY <1>1 DEF Present, InviteWith, CountsStay
<1>5. /\ Comparing' \subseteq Comparing
      /\ \A u \in Task : task'[u].at = "reset" => task[u].at = "reset"
  BY <1>2 DEF Comparing
<1>6. Counted'
  BY <1>1, <1>4, <1>5, CountedLess DEF GuessInv, CountsStay
<1>7. CASE task[t].at \in CredentialHandlerStep
  <2>1. task[t].ev.of = "credential"
    BY <1>3, <1>7 DEF Started, HandlerStep, ConnectionHandlerStep, CredentialHandlerStep
  <2>2. \A e \in events' : OfConnection(e) => e \in events
    BY <1>1, <2>1 DEF OfConnection
  <2>3. ~Untouched
    BY <1>7 DEF Untouched, Proposing
  <2>4. Idle.at \in CredentialHandlerStep \cup {"idle"}
    BY <1>2
  <2> QED BY <1>1, <1>4, <1>6, <2>2, <2>3, <2>4, GuessMoves DEF CountsStay
<1>8. CASE task[t].at \in ConnectionHandlerStep
  <2>1. PICK e : e = task[t].ev
    OBVIOUS
  <2>2. OfConnection(e) /\ Told(e) /\ events' = events \cup {e}
    BY <1>1, <1>3, <1>8, <2>1
       DEF Started, HandlerStep, OfConnection, Latest, GuessInv, OneConnection, Connecting
  <2>3. Untouched
    BY <1>8 DEF GuessInv, Early, Connecting
  <2>4. /\ \A f \in events : ~OfConnection(f)
        /\ \A u \in Task : Connecting(task[u]) => u = t
    BY <1>8 DEF GuessInv, OneConnection, Connecting
  <2>5. \A u \in Task : ~Connecting(task'[u]) /\ ~Proposing(task'[u])
    BY <1>2, <2>3, <2>4
       DEF Connecting, Proposing, ConnectionHandlerStep, CredentialHandlerStep, Untouched
  <2>6. OneConnection'
    <3>1. Told(e)'
      BY <1>1, <2>2 DEF Told
    <3>2. \A f \in events' : OfConnection(f) => f = e
      BY <2>2, <2>4
    <3>3. /\ \A f, g \in events' : OfConnection(f) /\ OfConnection(g) => f = g
          /\ \A f \in events' : OfConnection(f) => Told(f)'
      BY <3>1, <3>2
    <3> QED BY <1>1, <2>5, <3>3 DEF OneConnection, Connecting, GuessInv, OfConnection
  <2>7. OneRow'
    <3>1. \A u \in Task : task'[u] = task[u] \/ Asks(task[u])'
      BY <1>2 DEF Asks
    <3> QED BY <1>1, <1>4, <3>1, AgentStays, OneRowKept DEF GuessInv, RowGoes, CountsStay
  <2>8. Untouched'
    BY <1>1, <2>3, <2>5 DEF Untouched, CountsStay, Proposing
  <2> QED BY <1>6, <2>6, <2>7, <2>8 DEF GuessInv
<1> QED BY <1>1, <1>7, <1>8 DEF HandlerStep

(* The process starts again: the snapshot tells of the one connection once. *)
LEMMA GuessRestart ==
  ASSUME TypeOK, GuessInv, IsFiniteSet(Task), Restart
  PROVE  GuessInv'
<1> USE DEF row, invites, cloud
<1>1. /\ task' = [t \in Task |-> Idle] /\ events' \subseteq Snapshot
      /\ CountsStay /\ UNCHANGED <<agent, oob>>
  BY DEF Restart, CountsStay
<1>2. \A t \in Task : task'[t].at = "idle"
  BY <1>1 DEF Idle
<1>3. \A t \in Task : ~Connecting(task'[t]) /\ ~Proposing(task'[t])
  BY <1>2 DEF Connecting, Proposing, ConnectionHandlerStep, CredentialHandlerStep
<1>4. ASSUME NEW e \in events', OfConnection(e)
      PROVE  /\ e.id \in AgentConn /\ e = ConnectionEvent(e.id, e.st)
             /\ \/ e.st = "completed" /\ agent[e.id].st \in {"completed", "hungup"}
                \/ e.st = "abandoned" /\ agent[e.id].st = "abandoned"
  <2>1. e \in Snapshot
    BY <1>1
  <2>2. \/ \E c \in AgentConn : /\ agent[c].st \in {"completed", "hungup"}
                                /\ e = ConnectionEvent(c, "completed")
        \/ \E c \in AgentConn : agent[c].st = "abandoned" /\ e = ConnectionEvent(c, "abandoned")
    BY <1>4, <2>1 DEF Snapshot, OfConnection, CredentialEvent
  <2> QED BY <2>2 DEF ConnectionEvent
<1>5. OneConnection'
  <2>1. ASSUME NEW e \in events', OfConnection(e) PROVE Told(e)'
    BY <1>1, <1>4, <2>1 DEF Told
  <2>2. ASSUME NEW e \in events', NEW f \in events', OfConnection(e), OfConnection(f)
        PROVE  e = f
    <3>1. e.id = f.id
      BY <1>4, <2>2 DEF GuessInv, OneConnection
    <3>2. e.st = f.st
      BY <1>4, <2>2, <3>1
    <3> QED BY <1>4, <2>2, <3>1, <3>2
  <2>3. /\ \A e, f \in events' : OfConnection(e) /\ OfConnection(f) => e = f
        /\ \A e \in events' : OfConnection(e) => Told(e)'
    BY <2>1, <2>2
  <2> QED BY <1>1, <1>3, <2>3 DEF GuessInv, OneConnection, Connecting, OfConnection
<1>6. Present' = Present /\ InviteWith("used")' = InviteWith("used")
  BY <1>1 DEF Present, InviteWith, CountsStay
<1>7. OneRow'
  <2>1. \A t \in Task : task'[t] = task[t] \/ Asks(task[t])'
    BY <1>2 DEF Asks
  <2> QED BY <1>1, <1>6, <2>1, AgentStays, OneRowKept DEF GuessInv, RowGoes, CountsStay
<1>8. Early' => Early
  <2>1. \A e \in events' : OfConnection(e) /\ e.st = "abandoned" =>
          \E c \in AgentConn : agent[c].st = "abandoned"
    BY <1>4
  <2> QED BY <1>1, <1>3, <2>1 DEF Early, CountsStay, Connecting, OfConnection
<1>9. Untouched => Untouched'
  BY <1>1, <1>3 DEF Untouched, CountsStay, Proposing
<1>10. Comparing' \subseteq Comparing /\ \A t \in Task : task'[t].at # "reset"
  BY <1>2 DEF Comparing
<1>11. Counted'
  BY <1>1, <1>6, <1>10, CountedLess DEF GuessInv, CountsStay
<1> QED BY <1>5, <1>7, <1>8, <1>9, <1>11 DEF GuessInv

LEMMA GuessNext ==
  ASSUME TypeOK, EvidenceInv, BindingInv, GuessInv, OneInvite, PinLimit > 0,
         IsFiniteSet(Task), "drop" \notin Faults, [Next]_vars
  PROVE  GuessInv'
<1> USE DEF row, invites, cloud
<1>1. CASE UserStep
  BY <1>1, GuessNewConnection, GuessBegins, GuessDisconnect, GuessCloud DEF UserStep
<1>2. CASE PeerAct \/ AgentStep
  BY <1>2, GuessCloud
<1>3. CASE Mishap
  <2>1. ASSUME NEW i \in Invite, InviteLapses(i) PROVE GuessInv'
    <3>1. CountsStay /\ UNCHANGED <<agent, oob, events, task>>
      BY <2>1 DEF InviteLapses, CountsStay
    <3> QED BY <3>1, AgentStays, GuessStill
  <2>2. ~SocketReconnects
    BY DEF SocketReconnects
  <2> QED BY <1>3, <2>1, <2>2, GuessNewConnection, GuessFails, GuessRestart DEF Mishap
<1>4. ASSUME NEW t \in Task, Handle(t) PROVE GuessInv'
  BY <1>4, GuessConnection, GuessCredential DEF Handle
<1>5. ASSUME NEW t \in Task, NodeStep(t) PROVE GuessInv'
  BY <1>5, GuessNewConnection, GuessConnection, GuessDisconnect, GuessCredential
     DEF NodeStep, ConnectionStep
<1>6. CASE UNCHANGED vars
  <2>1. CountsStay /\ UNCHANGED <<agent, oob, events, task>>
    BY <1>6 DEF vars, CountsStay
  <2> QED BY <2>1, AgentStays, GuessStill
<1> QED BY <1>1, <1>2, <1>3, <1>4, <1>5, <1>6 DEF Next

LEMMA GuessInit == PinLimit > 0 /\ Init => GuessInv
<1> SUFFICES ASSUME PinLimit > 0, Init PROVE GuessInv
  OBVIOUS
<1>1. \A t \in Task : task[t].at = "idle"
  BY DEF Init, Idle
<1>2. \A c \in AgentConn : agent[c].st = "none"
  BY DEF Init
<1>3. \A t \in Task : ~Connecting(task[t]) /\ ~Proposing(task[t]) /\ Asks(task[t])
  BY <1>1 DEF Connecting, Proposing, ConnectionHandlerStep, CredentialHandlerStep, Asks
<1>4. Untouched
  BY <1>3 DEF Init, Untouched
<1>5. OneConnection
  BY <1>2, <1>3 DEF Init, OneConnection
<1>6. OneRow
  BY <1>3 DEF Init, OneRow, Present
<1> QED BY <1>4, <1>5, <1>6, TypeInit, UntouchedCounts DEF GuessInv

(* With one invitation, a limit that allows a try and no lost socket, the PIN of
   the invitation is compared fewer times than the limit, whatever proposals
   overlap, fail, or come again after a restart. *)
THEOREM GuessBudgetHolds ==
  ASSUME OneInvite, PinLimit > 0, IsFiniteSet(Task), "drop" \notin Faults
  PROVE  Spec => []GuessBudget
<1>1. TypeOK /\ EvidenceInv /\ BindingInv /\ GuessInv /\ [Next]_vars => GuessInv'
  BY GuessNext
<1>2. GuessInv => GuessBudget
  BY DEF GuessInv, Counted, GuessBudget
<1>3. Init => GuessInv
  BY GuessInit
<1> QED BY <1>1, <1>2, <1>3, TypeCorrect, EvidenceHolds, BindingInvHolds, PTL DEF Spec
=============================================================================
