---------------------------- MODULE EvidenceProofs ----------------------------
(***************************************************************************)
(* A connection is verified only on evidence, a row points only to a       *)
(* connection made with an invitation of its own, and an unverified row    *)
(* has no invitation left that counts as open: whatever overlaps, fails,   *)
(* is lost or replayed.                                                    *)
(***************************************************************************)
EXTENDS ConnectionProofs

\* What no step takes away: invitations, and what an exchange was begun with.
Kept(k) ==
    cred[k].role # "none" =>
        /\ cred'[k].role = cred[k].role /\ cred'[k].pin = cred[k].pin
        /\ cred'[k].agrees = cred[k].agrees
        /\ cred[k].st = "done" => cred'[k].st = "done"

(* Evidence, once gathered, is never lost. *)
LEMMA EvidenceStays ==
  ASSUME Present \subseteq Present', NEW k \in Cred, Kept(k)
  PROVE  /\ IssuedTo(k) => IssuedTo(k)'
         /\ ReceivedFrom(k) => ReceivedFrom(k)'
BY DEF Kept, IssuedTo, ReceivedFrom, Genuine

(* The part of the invariant that speaks of a task not moved by a step. *)
LEMMA TaskStays ==
  ASSUME TypeOK, RolesOK, Present \subseteq Present', \A k \in Cred : Kept(k),
         NEW t \in Task, TaskEvident(task[t]), task'[t] = task[t]
  PROVE  TaskEvident(task[t])'
<1>1. \A k \in Cred : /\ IssuedTo(k) => IssuedTo(k)'
                      /\ ReceivedFrom(k) => ReceivedFrom(k)'
  BY EvidenceStays
<1>2. CASE task[t].at \notin CredentialHandlerStep
  BY <1>2 DEF TaskEvident, CredentialHandlerStep
<1>3. CASE task[t].at \in CredentialHandlerStep
  <2> DEFINE k == task[t].ev.id
  <2>1. k \in Cred
    BY <1>3, CredentialTask
  <2>2. cred[k].role # "none"
    BY <1>3, <2>1 DEF TaskEvident, RolesOK, CredentialHandlerStep
  <2>3. /\ cred'[k].role = cred[k].role /\ cred'[k].pin = cred[k].pin
        /\ cred'[k].agrees = cred[k].agrees
        /\ cred[k].st = "done" => cred'[k].st = "done"
    BY <2>1, <2>2 DEF Kept
  <2>4. (\E j \in Cred : IssuedTo(j)) => \E j \in Cred : IssuedTo(j)'
    BY <1>1
  <2>5. (\E j \in Cred : ReceivedFrom(j)) => \E j \in Cred : ReceivedFrom(j)'
    BY <1>1
  <2> QED BY <2>3, <2>4, <2>5 DEF TaskEvident
<1> QED BY <1>2, <1>3

(* A step keeps the invariant if it keeps invitations and exchanges, verifies
   the row on evidence only, and leaves its tasks evident. *)
LEMMA EvidenceKept ==
  ASSUME TypeOK, EvidenceInv, Present \subseteq Present', \A k \in Cred : Kept(k),
         status' = status \/ status' \notin {"verified_them", "verified_us", "verified_both"}
           \/ VerifiedOnEvidence',
         RolesOK', AcceptedIsGenuine', DoneIsDone',
         \A t \in Task : task'[t] = task[t] \/ TaskEvident(task[t])'
  PROVE  EvidenceInv'
<1>1. VerifiedOnEvidence'
  <2>1. \A k \in Cred : /\ IssuedTo(k) => IssuedTo(k)'
                        /\ ReceivedFrom(k) => ReceivedFrom(k)'
    BY EvidenceStays
  <2> QED BY <2>1 DEF EvidenceInv, VerifiedOnEvidence, TheyAreVerified, WeAreVerified
<1>2. \A t \in Task : TaskEvident(task[t])'
  BY TaskStays DEF EvidenceInv
<1> QED BY <1>1, <1>2 DEF EvidenceInv

(* The exchanges and notifications a step leaves alone stay as they are. *)
LEMMA ExchangesKept ==
  ASSUME EvidenceInv, Present \subseteq Present', cred' = cred, events' \subseteq events
  PROVE  /\ \A k \in Cred : Kept(k)
         /\ RolesOK' /\ AcceptedIsGenuine' /\ DoneIsDone'
BY DEF EvidenceInv, Kept, RolesOK, AcceptedIsGenuine, DoneIsDone, Genuine

(* The locals of a request or of a connection handler claim nothing. *)
LEMMA SilentIsEvident ==
  ASSUME NEW t \in Task, task'[t].at \notin CredentialHandlerStep
  PROVE  TaskEvident(task[t])'
BY DEF TaskEvident, CredentialHandlerStep

(* A step moves one task at most. *)
LEMMA OneTaskMoves ==
  ASSUME TypeOK, NEW t \in Task, NEW next, Goto(t, next)
  PROVE  task'[t] = next /\ \A u \in Task : u # t => task'[u] = task[u]
BY DEF Goto, TypeOK, TaskOK

(* A step that leaves exchanges alone, adds no notification, verifies nothing and
   moves one task to a place that claims nothing, keeps the invariant. *)
LEMMA SilentStep ==
  ASSUME TypeOK, EvidenceInv, NEW t \in Task, NEW next, Goto(t, next),
         next.at \notin CredentialHandlerStep,
         Present \subseteq Present', cred' = cred, events' \subseteq events,
         status' = status \/ status' \in {"pending", "unverified", "disconnected"}
  PROVE  EvidenceInv'
<1>1. /\ \A k \in Cred : Kept(k)
      /\ RolesOK' /\ AcceptedIsGenuine' /\ DoneIsDone'
  BY ExchangesKept
<1>2. \A u \in Task : task'[u] = task[u] \/ TaskEvident(task[u])'
  BY OneTaskMoves, SilentIsEvident
<1> QED BY <1>1, <1>2, EvidenceKept

(* An idle task is not a credential handler. *)
LEMMA IdleIsSilent == Idle.at \notin CredentialHandlerStep
BY DEF Idle, CredentialHandlerStep

(* A step that leaves exchanges, tasks and status alone keeps the invariant. *)
LEMMA StillStep ==
  ASSUME TypeOK, EvidenceInv, Present \subseteq Present', cred' = cred, task' = task,
         events' \subseteq events,
         status' = status \/ status' \in {"pending", "unverified", "disconnected"}
  PROVE  EvidenceInv'
<1>1. /\ \A k \in Cred : Kept(k)
      /\ RolesOK' /\ AcceptedIsGenuine' /\ DoneIsDone'
  BY ExchangesKept
<1> QED BY <1>1, EvidenceKept

(* The requests that issue and accept invitations. *)
LEMMA EvidenceNewConnection ==
  ASSUME TypeOK, EvidenceInv, NEW t \in Task,
         \/ SubmitNewInvite(t) \/ SubmitFromInvite(t) \/ RequestFails(t)
         \/ NewConnectionStep(t)
  PROVE  EvidenceInv'
<1>l. task[t] \in Local
  BY DEF TypeOK, TaskOK
<1>s. \A step \in RequestStep : step \notin CredentialHandlerStep
  BY DEF RequestStep, CredentialHandlerStep
<1>p. UNCHANGED validity => Present' = Present
  BY DEF Present
<1> USE DEF row, invites, cloud
<1>1. CASE SubmitNewInvite(t)
  <2> DEFINE next == [Idle EXCEPT !.at = IF status = "none" THEN "create" ELSE "check",
                                  !.seen = status]
  <2>1. next.at \notin CredentialHandlerStep
    BY DEF Idle, CredentialHandlerStep
  <2>2. Goto(t, next)
    BY <1>1 DEF SubmitNewInvite
  <2> HIDE DEF next
  <2> QED BY <1>1, <1>p, <2>1, <2>2, SilentStep DEF SubmitNewInvite
<1>2. CASE SubmitFromInvite(t)
  <2>1. PICK i \in Invite, c \in AgentConn :
          Goto(t, [Idle EXCEPT !.at = "insert", !.inv = i, !.conn = c])
    BY <1>2 DEF SubmitFromInvite
  <2> DEFINE next == [Idle EXCEPT !.at = "insert", !.inv = i, !.conn = c]
  <2>2. next.at \notin CredentialHandlerStep
    BY DEF Idle, CredentialHandlerStep
  <2> QED BY <1>2, <1>p, <2>1, <2>2, SilentStep DEF SubmitFromInvite
<1>3. CASE RequestFails(t)
  BY <1>3, <1>p, IdleIsSilent, SilentStep DEF RequestFails, Finish
<1>4. CASE CheckInvites(t)
  <2> DEFINE next == [task[t] EXCEPT !.at = "create"]
  <2>1. next.at \notin CredentialHandlerStep
    BY <1>l DEF Local, CredentialHandlerStep
  <2>2. Goto(t, next) \/ Goto(t, Idle)
    BY <1>4 DEF CheckInvites, Finish
  <2> QED BY <1>4, <1>p, <2>1, <2>2, IdleIsSilent, SilentStep DEF CheckInvites
<1>5. CASE CreateInvitation(t)
  <2>1. PICK i \in Invite :
          Goto(t, [task[t] EXCEPT !.inv = i,
                     !.at = IF task[t].seen = "none" THEN "insert" ELSE "reread"])
    BY <1>5 DEF CreateInvitation
  <2> DEFINE next == [task[t] EXCEPT !.inv = i,
                        !.at = IF task[t].seen = "none" THEN "insert" ELSE "reread"]
  <2>2. next.at \notin CredentialHandlerStep
    BY <1>l DEF Local, CredentialHandlerStep
  <2> QED BY <1>5, <1>p, <2>1, <2>2, SilentStep DEF CreateInvitation
<1>6. CASE InsertNewConnection(t)
  <2>1. Present \subseteq Present'
    BY <1>6 DEF InsertNewConnection, Present, TypeOK
  <2>2. status' = status \/ status' = "pending"
    BY <1>6 DEF InsertNewConnection
  <2> QED BY <1>6, <2>1, <2>2, IdleIsSilent, SilentStep DEF InsertNewConnection, Finish
<1>7. CASE RereadInvites(t)
  <2> DEFINE next == [task[t] EXCEPT !.at = "purge", !.known = Present]
  <2>1. next.at \notin CredentialHandlerStep
    BY <1>l DEF Local, CredentialHandlerStep
  <2> QED BY <1>7, <1>p, <2>1, SilentStep DEF RereadInvites
<1>8. CASE PurgeOob(t)
  <2>1. PICK i \in task[t].known :
          Goto(t, [task[t] EXCEPT !.known = task[t].known \ {i},
                     !.at = IF task[t].known \ {i} = {} THEN "expire" ELSE "purge"])
    BY <1>8 DEF PurgeOob
  <2> DEFINE next == [task[t] EXCEPT !.known = task[t].known \ {i},
                        !.at = IF task[t].known \ {i} = {} THEN "expire" ELSE "purge"]
  <2>2. next.at \notin CredentialHandlerStep
    BY <1>l DEF Local, CredentialHandlerStep
  <2> QED BY <1>8, <1>p, <2>1, <2>2, SilentStep DEF PurgeOob
<1>9. CASE BeginReissue(t)
  <2> DEFINE next == [task[t] EXCEPT !.at = "commit", !.known = Present]
  <2>1. next.at \notin CredentialHandlerStep
    BY <1>l DEF Local, CredentialHandlerStep
  <2> QED BY <1>9, <1>p, <2>1, SilentStep DEF BeginReissue
<1>10. CASE CommitReissue(t)
  <2>1. Present \subseteq Present'
    BY <1>10 DEF CommitReissue, Present
  <2> QED BY <1>10, <2>1, IdleIsSilent, SilentStep DEF CommitReissue, Finish
<1> QED
  BY <1>1, <1>2, <1>3, <1>4, <1>5, <1>6, <1>7, <1>8, <1>9, <1>10 DEF NewConnectionStep

(* The handlers of connection events, and the disconnect request. *)
LEMMA EvidenceConnection ==
  ASSUME TypeOK, EvidenceInv, NEW t \in Task,
         \/ \E e \in events : ConnectionStateChanged(t, e) \/ ConnectionDidRotated(t, e)
         \/ DisconnectConnection(t)
         \/ ConnectionStep(t)
  PROVE  EvidenceInv'
<1>l. task[t] \in Local
  BY DEF TypeOK, TaskOK
<1>p. UNCHANGED validity => Present' = Present
  BY DEF Present
<1>u. UseInvites => Present \subseteq Present'
  BY DEF UseInvites, Present
<1> USE DEF row, invites, cloud
<1>1. ASSUME NEW e \in events, ConnectionStateChanged(t, e) PROVE EvidenceInv'
  <2> DEFINE next == [Idle EXCEPT !.at = "connection", !.ev = e, !.seen = status]
  <2>1. next.at \notin CredentialHandlerStep
    BY DEF Idle, CredentialHandlerStep
  <2>2. Goto(t, next) \/ task' = task
    BY <1>1 DEF ConnectionStateChanged
  <2> QED BY <1>1, <1>p, <2>1, <2>2, SilentStep, StillStep DEF ConnectionStateChanged
<1>2. ASSUME NEW e \in events, ConnectionDidRotated(t, e) PROVE EvidenceInv'
  BY <1>2, <1>p, StillStep DEF ConnectionDidRotated
<1>3. CASE UpdateConnection(t)
  BY <1>3, <1>u, IdleIsSilent, SilentStep DEF UpdateConnection, UpdateStatus, Finish
<1>4. CASE MissConnection(t)
  <2> DEFINE next == [task[t] EXCEPT !.at = "mark_used"]
  <2>1. next.at \notin CredentialHandlerStep
    BY <1>l DEF Local, CredentialHandlerStep
  <2> QED BY <1>4, <1>p, <2>1, SilentStep DEF MissConnection
<1>5. CASE MarkUsed(t)
  BY <1>5, <1>u, IdleIsSilent, SilentStep DEF MarkUsed, Finish
<1>6. CASE DisconnectConnection(t)
  <2> DEFINE next == [Idle EXCEPT !.at = "close", !.conn = agentId]
  <2>1. next.at \notin CredentialHandlerStep
    BY DEF Idle, CredentialHandlerStep
  <2> QED BY <1>6, <1>p, <2>1, SilentStep DEF DisconnectConnection
<1>7. CASE CloseConnection(t)
  <2> DEFINE next == [task[t] EXCEPT !.at = "mark"]
  <2>1. next.at \notin CredentialHandlerStep
    BY <1>l DEF Local, CredentialHandlerStep
  <2>2. Goto(t, next) \/ Goto(t, Idle)
    BY <1>7 DEF CloseConnection, Finish
  <2> QED BY <1>7, <1>p, <2>1, <2>2, IdleIsSilent, SilentStep DEF CloseConnection
<1>8. CASE MarkDisconnected(t)
  BY <1>8, <1>p, IdleIsSilent, SilentStep DEF MarkDisconnected, Finish
<1> QED
  BY <1>1, <1>2, <1>3, <1>4, <1>5, <1>6, <1>7, <1>8 DEF ConnectionStep

(* What the locals of a credential handler have to keep saying when it goes on
   and the exchanges stay as they are. *)
LEMMA CredentialStays ==
  ASSUME TypeOK, EvidenceInv, NEW t \in Task, NEW next, Goto(t, next),
         task[t].at \in CredentialHandlerStep \ {"done"},
         next.at \in CredentialHandlerStep \ {"done"}, next.ev = task[t].ev,
         next.at \in {"expire_pins", "answer"} /\ next.good
           => ExchangeOf(t).pin \in Present,
         Present \subseteq Present', cred' = cred, events' = events, status' = status
  PROVE  EvidenceInv'
<1>1. task'[t] = next /\ \A u \in Task : u # t => task'[u] = task[u]
  BY OneTaskMoves
<1>2. TaskEvident(task[t])'
  <2>1. TaskEvident(task[t])
    BY DEF EvidenceInv
  <2> QED BY <1>1, <2>1 DEF TaskEvident, ExchangeOf
<1>3. /\ \A k \in Cred : Kept(k)
      /\ RolesOK' /\ AcceptedIsGenuine' /\ DoneIsDone'
  BY ExchangesKept
<1> QED BY <1>1, <1>2, <1>3, EvidenceKept

(* A step of one exchange that keeps its role, PIN and names, does not undo its
   completion, and goes beyond a proposal only if it is genuine. *)
LEMMA ExchangeMoves ==
  ASSUME TypeOK, EvidenceInv, NEW k \in Cred, Present \subseteq Present',
         \A j \in Cred : j # k => cred'[j] = cred[j],
         cred[k].role \in {"issuer", "holder"}, cred'[k].role = cred[k].role,
         cred'[k].pin = cred[k].pin, cred'[k].agrees = cred[k].agrees,
         cred[k].st = "done" => cred'[k].st = "done",
         cred[k].role = "issuer" => cred'[k].st \in IssuerState,
         cred[k].role = "holder" => cred'[k].st \in HolderState,
         cred[k].role = "issuer" /\ cred'[k].st \notin {"proposal-received", "abandoned"}
           => Genuine(k),
         \A e \in events' : \/ e \in events
                            \/ e.of = "credential" /\ e.st = "done" => cred'[e.id].st = "done"
  PROVE  /\ \A j \in Cred : Kept(j)
         /\ RolesOK' /\ AcceptedIsGenuine' /\ DoneIsDone'
<1>1. \A j \in Cred : Kept(j)
  BY DEF Kept
<1>2. RolesOK'
  <2>1. ASSUME NEW j \in Cred
        PROVE (CASE cred[j].role = "issuer" -> cred[j].st \in IssuerState
                 [] cred[j].role = "holder" -> cred[j].st \in HolderState
                 [] OTHER -> cred[j].st = "none")'
    <3>1. CASE j = k
      BY <3>1 DEF IssuerState, HolderState
    <3>2. CASE j # k
      BY <3>2 DEF EvidenceInv, RolesOK
    <3> QED BY <3>1, <3>2
  <2> QED BY <2>1 DEF RolesOK
<1>3. AcceptedIsGenuine'
  BY DEF EvidenceInv, AcceptedIsGenuine, Genuine
<1>4. DoneIsDone'
  <2> SUFFICES ASSUME NEW e \in events', e.of = "credential", e.st = "done"
               PROVE  cred'[e.id].st = "done"
    BY DEF DoneIsDone
  <2>1. CASE e \in events
    <3>1. e.id \in Cred
      BY <2>1 DEF TypeOK, Event
    <3>2. cred[e.id].st = "done"
      BY <2>1 DEF EvidenceInv, DoneIsDone
    <3> QED BY <3>1, <3>2
  <2> QED BY <2>1
<1> QED BY <1>1, <1>2, <1>3, <1>4

(* A step of the handler of proposals, of the PIN, and of completed exchanges. *)
LEMMA EvidenceCredentialStep ==
  ASSUME TypeOK, EvidenceInv, NEW t \in Task, CredentialStep(t)
  PROVE  EvidenceInv'
<1>l. task[t] \in Local /\ TaskEvident(task[t])
  BY DEF TypeOK, TaskOK, EvidenceInv
<1>p. UNCHANGED validity => Present' = Present
  BY DEF Present
<1> USE DEF row, invites, cloud
<1>1. CASE IncrementAttempts(t)
  <2> DEFINE step == IF attempts' >= PinLimit THEN "lock" ELSE "compare"
             next == [task[t] EXCEPT !.cnt = PinTries - attempts', !.at = step]
  <2>1. task[t].at \in CredentialHandlerStep \ {"done"} /\ step \in {"lock", "compare"}
    BY <1>1 DEF IncrementAttempts, At, CredentialHandlerStep
  <2>2. next.at = step /\ next.ev = task[t].ev
    BY <1>l DEF Local
  <2>3. next.at \in CredentialHandlerStep \ {"done"} /\ next.at \notin {"expire_pins", "answer"}
    BY <2>1, <2>2 DEF CredentialHandlerStep
  <2>4. Goto(t, next)
    BY <1>1 DEF IncrementAttempts
  <2> HIDE DEF next, step
  <2> QED BY <1>1, <1>p, <2>1, <2>2, <2>3, <2>4, CredentialStays DEF IncrementAttempts
<1>2. CASE LockInvites(t)
  <2> DEFINE next == [task[t] EXCEPT !.at = "reset"]
  <2>1. task[t].at \in CredentialHandlerStep \ {"done"}
    BY <1>2 DEF LockInvites, At, CredentialHandlerStep
  <2>2. next.at = "reset" /\ next.ev = task[t].ev
    BY <1>l DEF Local
  <2>3. next.at \in CredentialHandlerStep \ {"done"} /\ next.at \notin {"expire_pins", "answer"}
    BY <2>2 DEF CredentialHandlerStep
  <2>4. Goto(t, next) /\ Present \subseteq Present'
    BY <1>2 DEF LockInvites, Present
  <2> HIDE DEF next
  <2> QED BY <1>2, <2>1, <2>2, <2>3, <2>4, CredentialStays DEF LockInvites
<1>3. CASE ResetAttempts(t)
  <2> DEFINE next == [task[t] EXCEPT !.at = "report"]
  <2>1. task[t].at \in CredentialHandlerStep \ {"done"}
    BY <1>3 DEF ResetAttempts, At, CredentialHandlerStep
  <2>2. next.at = "report" /\ next.ev = task[t].ev
    BY <1>l DEF Local
  <2>3. next.at \in CredentialHandlerStep \ {"done"} /\ next.at \notin {"expire_pins", "answer"}
    BY <2>2 DEF CredentialHandlerStep
  <2>4. Goto(t, next)
    BY <1>3 DEF ResetAttempts
  <2> HIDE DEF next
  <2> QED BY <1>3, <1>p, <2>1, <2>2, <2>3, <2>4, CredentialStays DEF ResetAttempts
<1>4. CASE ComparePin(t)
  <2> DEFINE used == InviteWith("used")
             late == {i \in used : lapsed[i]}
             right == ExchangeOf(t).pin \in used \ late
             count == IF used = {} THEN 0 ELSE task[t].cnt
             step == IF late = {} THEN "answer" ELSE "expire_pins"
             next == [task[t] EXCEPT !.known = late, !.good = right,
                                     !.cnt = count, !.at = step]
  <2>1. task[t].at \in CredentialHandlerStep \ {"done"} /\ step \in {"answer", "expire_pins"}
    BY <1>4 DEF ComparePin, At, CredentialHandlerStep
  <2>2. right => ExchangeOf(t).pin \in Present
    BY DEF InviteWith, Present
  <2>3. Goto(t, next)
    BY <1>4 DEF ComparePin
  <2>4. next.at = step /\ next.ev = task[t].ev /\ next.good = right
    <3> HIDE DEF right, count, step, late
    <3> QED BY <1>l DEF Local
  <2>5. next.at \in CredentialHandlerStep \ {"done"}
    BY <2>1, <2>4 DEF CredentialHandlerStep
  <2> HIDE DEF next, right, step
  <2> QED BY <1>4, <1>p, <2>1, <2>2, <2>3, <2>4, <2>5, CredentialStays DEF ComparePin
<1>5. CASE ExpirePins(t)
  <2> DEFINE next == [task[t] EXCEPT !.at = "answer", !.known = {}]
  <2>1. task[t].at \in CredentialHandlerStep \ {"done"}
    BY <1>5 DEF ExpirePins, At, CredentialHandlerStep
  <2>2. next.at = "answer" /\ next.ev = task[t].ev /\ next.good = task[t].good
    BY <1>l DEF Local
  <2>3. task[t].good => ExchangeOf(t).pin \in Present
    BY <1>5, <1>l DEF ExpirePins, At, TaskEvident, ExchangeOf
  <2>4. Goto(t, next) /\ Present \subseteq Present'
    BY <1>5 DEF ExpirePins, Present
  <2>5. next.at \in CredentialHandlerStep \ {"done"}
    BY <2>2 DEF CredentialHandlerStep
  <2> HIDE DEF next
  <2> QED BY <1>5, <2>1, <2>2, <2>3, <2>4, <2>5, CredentialStays DEF ExpirePins
<1>6. CASE AcceptProposal(t)
  <2> DEFINE k == task[t].ev.id
  <2>1. task[t].at = "answer" /\ task[t].good
    BY <1>6 DEF AcceptProposal, At
  <2>2. k \in Cred /\ task[t].at \in CredentialHandlerStep \ {"done"}
    BY <2>1, CredentialTask DEF CredentialHandlerStep
  <2>3. cred[k].role = "issuer" /\ Genuine(k) /\ task[t].ev.st = "proposal-received"
    BY <1>l, <2>1, <2>2 DEF TaskEvident, Genuine
  <2>4. Goto(t, Idle)
    BY <1>6 DEF AcceptProposal, Reject, Finish
  <2>5. \A u \in Task : task'[u] = task[u] \/ TaskEvident(task[u])'
    BY <2>4, OneTaskMoves, SilentIsEvident, IdleIsSilent
  <2>6. Present' = Present /\ status' = status
    BY <1>6, <1>p DEF AcceptProposal
  <2>7. CASE ExchangeOf(t).st = "proposal-received"
    <3>1. cred' = [cred EXCEPT ![k].st = "offer-sent"] /\ events' = events
      BY <1>6, <2>7 DEF AcceptProposal
    <3>2. cred[k] \in Exchange
      BY <2>2 DEF TypeOK
    <3>3. /\ \A j \in Cred : j # k => cred'[j] = cred[j]
          /\ cred'[k] = [cred[k] EXCEPT !.st = "offer-sent"]
      BY <2>2, <3>1 DEF TypeOK
    <3>4. /\ cred'[k].st = "offer-sent" /\ cred'[k].role = cred[k].role
          /\ cred'[k].pin = cred[k].pin /\ cred'[k].agrees = cred[k].agrees
      BY <3>2, <3>3 DEF Exchange
    <3>5. cred[k].st # "done"
      BY <2>7 DEF ExchangeOf
    <3>6. /\ \A j \in Cred : Kept(j)
          /\ RolesOK' /\ AcceptedIsGenuine' /\ DoneIsDone'
      BY <2>2, <2>3, <2>6, <3>1, <3>3, <3>4, <3>5, ExchangeMoves DEF IssuerState
    <3> QED BY <2>5, <2>6, <3>6, EvidenceKept
  <2>8. CASE ExchangeOf(t).st # "proposal-received"
    <3>1. cred' = cred /\ events' \subseteq events \cup {task[t].ev}
      BY <1>6, <2>8 DEF AcceptProposal, Reject
    <3>2. \A j \in Cred : Kept(j)
      BY <3>1 DEF Kept
    <3>3. RolesOK' /\ AcceptedIsGenuine' /\ DoneIsDone'
      BY <2>3, <2>6, <3>1 DEF EvidenceInv, RolesOK, AcceptedIsGenuine, DoneIsDone, Genuine
    <3> QED BY <2>5, <2>6, <3>2, <3>3, EvidenceKept
  <2> QED BY <2>7, <2>8
<1>7. CASE SendProblemReport(t)
  <2> DEFINE k == task[t].ev.id
  <2>1. task[t].at \in CredentialHandlerStep \ {"done"}
    BY <1>7 DEF SendProblemReport, At, CredentialHandlerStep
  <2>2. k \in Cred /\ cred[k] \in Exchange
    BY <2>1, CredentialTask DEF ExchangeOf
  <2>3. cred[k].role = "issuer"
    BY <1>l, <2>1 DEF TaskEvident
  <2>4. PICK st \in {"abandoned", ExchangeOf(t).st} :
          cred' = [cred EXCEPT ![k].report = task[t].cnt,
                               ![k].st = IF @ = "proposal-received" THEN st ELSE @]
    BY <1>7 DEF SendProblemReport
  <2>5. \A j \in Cred : j # k => cred'[j] = cred[j]
    BY <2>2, <2>4 DEF TypeOK
  <2>6. /\ cred'[k].role = cred[k].role /\ cred'[k].pin = cred[k].pin
        /\ cred'[k].agrees = cred[k].agrees
        /\ cred'[k].st \in {"abandoned", cred[k].st}
        /\ cred[k].st # "proposal-received" => cred'[k].st = cred[k].st
    BY <2>2, <2>4 DEF TypeOK, Exchange, ExchangeOf
  <2>7. cred[k].st \in IssuerState
    BY <2>2, <2>3 DEF EvidenceInv, RolesOK
  <2>8. cred'[k].st \in IssuerState /\ (cred[k].st = "done" => cred'[k].st = "done")
    BY <2>6, <2>7 DEF IssuerState
  <2>9. cred'[k].st \notin {"proposal-received", "abandoned"} => Genuine(k)
    BY <2>2, <2>3, <2>6 DEF EvidenceInv, AcceptedIsGenuine
  <2>10. Goto(t, Idle) /\ Present' = Present /\ status' = status /\ events' = events
    BY <1>7, <1>p DEF SendProblemReport, Finish
  <2>11. /\ \A j \in Cred : Kept(j)
         /\ RolesOK' /\ AcceptedIsGenuine' /\ DoneIsDone'
    <3> HIDE DEF k
    <3> QED BY <2>2, <2>3, <2>5, <2>6, <2>8, <2>9, <2>10, ExchangeMoves
  <2>12. \A u \in Task : task'[u] = task[u] \/ TaskEvident(task[u])'
    BY <2>10, OneTaskMoves, SilentIsEvident, IdleIsSilent
  <2> QED BY <2>10, <2>11, <2>12, EvidenceKept
<1>8. CASE WriteDone(t)
  <2>1. /\ status' = task[t].seen /\ cred' = cred /\ events' = events
        /\ Goto(t, Idle) /\ Present' = Present
    BY <1>8, <1>p DEF WriteDone, Finish
  <2>2. /\ task[t].seen \in {"verified_them", "verified_us", "verified_both"}
        /\ task[t].seen # "verified_us" => \E k \in Cred : IssuedTo(k)
        /\ task[t].seen # "verified_them" => \E k \in Cred : ReceivedFrom(k)
    BY <1>8, <1>l DEF WriteDone, At, TaskEvident
  <2>3. /\ \A k \in Cred : Kept(k)
        /\ RolesOK' /\ AcceptedIsGenuine' /\ DoneIsDone'
    BY <2>1, ExchangesKept
  <2>4. \A k \in Cred : /\ IssuedTo(k) => IssuedTo(k)'
                        /\ ReceivedFrom(k) => ReceivedFrom(k)'
    BY <2>1, <2>3, EvidenceStays
  <2>5. VerifiedOnEvidence'
    BY <2>1, <2>2, <2>4 DEF VerifiedOnEvidence, TheyAreVerified, WeAreVerified
  <2>6. \A u \in Task : task'[u] = task[u] \/ TaskEvident(task[u])'
    BY <2>1, OneTaskMoves, SilentIsEvident, IdleIsSilent
  <2> QED BY <2>1, <2>3, <2>5, <2>6, EvidenceKept
<1> QED
  BY <1>1, <1>2, <1>3, <1>4, <1>5, <1>6, <1>7, <1>8 DEF CredentialStep

(* A notification reaches a credential handler. *)
LEMMA EvidenceCredentialEvents ==
  ASSUME TypeOK, EvidenceInv, NEW t \in Task, NEW e \in events,
         \/ ProposalReceived(t, e) \/ ForwardExchange(t, e)
         \/ ExchangeDone(t, e) \/ ProblemReported(t, e)
  PROVE  EvidenceInv'
<1>k. e.of = "credential" /\ e.id \in Cred /\ cred[e.id] \in Exchange
  BY DEF ProposalReceived, ForwardExchange, ExchangeDone, ProblemReported, Event, TypeOK
<1>p. UNCHANGED validity => Present' = Present
  BY DEF Present
<1> USE DEF row, invites, cloud
<1>1. CASE ProposalReceived(t, e)
  <2> DEFINE next == [Idle EXCEPT !.at = "count", !.ev = e]
  <2>1. CASE task' = task
    BY <1>1, <1>p, <2>1, StillStep DEF ProposalReceived
  <2>2. CASE task' # task
    <3>1. Goto(t, next) /\ cred[e.id].agrees
      BY <1>1, <2>2 DEF ProposalReceived
    <3>2. /\ cred' = cred /\ events' \subseteq events /\ status' = status
          /\ Present' = Present
      BY <1>1, <1>p DEF ProposalReceived
    <3>3. next.at = "count" /\ next.ev = e
      BY DEF Idle
    <3>4. task'[t] = next /\ \A u \in Task : u # t => task'[u] = task[u]
      BY <3>1, OneTaskMoves
    <3>5. TaskEvident(task[t])'
      BY <1>1, <3>1, <3>2, <3>3, <3>4 DEF TaskEvident, ProposalReceived
    <3>6. /\ \A k \in Cred : Kept(k)
          /\ RolesOK' /\ AcceptedIsGenuine' /\ DoneIsDone'
      BY <3>2, ExchangesKept
    <3> QED BY <3>2, <3>4, <3>5, <3>6, EvidenceKept
  <2> QED BY <2>1, <2>2
<1>2. CASE ForwardExchange(t, e)
  <2> DEFINE k == e.id
  <2>1. task' = task /\ status' = status /\ Present' = Present
    BY <1>2, <1>p DEF ForwardExchange
  <2>2. CASE cred' = cred /\ events' = events \ {e}
    BY <2>1, <2>2, StillStep
  <2>3. CASE ~(cred' = cred /\ events' = events \ {e})
    <3>1. /\ e.st \in DOMAIN Onward /\ cred[k].st = e.st
          /\ cred' = [cred EXCEPT ![k].st = Onward[e.st]]
          /\ events' = (events \ {e}) \cup
               (IF Onward[e.st] = "done" THEN {CredentialEvent(k, "done")} ELSE {})
      BY <1>2, <2>3 DEF ForwardExchange
    <3>2. \/ cred[k].st = "request-received" /\ Onward[e.st] = "credential-issued"
          \/ cred[k].st = "offer-received" /\ Onward[e.st] = "request-sent"
          \/ cred[k].st = "credential-received" /\ Onward[e.st] = "done"
      <4>1. e.st \in {"offer-received", "request-received", "credential-received"}
        BY <3>1 DEF Onward
      <4>2. /\ Onward["offer-received"] = "request-sent"
            /\ Onward["request-received"] = "credential-issued"
            /\ Onward["credential-received"] = "done"
        BY DEF Onward
      <4> QED BY <3>1, <4>1, <4>2
    <3>3. cred[k].role \in {"issuer", "holder"}
      BY <1>k, <3>2 DEF EvidenceInv, RolesOK
    <3>4. /\ cred[k].role = "issuer" => cred[k].st = "request-received"
          /\ cred[k].role = "holder" => cred[k].st # "request-received"
      BY <1>k, <3>2 DEF EvidenceInv, RolesOK, IssuerState, HolderState
    <3>5. cred[k].role = "issuer" => Genuine(k)
      BY <1>k, <3>4 DEF EvidenceInv, AcceptedIsGenuine
    <3>6. \A j \in Cred : j # k => cred'[j] = cred[j]
      BY <1>k, <3>1 DEF TypeOK
    <3>7. /\ cred'[k].role = cred[k].role /\ cred'[k].pin = cred[k].pin
          /\ cred'[k].agrees = cred[k].agrees /\ cred'[k].st = Onward[e.st]
      BY <1>k, <3>1 DEF TypeOK, Exchange
    <3>8. /\ cred[k].role = "issuer" => cred'[k].st \in IssuerState
          /\ cred[k].role = "holder" => cred'[k].st \in HolderState
          /\ cred[k].st # "done"
      BY <3>2, <3>4, <3>7 DEF IssuerState, HolderState
    <3>9. \A f \in events' : \/ f \in events
                             \/ f.of = "credential" /\ f.st = "done" => cred'[f.id].st = "done"
      BY <3>1, <3>7 DEF CredentialEvent
    <3>10. /\ \A j \in Cred : Kept(j)
           /\ RolesOK' /\ AcceptedIsGenuine' /\ DoneIsDone'
      <4> HIDE DEF k
      <4> QED BY <1>k, <2>1, <3>3, <3>5, <3>6, <3>7, <3>8, <3>9, ExchangeMoves DEF k
    <3> QED BY <2>1, <3>10, EvidenceKept
  <2> QED BY <2>2, <2>3
<1>3. CASE ExchangeDone(t, e)
  <2> DEFINE role == cred[e.id].role
             after == AfterDone(status, role)
             next == [Idle EXCEPT !.at = "done", !.ev = e, !.seen = after]
  <2>1. CASE task' = task
    BY <1>3, <1>p, <2>1, StillStep DEF ExchangeDone
  <2>2. CASE task' # task
    <3>1. Goto(t, next) /\ after # status /\ e.st = "done"
      BY <1>3, <2>2 DEF ExchangeDone
    <3>2. /\ cred' = cred /\ events' \subseteq events /\ status' = status
          /\ Present' = Present
      BY <1>3, <1>p DEF ExchangeDone
    <3>3. cred[e.id].st = "done"
      BY <1>k, <3>1 DEF EvidenceInv, DoneIsDone
    <3>4. role \in {"issuer", "holder"}
      BY <1>k, <3>3 DEF EvidenceInv, RolesOK
    <3>5. /\ role = "issuer" => IssuedTo(e.id)
          /\ role = "holder" => ReceivedFrom(e.id)
      BY <1>k, <3>3 DEF EvidenceInv, AcceptedIsGenuine, IssuedTo, ReceivedFrom
    <3>6. \/ status = "unverified" /\ role = "holder" /\ after = "verified_us"
          \/ status = "unverified" /\ role = "issuer" /\ after = "verified_them"
          \/ status = "verified_them" /\ role = "holder" /\ after = "verified_both"
          \/ status = "verified_us" /\ role = "issuer" /\ after = "verified_both"
      BY <3>1, <3>4 DEF AfterDone
    <3>7. /\ status = "verified_them" => \E k \in Cred : IssuedTo(k)
          /\ status = "verified_us" => \E k \in Cred : ReceivedFrom(k)
      BY DEF EvidenceInv, VerifiedOnEvidence, TheyAreVerified, WeAreVerified
    <3>8. /\ after \in {"verified_them", "verified_us", "verified_both"}
          /\ after # "verified_us" => \E k \in Cred : IssuedTo(k)
          /\ after # "verified_them" => \E k \in Cred : ReceivedFrom(k)
      BY <1>k, <3>5, <3>6, <3>7
    <3>9. next.at = "done" /\ next.ev = e /\ next.seen = after
      <4> HIDE DEF after
      <4> QED BY DEF Idle
    <3>10. task'[t] = next /\ \A u \in Task : u # t => task'[u] = task[u]
      BY <3>1, OneTaskMoves
    <3>11. /\ \A k \in Cred : Kept(k)
           /\ RolesOK' /\ AcceptedIsGenuine' /\ DoneIsDone'
      BY <3>2, ExchangesKept
    <3>12. \A k \in Cred : /\ IssuedTo(k) => IssuedTo(k)'
                           /\ ReceivedFrom(k) => ReceivedFrom(k)'
      BY <3>2, <3>11, EvidenceStays
    <3>13. TaskEvident(task[t])'
      <4> HIDE DEF after, next
      <4> QED BY <3>1, <3>2, <3>3, <3>8, <3>9, <3>10, <3>12
              DEF TaskEvident, CredentialHandlerStep
    <3> QED BY <3>2, <3>10, <3>11, <3>13, EvidenceKept
  <2> QED BY <2>1, <2>2
<1>4. CASE ProblemReported(t, e)
  BY <1>4, <1>p, StillStep DEF ProblemReported
<1> QED BY <1>1, <1>2, <1>3, <1>4

(* The cloudagent, the peer, the clock, and the page of our own PIN. *)
LEMMA EvidenceCloud ==
  ASSUME TypeOK, EvidenceInv,
         \/ PeerAct \/ AgentStep \/ (\E i \in Invite : InviteLapses(i))
         \/ \E k \in Cred : SubmitPinCode(k)
  PROVE  EvidenceInv'
<1>p. UNCHANGED validity => Present' = Present
  BY DEF Present
<1>q. ASSUME cred' = cred, task' = task, status' = status, Present' = Present,
             \A e \in events' : e \in events \/ e.of # "credential"
      PROVE  EvidenceInv'
  <2>1. \A k \in Cred : Kept(k)
    BY <1>q DEF Kept
  <2>2. RolesOK' /\ AcceptedIsGenuine' /\ DoneIsDone'
    BY <1>q DEF EvidenceInv, RolesOK, AcceptedIsGenuine, DoneIsDone, Genuine
  <2> QED BY <1>q, <2>1, <2>2, EvidenceKept
<1>n. ASSUME NEW k \in Cred, cred[k].role = "none", cred' = [cred EXCEPT ![k] = cred'[k]],
             \/ cred'[k].role = "issuer" /\ cred'[k].st = "proposal-received"
             \/ cred'[k].role = "holder" /\ cred'[k].st = "proposal-sent",
             task' = task, status' = status, Present' = Present,
             \A e \in events' : e \in events \/ e.st # "done"
      PROVE  EvidenceInv'
  <2>1. \A j \in Cred : j # k => cred'[j] = cred[j]
    BY <1>n DEF TypeOK
  <2>2. \A j \in Cred : Kept(j)
    BY <1>n, <2>1 DEF Kept
  <2>3. RolesOK'
    <3>1. ASSUME NEW j \in Cred
          PROVE (CASE cred[j].role = "issuer" -> cred[j].st \in IssuerState
                   [] cred[j].role = "holder" -> cred[j].st \in HolderState
                   [] OTHER -> cred[j].st = "none")'
      <4>1. CASE j = k
        BY <1>n, <4>1 DEF IssuerState, HolderState
      <4>2. CASE j # k
        BY <2>1, <4>2 DEF EvidenceInv, RolesOK
      <4> QED BY <4>1, <4>2
    <3> QED BY <3>1 DEF RolesOK
  <2>4. AcceptedIsGenuine'
    BY <1>n, <2>1 DEF EvidenceInv, AcceptedIsGenuine, Genuine
  <2>5. cred[k].st # "done"
    BY <1>n DEF EvidenceInv, RolesOK
  <2>6. DoneIsDone'
    BY <1>n, <2>1, <2>5 DEF EvidenceInv, DoneIsDone, TypeOK, Event
  <2> QED BY <1>n, <2>2, <2>3, <2>4, <2>6, EvidenceKept
<1>1. ASSUME NEW i \in Invite, NEW c \in AgentConn, PeerAccepts(i, c) PROVE EvidenceInv'
  BY <1>1, <1>p, StillStep DEF PeerAccepts, row, invites
<1>2. ASSUME NEW c \in AgentConn, PeerHangsUp(c) PROVE EvidenceInv'
  BY <1>2, <1>p, <1>q DEF PeerHangsUp, row, invites, RotationEvent
<1>3. ASSUME NEW k \in Cred, NEW c \in AgentConn, NEW pin \in Invite \cup {NoInvite},
             NEW agrees \in BOOLEAN, PeerProposes(k, c, pin, agrees)
      PROVE  EvidenceInv'
  <2> DEFINE new == [NoExchange EXCEPT !.role = "issuer", !.st = "proposal-received",
                                       !.conn = c, !.pin = pin, !.agrees = agrees]
  <2>1. cred' = [cred EXCEPT ![k] = new] /\ cred[k].role = "none"
    BY <1>3 DEF PeerProposes
  <2>2. new.role = "issuer" /\ new.st = "proposal-received"
    BY DEF NoExchange
  <2>3. cred'[k] = new
    BY <2>1 DEF TypeOK
  <2>4. \A e \in events' : e \in events \/ e.st # "done"
    BY <1>3 DEF PeerProposes, CredentialEvent
  <2>5. task' = task /\ status' = status /\ Present' = Present
    BY <1>3, <1>p DEF PeerProposes, row, invites
  <2> HIDE DEF new
  <2> QED BY <1>n, <2>1, <2>2, <2>3, <2>4, <2>5
<1>4. ASSUME NEW k \in Cred, NEW r \in Reports, PeerReports(k, r) PROVE EvidenceInv'
  <2>1. /\ cred[k].st = "proposal-sent" /\ cred[k] \in Exchange
        /\ task' = task /\ status' = status /\ Present' = Present
    BY <1>4, <1>p DEF PeerReports, row, invites, TypeOK
  <2>2. cred[k].role = "holder"
    BY <2>1 DEF EvidenceInv, RolesOK, IssuerState
  <2>3. \A j \in Cred : j # k => cred'[j] = cred[j]
    BY <1>4 DEF PeerReports, TypeOK
  <2>4. /\ cred'[k].role = cred[k].role /\ cred'[k].pin = cred[k].pin
        /\ cred'[k].agrees = cred[k].agrees /\ cred'[k].st = "abandoned"
    BY <1>4, <2>1 DEF PeerReports, TypeOK, Exchange
  <2>5. \A e \in events' : e \in events \/ e.st # "done"
    BY <1>4 DEF PeerReports, CredentialEvent
  <2>6. /\ \A j \in Cred : Kept(j)
        /\ RolesOK' /\ AcceptedIsGenuine' /\ DoneIsDone'
    BY <2>1, <2>2, <2>3, <2>4, <2>5, ExchangeMoves DEF HolderState
  <2>7. \A t \in Task : task'[t] = task[t]
    BY <2>1
  <2> QED BY <2>1, <2>6, <2>7, EvidenceKept
<1>5. ASSUME NEW c \in AgentConn, NEW st \in {"completed", "abandoned"},
             AgentSettles(c, st)
      PROVE  EvidenceInv'
  BY <1>5, <1>p, <1>q DEF AgentSettles, row, invites, ConnectionEvent
<1>6. ASSUME NEW k \in Cred, PeerAdvances(k) PROVE EvidenceInv'
  <2> DEFINE s == PeerStep[cred[k].st]
  <2>1. /\ cred[k].st \in DOMAIN PeerStep /\ cred[k] \in Exchange
        /\ cred' = [cred EXCEPT ![k].st = s]
        /\ events' = events \cup {CredentialEvent(k, s)}
        /\ task' = task /\ status' = status /\ Present' = Present
    BY <1>6, <1>p DEF PeerAdvances, row, invites, TypeOK
  <2>2. \/ cred[k].st = "offer-sent" /\ s = "request-received"
        \/ cred[k].st = "credential-issued" /\ s = "done"
        \/ cred[k].st = "proposal-sent" /\ s = "offer-received"
        \/ cred[k].st = "request-sent" /\ s = "credential-received"
    <3>1. cred[k].st \in {"offer-sent", "credential-issued", "proposal-sent", "request-sent"}
      BY <2>1 DEF PeerStep
    <3>2. /\ PeerStep["offer-sent"] = "request-received"
          /\ PeerStep["credential-issued"] = "done"
          /\ PeerStep["proposal-sent"] = "offer-received"
          /\ PeerStep["request-sent"] = "credential-received"
      BY DEF PeerStep
    <3> QED BY <3>1, <3>2
  <2> HIDE DEF s
  <2>3. \/ cred[k].role = "issuer" /\ s \in {"request-received", "done"}
        \/ cred[k].role = "holder" /\ s \in {"offer-received", "credential-received"}
    BY <2>2 DEF EvidenceInv, RolesOK, IssuerState, HolderState
  <2>4. cred[k].role = "issuer" => Genuine(k)
    BY <2>2, <2>3 DEF EvidenceInv, AcceptedIsGenuine
  <2>5. \A j \in Cred : j # k => cred'[j] = cred[j]
    BY <2>1 DEF TypeOK
  <2>6. /\ cred'[k].role = cred[k].role /\ cred'[k].pin = cred[k].pin
        /\ cred'[k].agrees = cred[k].agrees /\ cred'[k].st = s
    BY <2>1 DEF TypeOK, Exchange
  <2>7. \A e \in events' : \/ e \in events
                           \/ e.of = "credential" /\ e.st = "done" => cred'[e.id].st = "done"
    BY <2>1, <2>6 DEF CredentialEvent
  <2>8. /\ cred[k].role = "issuer" => cred'[k].st \in IssuerState
        /\ cred[k].role = "holder" => cred'[k].st \in HolderState
        /\ cred[k].st # "done"
    BY <2>2, <2>3, <2>6 DEF IssuerState, HolderState
  <2>9. /\ \A j \in Cred : Kept(j)
        /\ RolesOK' /\ AcceptedIsGenuine' /\ DoneIsDone'
    BY <2>1, <2>3, <2>4, <2>5, <2>6, <2>7, <2>8, ExchangeMoves
  <2>10. \A t \in Task : task'[t] = task[t]
    BY <2>1
  <2> QED BY <2>1, <2>9, <2>10, EvidenceKept
<1>7. ASSUME NEW i \in Invite, InviteLapses(i) PROVE EvidenceInv'
  BY <1>7, <1>p, StillStep DEF InviteLapses, row, cloud
<1>8. ASSUME NEW k \in Cred, SubmitPinCode(k) PROVE EvidenceInv'
  <2> DEFINE new == [NoExchange EXCEPT !.role = "holder", !.st = "proposal-sent",
                                       !.conn = agentId]
  <2>1. cred' = [cred EXCEPT ![k] = new] /\ cred[k].role = "none"
    BY <1>8 DEF SubmitPinCode
  <2>2. new.role = "holder" /\ new.st = "proposal-sent"
    BY DEF NoExchange
  <2>3. cred'[k] = new
    BY <2>1 DEF TypeOK
  <2>4. events' = events /\ task' = task /\ status' = status /\ Present' = Present
    BY <1>8, <1>p DEF SubmitPinCode, row, invites
  <2> HIDE DEF new
  <2> QED BY <1>n, <2>1, <2>2, <2>3, <2>4
<1> QED
  BY <1>1, <1>2, <1>3, <1>4, <1>5, <1>6, <1>7, <1>8 DEF PeerAct, AgentStep

(* Failures, a lost socket and a restart. *)
LEMMA EvidenceMishap ==
  ASSUME TypeOK, EvidenceInv, Mishap
  PROVE  EvidenceInv'
<1>p. UNCHANGED validity => Present' = Present
  BY DEF Present
<1>q. ASSUME cred' = cred, status' = status, Present' = Present,
             \A e \in events' : e.of = "credential" /\ e.st = "done" => cred[e.id].st = "done",
             \A t \in Task : task'[t] = task[t] \/ task'[t] = Idle
      PROVE  EvidenceInv'
  <2>1. \A k \in Cred : Kept(k)
    BY <1>q DEF Kept
  <2>2. RolesOK' /\ AcceptedIsGenuine' /\ DoneIsDone'
    BY <1>q DEF EvidenceInv, RolesOK, AcceptedIsGenuine, DoneIsDone, Genuine
  <2>3. \A t \in Task : task'[t] = task[t] \/ TaskEvident(task[t])'
    BY <1>q, SilentIsEvident, IdleIsSilent
  <2> QED BY <1>q, <2>1, <2>2, <2>3, EvidenceKept
<1>s. \A e \in Snapshot : e.of = "credential" /\ e.st = "done" => cred[e.id].st = "done"
  BY DEF Snapshot, ConnectionEvent, CredentialEvent
<1>d. \A e \in events : e.of = "credential" /\ e.st = "done" => cred[e.id].st = "done"
  BY DEF EvidenceInv, DoneIsDone
<1>1. ASSUME NEW t \in Task, HandlerFails(t) PROVE EvidenceInv'
  <2>1. task[t].at \in HandlerStep /\ TaskEvident(task[t]) /\ Started(task[t])
    BY <1>1 DEF HandlerFails, EvidenceInv, TypeOK, TaskOK
  <2>2. task[t].ev.of = "credential" /\ task[t].ev.st = "done"
          => cred[task[t].ev.id].st = "done"
    BY <2>1 DEF TaskEvident, Started, HandlerStep, ConnectionHandlerStep
  <2>3. /\ Goto(t, Idle) /\ events' \subseteq events \cup {task[t].ev}
        /\ cred' = cred /\ status' = status /\ Present' = Present
    BY <1>1, <1>p DEF HandlerFails, Reject, Finish, row, invites, cloud
  <2>4. \A u \in Task : task'[u] = task[u] \/ task'[u] = Idle
    BY <2>3, OneTaskMoves
  <2> QED BY <1>q, <1>d, <2>2, <2>3, <2>4
<1>2. CASE SocketReconnects
  BY <1>2, <1>p, <1>q, <1>s, <1>d DEF SocketReconnects, row, invites, cloud
<1>3. CASE Restart
  BY <1>3, <1>p, <1>q, <1>s DEF Restart, row, invites, cloud
<1> QED
  BY <1>1, <1>2, <1>3, EvidenceNewConnection, EvidenceCloud DEF Mishap

(* The invariant holds initially. *)
LEMMA EvidenceInit == Init => EvidenceInv
<1> SUFFICES ASSUME Init PROVE EvidenceInv
  OBVIOUS
<1>1. \A t \in Task : task[t].at = "idle"
  BY DEF Init, Idle
<1>2. \A t \in Task : TaskEvident(task[t])
  BY <1>1 DEF TaskEvident, CredentialHandlerStep
<1>3. \A k \in Cred : cred[k].role = "none" /\ cred[k].st = "none"
  BY DEF Init, NoExchange
<1> QED
  BY <1>2, <1>3 DEF EvidenceInv, Init, VerifiedOnEvidence, TheyAreVerified,
                    WeAreVerified, RolesOK, AcceptedIsGenuine, DoneIsDone

(* Every step keeps it. *)
LEMMA EvidenceNext == TypeOK /\ EvidenceInv /\ [Next]_vars => EvidenceInv'
<1> SUFFICES ASSUME TypeOK, EvidenceInv, [Next]_vars PROVE EvidenceInv'
  OBVIOUS
<1>1. CASE UserStep
  BY <1>1, EvidenceNewConnection, EvidenceConnection, EvidenceCloud DEF UserStep
<1>2. CASE PeerAct \/ AgentStep
  BY <1>2, EvidenceCloud
<1>3. CASE Mishap
  BY <1>3, EvidenceMishap
<1>4. ASSUME NEW t \in Task, Handle(t) PROVE EvidenceInv'
  BY <1>4, EvidenceConnection, EvidenceCredentialEvents DEF Handle
<1>5. ASSUME NEW t \in Task, NodeStep(t) PROVE EvidenceInv'
  BY <1>5, EvidenceNewConnection, EvidenceConnection, EvidenceCredentialStep DEF NodeStep
<1>6. CASE UNCHANGED vars
  <2>1. Present' = Present
    BY <1>6 DEF vars, invites, Present
  <2> QED BY <1>6, <2>1, StillStep DEF vars, row, cloud
<1> QED BY <1>1, <1>2, <1>3, <1>4, <1>5, <1>6 DEF Next

(* The invariant itself, for the theorems that rest on it. *)
THEOREM EvidenceHolds == Spec => []EvidenceInv
BY TypeCorrect, EvidenceInit, EvidenceNext, PTL DEF Spec

(* A row says verified_them or verified_both only after an exchange that we
   finished as issuer, with a PIN we had issued and the row's names; verified_us
   or verified_both only after one that we finished as holder. *)
THEOREM VerifiedOnEvidenceHolds == Spec => []VerifiedOnEvidence
<1>1. EvidenceInv => VerifiedOnEvidence
  BY DEF EvidenceInv
<1> QED
  BY <1>1, EvidenceHolds, PTL

-----------------------------------------------------------------------------
(* Rows, their connections and their invitations. *)

\* What no step takes away: the invitation a connection was made with.
Remembered(c) == agent[c].oob # NoInvite => agent'[c].oob = agent[c].oob

(* The locals of a task that a step does not move keep saying what they said. *)
LEMMA TaskStaysBound ==
  ASSUME TypeOK, Present \subseteq Present', \A c \in AgentConn : Remembered(c),
         NEW t \in Task, TaskBinds(task[t]), task'[t] = task[t]
  PROVE  TaskBinds(task[t])'
<1>1. task[t] \in Local /\ Started(task[t])
  BY DEF TypeOK, TaskOK
<1>2. ASSUME task[t].at = "connection"
      PROVE  agent'[task[t].ev.id].oob \in Present'
  <2>1. task[t].ev.id \in AgentConn
    BY <1>1, <1>2 DEF Started, HandlerStep, ConnectionHandlerStep, Event
  <2>2. agent[task[t].ev.id].oob \in Present
    BY <1>2 DEF TaskBinds
  <2>3. agent[task[t].ev.id].oob # NoInvite
    BY <2>2, NullsAreNotIds DEF Present
  <2> QED BY <2>1, <2>2, <2>3 DEF Remembered
<1>3. ASSUME task[t].at = "insert", task[t].conn # NoConn
      PROVE  agent'[task[t].conn].oob = task[t].inv
  <2>1. task[t].conn \in AgentConn
    BY <1>1, <1>3 DEF Local
  <2>2. agent[task[t].conn].oob = task[t].inv /\ task[t].inv \in Invite
    BY <1>3 DEF TaskBinds
  <2> QED BY <2>1, <2>2, NullsAreNotIds DEF Remembered
<1> QED BY <1>2, <1>3 DEF TaskBinds

(* A step keeps the invariant if it keeps invitations and what connections
   remember, binds the row properly and leaves its tasks bound. *)
LEMMA BindingKept ==
  ASSUME TypeOK, BindingInv, Present \subseteq Present',
         \A c \in AgentConn : Remembered(c), Unbound',
         agentId' = agentId \/ BoundToOwnInvite',
         \A t \in Task : task'[t] = task[t] \/ TaskBinds(task[t])'
  PROVE  BindingInv'
<1>1. BoundToOwnInvite'
  <2>1. CASE agentId' = agentId
    <3> SUFFICES ASSUME agentId # NoConn PROVE agent'[agentId].oob \in Present'
      BY <2>1 DEF BoundToOwnInvite
    <3>1. agentId \in AgentConn /\ agent[agentId].oob \in Present
      BY DEF TypeOK, BindingInv, BoundToOwnInvite
    <3>2. agent[agentId].oob # NoInvite
      BY <3>1, NullsAreNotIds DEF Present
    <3> QED BY <3>1, <3>2 DEF Remembered
  <2> QED BY <2>1
<1>2. \A t \in Task : TaskBinds(task[t])'
  BY TaskStaysBound DEF BindingInv
<1> QED BY <1>1, <1>2 DEF BindingInv

(* So does a step that leaves connections and the row's binding alone, and moves
   at most one task to a place that claims nothing. *)
LEMMA UnboundStep ==
  ASSUME TypeOK, BindingInv, Present \subseteq Present', agent' = agent, agentId' = agentId,
         \A t \in Task : \/ task'[t] = task[t]
                         \/ task'[t].at \notin {"connection", "insert", "check", "create"}
  PROVE  BindingInv'
<1>1. \A c \in AgentConn : Remembered(c)
  BY DEF Remembered
<1>2. Unbound'
  BY DEF BindingInv, Unbound
<1>3. \A t \in Task : task'[t] = task[t] \/ TaskBinds(task[t])'
  BY DEF TaskBinds
<1> QED BY <1>1, <1>2, <1>3, BindingKept

(* The same of a step that moves one task. *)
LEMMA UnboundMove ==
  ASSUME TypeOK, BindingInv, NEW t \in Task, NEW next, Goto(t, next),
         next.at \notin {"connection", "insert", "check", "create"},
         Present \subseteq Present', agent' = agent, agentId' = agentId
  PROVE  BindingInv'
BY OneTaskMoves, UnboundStep

(* A connection changes its state and nothing else. *)
LEMMA ConnectionMoves ==
  ASSUME TypeOK, BindingInv, NEW c \in AgentConn, NEW s, s # "none",
         agent' = [agent EXCEPT ![c].st = s]
  PROVE  (\A d \in AgentConn : Remembered(d)) /\ Unbound'
<1>1. agent[c] \in Agent /\ \A d \in AgentConn : d # c => agent'[d] = agent[d]
  BY DEF TypeOK
<1>2. agent'[c].oob = agent[c].oob /\ agent'[c].st = s
  BY <1>1 DEF TypeOK, Agent
<1> QED BY <1>1, <1>2 DEF Remembered, Unbound, BindingInv

(* A connection that did not exist is made with an invitation. *)
LEMMA ConnectionBegins ==
  ASSUME TypeOK, BindingInv, NEW c \in AgentConn, NEW i \in Invite,
         agent[c].st = "none",
         agent' = [agent EXCEPT ![c] = [st |-> "requested", oob |-> i]]
  PROVE  /\ \A d \in AgentConn : Remembered(d)
         /\ Unbound' /\ agent'[c].oob = i
<1>1. /\ agent'[c] = [st |-> "requested", oob |-> i]
      /\ \A d \in AgentConn : d # c => agent'[d] = agent[d]
  BY DEF TypeOK
<1>2. agent[c].oob = NoInvite
  BY DEF BindingInv, Unbound
<1> QED BY <1>1, <1>2 DEF Remembered, Unbound, BindingInv

(* The requests that issue and accept invitations. *)
LEMMA BindingNewConnection ==
  ASSUME TypeOK, BindingInv, NEW t \in Task,
         \/ SubmitNewInvite(t) \/ SubmitFromInvite(t) \/ RequestFails(t)
         \/ NewConnectionStep(t)
  PROVE  BindingInv'
<1>l. task[t] \in Local /\ TaskBinds(task[t])
  BY DEF TypeOK, TaskOK, BindingInv
<1>p. UNCHANGED validity => Present' = Present
  BY DEF Present
<1>k. agent' = agent => (\A c \in AgentConn : Remembered(c)) /\ Unbound'
  BY DEF Remembered, BindingInv, Unbound
<1> USE DEF row, invites, cloud
<1>1. CASE SubmitNewInvite(t)
  <2> DEFINE next == [Idle EXCEPT !.at = IF status = "none" THEN "create" ELSE "check",
                                  !.seen = status]
  <2>1. next.conn = NoConn /\ next.at \in {"check", "create"}
    BY DEF Idle
  <2>2. task'[t] = next /\ \A u \in Task : u # t => task'[u] = task[u]
    BY <1>1, OneTaskMoves DEF SubmitNewInvite
  <2> HIDE DEF next
  <2>3. TaskBinds(task[t])'
    BY <2>1, <2>2 DEF TaskBinds
  <2> QED BY <1>1, <1>p, <1>k, <2>2, <2>3, BindingKept DEF SubmitNewInvite
<1>2. CASE SubmitFromInvite(t)
  <2>1. PICK i \in Invite, c \in AgentConn :
          /\ agent[c].st = "none"
          /\ agent' = [agent EXCEPT ![c] = [st |-> "requested", oob |-> i]]
          /\ Goto(t, [Idle EXCEPT !.at = "insert", !.inv = i, !.conn = c])
    BY <1>2 DEF SubmitFromInvite
  <2> DEFINE next == [Idle EXCEPT !.at = "insert", !.inv = i, !.conn = c]
  <2>2. next.at = "insert" /\ next.inv = i /\ next.conn = c
    BY DEF Idle
  <2>3. task'[t] = next /\ \A u \in Task : u # t => task'[u] = task[u]
    BY <2>1, OneTaskMoves
  <2>4. (\A d \in AgentConn : Remembered(d)) /\ Unbound' /\ agent'[c].oob = i
    BY <2>1, ConnectionBegins
  <2> HIDE DEF next
  <2>5. TaskBinds(task[t])'
    BY <2>2, <2>3, <2>4 DEF TaskBinds
  <2> QED BY <1>2, <1>p, <2>3, <2>4, <2>5, BindingKept DEF SubmitFromInvite
<1>3. CASE RequestFails(t)
  BY <1>3, <1>p, UnboundMove DEF RequestFails, Finish, Idle
<1>4. CASE CheckInvites(t)
  <2>1. CASE Finish(t)
    BY <1>4, <1>p, <2>1, UnboundMove DEF CheckInvites, Finish, Idle
  <2>2. CASE ~Finish(t)
    <3> DEFINE next == [task[t] EXCEPT !.at = "create"]
    <3>1. task'[t] = next /\ \A u \in Task : u # t => task'[u] = task[u]
      BY <1>4, <2>2, OneTaskMoves DEF CheckInvites
    <3>2. task[t].conn = NoConn
      BY <1>4, <1>l DEF CheckInvites, At, TaskBinds
    <3>3. next.at = "create" /\ next.conn = NoConn
      BY <1>l, <3>2 DEF Local
    <3> HIDE DEF next
    <3>4. TaskBinds(task[t])'
      BY <3>1, <3>3 DEF TaskBinds
    <3> QED BY <1>4, <1>p, <1>k, <3>1, <3>4, BindingKept DEF CheckInvites
  <2> QED BY <2>1, <2>2
<1>5. CASE CreateInvitation(t)
  <2>1. PICK i \in Invite :
          Goto(t, [task[t] EXCEPT !.inv = i,
                     !.at = IF task[t].seen = "none" THEN "insert" ELSE "reread"])
    BY <1>5 DEF CreateInvitation
  <2> DEFINE next == [task[t] EXCEPT !.inv = i,
                        !.at = IF task[t].seen = "none" THEN "insert" ELSE "reread"]
  <2>2. task'[t] = next /\ \A u \in Task : u # t => task'[u] = task[u]
    BY <2>1, OneTaskMoves
  <2>3. task[t].conn = NoConn
    BY <1>5, <1>l DEF CreateInvitation, At, TaskBinds
  <2>4. next.conn = NoConn /\ next.inv = i /\ next.at \in {"insert", "reread"}
    BY <1>l, <2>3 DEF Local
  <2> HIDE DEF next
  <2>5. TaskBinds(task[t])'
    BY <2>2, <2>4 DEF TaskBinds
  <2> QED BY <1>5, <1>p, <1>k, <2>2, <2>5, BindingKept DEF CreateInvitation
<1>6. CASE InsertNewConnection(t)
  <2>1. Goto(t, Idle) /\ agent' = agent
    BY <1>6 DEF InsertNewConnection, Finish
  <2>2. Present \subseteq Present'
    BY <1>6 DEF InsertNewConnection, Present, TypeOK
  <2>3. task'[t] = Idle /\ \A u \in Task : u # t => task'[u] = task[u]
    BY <2>1, OneTaskMoves
  <2>4. TaskBinds(task[t])'
    BY <2>3 DEF TaskBinds, Idle
  <2>5. CASE status = "none"
    <3>1. /\ agentId' = task[t].conn
          /\ validity' = [validity EXCEPT ![task[t].inv] = "valid"]
      BY <1>6, <2>5 DEF InsertNewConnection
    <3>2. /\ task[t].inv \in Invite
          /\ task[t].conn # NoConn => agent[task[t].conn].oob = task[t].inv
      BY <1>6, <1>l DEF InsertNewConnection, At, TaskBinds
    <3>3. task[t].inv \in Present'
      BY <3>1, <3>2 DEF Present, TypeOK
    <3>4. BoundToOwnInvite'
      BY <2>1, <3>1, <3>2, <3>3 DEF BoundToOwnInvite
    <3> QED BY <1>k, <2>1, <2>2, <2>3, <2>4, <3>4, BindingKept
  <2>6. CASE status # "none"
    BY <1>6, <1>k, <2>1, <2>2, <2>3, <2>4, <2>6, BindingKept DEF InsertNewConnection
  <2> QED BY <2>5, <2>6
<1>7. CASE RereadInvites(t)
  <2> DEFINE next == [task[t] EXCEPT !.at = "purge", !.known = Present]
  <2>1. next.at = "purge"
    BY <1>l DEF Local
  <2> QED BY <1>7, <1>p, <2>1, UnboundMove DEF RereadInvites
<1>8. CASE PurgeOob(t)
  <2>1. PICK i \in task[t].known :
          Goto(t, [task[t] EXCEPT !.known = task[t].known \ {i},
                     !.at = IF task[t].known \ {i} = {} THEN "expire" ELSE "purge"])
    BY <1>8 DEF PurgeOob
  <2> DEFINE next == [task[t] EXCEPT !.known = task[t].known \ {i},
                        !.at = IF task[t].known \ {i} = {} THEN "expire" ELSE "purge"]
  <2>2. next.at \in {"expire", "purge"}
    BY <1>l DEF Local
  <2> QED BY <1>8, <1>p, <2>1, <2>2, UnboundMove DEF PurgeOob
<1>9. CASE BeginReissue(t)
  <2> DEFINE next == [task[t] EXCEPT !.at = "commit", !.known = Present]
  <2>1. next.at = "commit"
    BY <1>l DEF Local
  <2> QED BY <1>9, <1>p, <2>1, UnboundMove DEF BeginReissue
<1>10. CASE CommitReissue(t)
  <2>1. Present \subseteq Present'
    BY <1>10 DEF CommitReissue, Present
  <2> QED BY <1>10, <2>1, UnboundMove DEF CommitReissue, Finish, Idle
<1> QED
  BY <1>1, <1>2, <1>3, <1>4, <1>5, <1>6, <1>7, <1>8, <1>9, <1>10 DEF NewConnectionStep

(* The handlers of connection events, and the disconnect request. *)
LEMMA BindingConnection ==
  ASSUME TypeOK, BindingInv, NEW t \in Task,
         \/ \E e \in events : ConnectionStateChanged(t, e) \/ ConnectionDidRotated(t, e)
         \/ DisconnectConnection(t)
         \/ ConnectionStep(t)
  PROVE  BindingInv'
<1>l. task[t] \in Local /\ TaskBinds(task[t])
  BY DEF TypeOK, TaskOK, BindingInv
<1>p. UNCHANGED validity => Present' = Present
  BY DEF Present
<1>u. UseInvites => Present \subseteq Present'
  BY DEF UseInvites, Present
<1>k. agent' = agent => (\A c \in AgentConn : Remembered(c)) /\ Unbound'
  BY DEF Remembered, BindingInv, Unbound
<1> USE DEF row, invites, cloud
<1>1. ASSUME NEW e \in events, ConnectionStateChanged(t, e) PROVE BindingInv'
  <2>1. CASE task' = task
    BY <1>1, <1>p, <2>1, UnboundStep DEF ConnectionStateChanged
  <2>2. CASE task' # task
    <3> DEFINE next == [Idle EXCEPT !.at = "connection", !.ev = e, !.seen = status]
    <3>1. Goto(t, next) /\ agent[e.id].oob \in Present
      BY <1>1, <2>2 DEF ConnectionStateChanged, KnownInvite
    <3>2. next.at = "connection" /\ next.ev = e
      BY DEF Idle
    <3>3. task'[t] = next /\ \A u \in Task : u # t => task'[u] = task[u]
      BY <3>1, OneTaskMoves
    <3>4. agent' = agent /\ agentId' = agentId /\ Present' = Present
      BY <1>1, <1>p DEF ConnectionStateChanged
    <3> HIDE DEF next
    <3>5. TaskBinds(task[t])'
      BY <3>1, <3>2, <3>3, <3>4 DEF TaskBinds
    <3> QED BY <1>k, <3>3, <3>4, <3>5, BindingKept
  <2> QED BY <2>1, <2>2
<1>2. ASSUME NEW e \in events, ConnectionDidRotated(t, e) PROVE BindingInv'
  BY <1>2, <1>p, UnboundStep DEF ConnectionDidRotated
<1>3. CASE UpdateConnection(t)
  <2>1. /\ agentId' = task[t].ev.id /\ agent' = agent
        /\ Goto(t, Idle) /\ Present \subseteq Present'
    BY <1>3, <1>u DEF UpdateConnection, Finish
  <2>2. agent[task[t].ev.id].oob \in Present
    BY <1>3, <1>l DEF UpdateConnection, At, TaskBinds
  <2>3. BoundToOwnInvite'
    BY <2>1, <2>2 DEF BoundToOwnInvite
  <2>4. task'[t] = Idle /\ \A u \in Task : u # t => task'[u] = task[u]
    BY <2>1, OneTaskMoves
  <2>5. TaskBinds(task[t])'
    BY <2>4 DEF TaskBinds, Idle
  <2> QED BY <1>k, <2>1, <2>3, <2>4, <2>5, BindingKept
<1>4. CASE MissConnection(t)
  <2> DEFINE next == [task[t] EXCEPT !.at = "mark_used"]
  <2>1. next.at = "mark_used"
    BY <1>l DEF Local
  <2> QED BY <1>4, <1>p, <2>1, UnboundMove DEF MissConnection
<1>5. CASE MarkUsed(t)
  BY <1>5, <1>u, UnboundMove DEF MarkUsed, Finish, Idle
<1>6. CASE DisconnectConnection(t)
  <2> DEFINE next == [Idle EXCEPT !.at = "close", !.conn = agentId]
  <2>1. next.at = "close"
    BY DEF Idle
  <2> QED BY <1>6, <1>p, <2>1, UnboundMove DEF DisconnectConnection
<1>7. CASE CloseConnection(t)
  <2> DEFINE next == [task[t] EXCEPT !.at = "mark"]
  <2>1. next.at = "mark" /\ Idle.at = "idle"
    BY <1>l DEF Local, Idle
  <2>2. Goto(t, Idle) \/ Goto(t, next)
    BY <1>7 DEF CloseConnection, Finish
  <2>3. task'[t].at \in {"idle", "mark"} /\ \A u \in Task : u # t => task'[u] = task[u]
    BY <2>1, <2>2, OneTaskMoves
  <2>4. \A u \in Task : task'[u] = task[u] \/ TaskBinds(task[u])'
    BY <2>3 DEF TaskBinds
  <2>5. task[t].conn \in AgentConn \cup {NoConn}
    BY <1>l DEF Local
  <2>6. (\A d \in AgentConn : Remembered(d)) /\ Unbound'
    <3>1. CASE agent' = agent
      BY <1>k, <3>1
    <3>2. CASE agent' # agent
      <4>1. agent' = [agent EXCEPT ![task[t].conn].st = "deleted"]
        BY <1>7, <3>2 DEF CloseConnection
      <4>2. task[t].conn \in AgentConn
        BY <2>5, <3>2, <4>1 DEF TypeOK
      <4> QED BY <4>1, <4>2, ConnectionMoves
    <3> QED BY <3>1, <3>2
  <2>7. agentId' = agentId /\ Present' = Present
    BY <1>7, <1>p DEF CloseConnection
  <2> QED BY <2>4, <2>6, <2>7, BindingKept
<1>8. CASE MarkDisconnected(t)
  BY <1>8, <1>p, UnboundMove DEF MarkDisconnected, Finish, Idle
<1> QED
  BY <1>1, <1>2, <1>3, <1>4, <1>5, <1>6, <1>7, <1>8 DEF ConnectionStep

\* No task moves, or one moves within the handlers of credential events.
StaysWithCredentials(t) ==
    \/ task' = task
    \/ \E next : Goto(t, next) /\ next.at \in CredentialHandlerStep \cup {"idle"}

\* A credential handler goes on with its notification, or ends.
GoesOn(t) ==
    \E next : /\ Goto(t, next)
              /\ \/ next = Idle
                 \/ /\ next.at \in CredentialHandlerStep \ {"done"}
                    /\ next.ev = task[t].ev

LEMMA HandlerGoesOn ==
  ASSUME TypeOK, NEW t \in Task, CredentialStep(t)
  PROVE  task[t].at \in CredentialHandlerStep /\ GoesOn(t)
<1>l. task[t] \in Local
  BY DEF TypeOK, TaskOK
<1>a. task[t].at \in CredentialHandlerStep
  BY DEF CredentialStep, IncrementAttempts, LockInvites, ResetAttempts, ComparePin, ExpirePins,
         AcceptProposal, SendProblemReport, WriteDone, At, CredentialHandlerStep
<1>1. CASE IncrementAttempts(t)
  <2> DEFINE step == IF attempts' >= PinLimit THEN "lock" ELSE "compare"
             next == [task[t] EXCEPT !.cnt = PinTries - attempts', !.at = step]
  <2>1. step \in CredentialHandlerStep \ {"done"}
    BY DEF CredentialHandlerStep
  <2>2. next.at = step /\ next.ev = task[t].ev
    <3> HIDE DEF step
    <3> QED BY <1>l DEF Local
  <2>3. Goto(t, next)
    BY <1>1 DEF IncrementAttempts
  <2> HIDE DEF next, step
  <2> QED BY <1>a, <2>1, <2>2, <2>3 DEF GoesOn
<1>2. CASE LockInvites(t) \/ ResetAttempts(t) \/ ExpirePins(t)
  <2>1. \/ Goto(t, [task[t] EXCEPT !.at = "reset"])
        \/ Goto(t, [task[t] EXCEPT !.at = "report"])
        \/ Goto(t, [task[t] EXCEPT !.at = "answer", !.known = {}])
    BY <1>2 DEF LockInvites, ResetAttempts, ExpirePins
  <2>2. LET a == [task[t] EXCEPT !.at = "reset"]
            b == [task[t] EXCEPT !.at = "report"]
            c == [task[t] EXCEPT !.at = "answer", !.known = {}]
        IN  /\ a.at = "reset" /\ b.at = "report" /\ c.at = "answer"
            /\ a.ev = task[t].ev /\ b.ev = task[t].ev /\ c.ev = task[t].ev
    BY <1>l DEF Local
  <2> QED BY <1>a, <2>1, <2>2 DEF GoesOn, CredentialHandlerStep
<1>3. CASE ComparePin(t)
  <2> DEFINE used == InviteWith("used")
             late == {i \in used : lapsed[i]}
             right == ExchangeOf(t).pin \in used \ late
             count == IF used = {} THEN 0 ELSE task[t].cnt
             step == IF late = {} THEN "answer" ELSE "expire_pins"
             next == [task[t] EXCEPT !.known = late, !.good = right,
                                     !.cnt = count, !.at = step]
  <2>1. step \in CredentialHandlerStep \ {"done"}
    BY DEF CredentialHandlerStep
  <2>2. next.at = step /\ next.ev = task[t].ev
    <3> HIDE DEF step, count, right, late
    <3> QED BY <1>l DEF Local
  <2>3. Goto(t, next)
    BY <1>3 DEF ComparePin
  <2> HIDE DEF next, step
  <2> QED BY <1>a, <2>1, <2>2, <2>3 DEF GoesOn
<1>4. CASE AcceptProposal(t) \/ SendProblemReport(t) \/ WriteDone(t)
  BY <1>4, <1>a DEF AcceptProposal, SendProblemReport, WriteDone, Reject, Finish, GoesOn
<1> QED BY <1>1, <1>2, <1>3, <1>4 DEF CredentialStep

(* The handlers of credential events touch neither connections nor the binding. *)
LEMMA BindingCredential ==
  ASSUME TypeOK, BindingInv, NEW t \in Task,
         \/ \E e \in events : \/ ProposalReceived(t, e) \/ ForwardExchange(t, e)
                              \/ ExchangeDone(t, e) \/ ProblemReported(t, e)
         \/ CredentialStep(t)
  PROVE  BindingInv'
<1>p. UNCHANGED validity => Present' = Present
  BY DEF Present
<1>1. agent' = agent /\ agentId' = agentId
  BY DEF ProposalReceived, ForwardExchange, ExchangeDone, ProblemReported, CredentialStep,
         IncrementAttempts, LockInvites, ResetAttempts, ComparePin, ExpirePins,
         AcceptProposal, SendProblemReport, WriteDone, row, cloud
<1>2. Present \subseteq Present'
  <2>1. LockInvites(t) \/ ExpirePins(t) => Present \subseteq Present'
    BY DEF LockInvites, ExpirePins, Present
  <2> QED BY <2>1, <1>p
          DEF ProposalReceived, ForwardExchange, ExchangeDone, ProblemReported,
              CredentialStep, IncrementAttempts, ResetAttempts, ComparePin,
              AcceptProposal, SendProblemReport, WriteDone, invites
<1>3. StaysWithCredentials(t)
  <2> USE DEF StaysWithCredentials
  <2>1. ASSUME NEW e \in events,
               \/ ProposalReceived(t, e) \/ ForwardExchange(t, e)
               \/ ExchangeDone(t, e) \/ ProblemReported(t, e)
        PROVE  StaysWithCredentials(t)
    <3>1. CASE ProposalReceived(t, e)
      <4> DEFINE next == [Idle EXCEPT !.at = "count", !.ev = e]
      <4>1. next.at \in CredentialHandlerStep
        BY DEF Idle, CredentialHandlerStep
      <4>2. task' = task \/ Goto(t, next)
        BY <3>1 DEF ProposalReceived
      <4> HIDE DEF next
      <4> QED BY <4>1, <4>2
    <3>2. CASE ForwardExchange(t, e) \/ ProblemReported(t, e)
      BY <3>2 DEF ForwardExchange, ProblemReported
    <3>3. CASE ExchangeDone(t, e)
      <4> DEFINE after == AfterDone(status, cred[e.id].role)
                 next == [Idle EXCEPT !.at = "done", !.ev = e, !.seen = after]
      <4>1. next.at \in CredentialHandlerStep
        <5> HIDE DEF after
        <5> QED BY DEF Idle, CredentialHandlerStep
      <4>2. task' = task \/ Goto(t, next)
        BY <3>3 DEF ExchangeDone
      <4> HIDE DEF next
      <4> QED BY <4>1, <4>2
    <3> QED BY <2>1, <3>1, <3>2, <3>3
  <2>2. ASSUME CredentialStep(t) PROVE StaysWithCredentials(t)
    <3>1. PICK next : /\ Goto(t, next)
                      /\ next = Idle \/ next.at \in CredentialHandlerStep \ {"done"}
      BY <2>2, HandlerGoesOn DEF GoesOn
    <3> QED BY <3>1 DEF Idle
  <2> QED BY <2>1, <2>2
<1>4. \A u \in Task : \/ task'[u] = task[u]
                      \/ task'[u].at \notin {"connection", "insert", "check", "create"}
  BY <1>3, OneTaskMoves DEF StaysWithCredentials, CredentialHandlerStep
<1> QED BY <1>1, <1>2, <1>4, UnboundStep

(* The cloudagent, the peer and the clock. *)
LEMMA BindingCloud ==
  ASSUME TypeOK, BindingInv,
         \/ PeerAct \/ AgentStep \/ (\E i \in Invite : InviteLapses(i))
         \/ \E k \in Cred : SubmitPinCode(k)
  PROVE  BindingInv'
<1>p. UNCHANGED validity => Present' = Present
  BY DEF Present
<1>m. ASSUME Present' = Present, agentId' = agentId, task' = task,
             (\A d \in AgentConn : Remembered(d)) /\ Unbound'
      PROVE  BindingInv'
  <2>1. \A t \in Task : task'[t] = task[t]
    BY <1>m
  <2> QED BY <1>m, <2>1, BindingKept
<1>1. ASSUME NEW i \in Invite, NEW c \in AgentConn, PeerAccepts(i, c) PROVE BindingInv'
  <2>1. (\A d \in AgentConn : Remembered(d)) /\ Unbound'
    BY <1>1, ConnectionBegins DEF PeerAccepts
  <2> QED BY <1>1, <1>p, <1>m, <2>1 DEF PeerAccepts, row, invites
<1>2. ASSUME NEW c \in AgentConn, NEW st \in {"completed", "abandoned", "hungup"},
             agent' = [agent EXCEPT ![c].st = st],
             Present' = Present, agentId' = agentId, task' = task
      PROVE  BindingInv'
  BY <1>m, <1>2, ConnectionMoves
<1>3. ASSUME NEW c \in AgentConn, PeerHangsUp(c) PROVE BindingInv'
  BY <1>2, <1>3, <1>p DEF PeerHangsUp, row, invites
<1>4. ASSUME NEW c \in AgentConn, NEW st \in {"completed", "abandoned"},
             AgentSettles(c, st)
      PROVE  BindingInv'
  BY <1>2, <1>4, <1>p DEF AgentSettles, row, invites
<1>5. ASSUME agent' = agent, agentId' = agentId, task' = task, validity' = validity
      PROVE  BindingInv'
  <2>1. \A t \in Task : task'[t] = task[t]
    BY <1>5
  <2> QED BY <1>5, <1>p, <2>1, UnboundStep
<1>6. ASSUME NEW k \in Cred, NEW c \in AgentConn, NEW pin \in Invite \cup {NoInvite},
             NEW agrees \in BOOLEAN, PeerProposes(k, c, pin, agrees)
      PROVE  BindingInv'
  BY <1>5, <1>6 DEF PeerProposes, row, invites
<1>7. ASSUME NEW k \in Cred, NEW r \in Reports, PeerReports(k, r) PROVE BindingInv'
  BY <1>5, <1>7 DEF PeerReports, row, invites
<1>8. ASSUME NEW k \in Cred, PeerAdvances(k) \/ SubmitPinCode(k) PROVE BindingInv'
  BY <1>5, <1>8 DEF PeerAdvances, SubmitPinCode, row, invites
<1>9. ASSUME NEW i \in Invite, InviteLapses(i) PROVE BindingInv'
  BY <1>5, <1>9 DEF InviteLapses, row, cloud
<1> QED
  BY <1>1, <1>3, <1>4, <1>6, <1>7, <1>8, <1>9 DEF PeerAct, AgentStep

(* Failures, a lost socket and a restart. *)
LEMMA BindingMishap ==
  ASSUME TypeOK, BindingInv, Mishap
  PROVE  BindingInv'
<1>p. UNCHANGED validity => Present' = Present
  BY DEF Present
<1> USE DEF row, invites, cloud
<1>1. ASSUME NEW t \in Task, HandlerFails(t) PROVE BindingInv'
  <2>1. Goto(t, Idle) /\ agent' = agent /\ agentId' = agentId /\ Present' = Present
    BY <1>1, <1>p DEF HandlerFails, Reject, Finish
  <2>2. Idle.at = "idle"
    BY DEF Idle
  <2> QED BY <2>1, <2>2, UnboundMove
<1>2. CASE SocketReconnects
  <2>1. \A t \in Task : task'[t] = task[t]
    BY <1>2 DEF SocketReconnects
  <2> QED BY <1>2, <1>p, <2>1, UnboundStep DEF SocketReconnects
<1>3. CASE Restart
  <2>1. \A t \in Task : task'[t].at = "idle"
    BY <1>3 DEF Restart, Idle
  <2> QED BY <1>3, <1>p, <2>1, UnboundStep DEF Restart
<1> QED
  BY <1>1, <1>2, <1>3, BindingNewConnection, BindingCloud DEF Mishap

(* The invariant holds initially. *)
LEMMA BindingInit == Init => BindingInv
BY DEF Init, BindingInv, BoundToOwnInvite, Unbound, TaskBinds, Idle

(* Every step keeps it. *)
LEMMA BindingNext == TypeOK /\ BindingInv /\ [Next]_vars => BindingInv'
<1> SUFFICES ASSUME TypeOK, BindingInv, [Next]_vars PROVE BindingInv'
  OBVIOUS
<1>1. CASE UserStep
  BY <1>1, BindingNewConnection, BindingConnection, BindingCloud DEF UserStep
<1>2. CASE PeerAct \/ AgentStep
  BY <1>2, BindingCloud
<1>3. CASE Mishap
  BY <1>3, BindingMishap
<1>4. ASSUME NEW t \in Task, Handle(t) PROVE BindingInv'
  BY <1>4, BindingConnection, BindingCredential DEF Handle
<1>5. ASSUME NEW t \in Task, NodeStep(t) PROVE BindingInv'
  BY <1>5, BindingNewConnection, BindingConnection, BindingCredential DEF NodeStep
<1>6. CASE UNCHANGED vars
  <2>1. /\ Present' = Present /\ agent' = agent /\ agentId' = agentId
        /\ \A t \in Task : task'[t] = task[t]
    BY <1>6 DEF vars, row, invites, cloud, Present
  <2> QED BY <2>1, UnboundStep
<1> QED BY <1>1, <1>2, <1>3, <1>4, <1>5, <1>6 DEF Next

(* The connection a row points to was made with one of the row's invitations. *)
THEOREM BoundToOwnInviteHolds == Spec => []BoundToOwnInvite
<1>1. BindingInv => BoundToOwnInvite
  BY DEF BindingInv
<1> QED
  BY <1>1, TypeCorrect, BindingInit, BindingNext, PTL DEF Spec

(* What the handlers rely on between the steps of a request: a row and the
   connection it points to stay bound, and a connection is bound to one row. *)
THEOREM BindingInvHolds == Spec => []BindingInv
BY TypeCorrect, BindingInit, BindingNext, PTL DEF Spec

-----------------------------------------------------------------------------
(* A step that neither makes a row unverified nor an invitation valid keeps open
   invitations away from unverified rows. *)
LEMMA NoneOpens ==
  ASSUME NoOpenInviteOnceConnected,
         status' = "unverified" => status = "unverified",
         InviteWith("valid")' \subseteq InviteWith("valid")
  PROVE  NoOpenInviteOnceConnected'
BY DEF NoOpenInviteOnceConnected

(* The steps of requests and handlers: a reissue takes the row to pending, the
   completion of a connection uses every invitation up, and handleDone writes
   nothing but a verified status. *)
LEMMA NoOpenNode ==
  ASSUME TypeOK, EvidenceInv, NoOpenInviteOnceConnected, NEW t \in Task, NodeStep(t)
  PROVE  NoOpenInviteOnceConnected'
<1>k. UNCHANGED <<status, validity>> => NoOpenInviteOnceConnected'
  BY NoneOpens DEF InviteWith
<1>u. UseInvites => InviteWith("valid")' = {}
  BY DEF UseInvites, Present, InviteWith, TypeOK
<1> USE DEF row, invites, cloud
<1>1. CASE InsertNewConnection(t)
  BY <1>1, <1>k DEF InsertNewConnection, NoOpenInviteOnceConnected
<1>2. CASE CommitReissue(t)
  BY <1>2 DEF CommitReissue, NoOpenInviteOnceConnected
<1>3. CASE CheckInvites(t) \/ CreateInvitation(t) \/ RereadInvites(t) \/ PurgeOob(t)
           \/ BeginReissue(t)
  BY <1>3, <1>k DEF CheckInvites, CreateInvitation, RereadInvites, PurgeOob, BeginReissue
<1>4. CASE UpdateConnection(t)
  BY <1>4, <1>u DEF UpdateConnection, NoOpenInviteOnceConnected
<1>5. CASE MarkUsed(t)
  BY <1>5, <1>u DEF MarkUsed, NoOpenInviteOnceConnected
<1>6. CASE MissConnection(t) \/ CloseConnection(t)
  BY <1>6, <1>k DEF MissConnection, CloseConnection
<1>7. CASE MarkDisconnected(t)
  BY <1>7 DEF MarkDisconnected, NoOpenInviteOnceConnected
<1>8. CASE LockInvites(t)
  <2>1. status' = status /\ InviteWith("valid")' \subseteq InviteWith("valid")
    BY <1>8 DEF LockInvites, InviteWith, TypeOK
  <2> QED BY <2>1, NoneOpens
<1>9. CASE ExpirePins(t)
  <2>1. status' = status /\ InviteWith("valid")' \subseteq InviteWith("valid")
    BY <1>9 DEF ExpirePins, InviteWith, TypeOK
  <2> QED BY <2>1, NoneOpens
<1>10. CASE IncrementAttempts(t) \/ ResetAttempts(t) \/ ComparePin(t)
            \/ AcceptProposal(t) \/ SendProblemReport(t)
  BY <1>10, <1>k
  DEF IncrementAttempts, ResetAttempts, ComparePin, AcceptProposal, SendProblemReport
<1>11. CASE WriteDone(t)
  <2>1. task[t].seen # "unverified"
    BY <1>11 DEF WriteDone, At, EvidenceInv, TaskEvident
  <2> QED BY <1>11, <2>1 DEF WriteDone, NoOpenInviteOnceConnected
<1> QED
  BY <1>1, <1>2, <1>3, <1>4, <1>5, <1>6, <1>7, <1>8, <1>9, <1>10, <1>11
  DEF NodeStep, NewConnectionStep, ConnectionStep, CredentialStep

(* Every other step. *)
LEMMA NoOpenNext ==
  TypeOK /\ EvidenceInv /\ NoOpenInviteOnceConnected /\ [Next]_vars
  => NoOpenInviteOnceConnected'
<1> SUFFICES ASSUME TypeOK, EvidenceInv, NoOpenInviteOnceConnected, [Next]_vars
             PROVE  NoOpenInviteOnceConnected'
  OBVIOUS
<1>k. UNCHANGED <<status, validity>> => NoOpenInviteOnceConnected'
  BY NoneOpens DEF InviteWith
<1> USE DEF row, invites, cloud
<1>1. CASE UserStep
  BY <1>1, <1>k DEF UserStep, SubmitNewInvite, SubmitFromInvite, DisconnectConnection,
                    SubmitPinCode
<1>2. CASE PeerAct \/ AgentStep
  BY <1>2, <1>k DEF PeerAct, AgentStep, PeerAccepts, PeerHangsUp, PeerProposes,
                    PeerReports, AgentSettles, PeerAdvances
<1>3. CASE Mishap
  BY <1>3, <1>k DEF Mishap, InviteLapses, RequestFails, HandlerFails, SocketReconnects,
                    Restart
<1>4. ASSUME NEW t \in Task, Handle(t) PROVE NoOpenInviteOnceConnected'
  <2>1. ASSUME NEW e \in events, ConnectionDidRotated(t, e)
        PROVE  NoOpenInviteOnceConnected'
    BY <2>1, NoneOpens DEF ConnectionDidRotated, InviteWith
  <2>2. ASSUME NEW e \in events,
               \/ ConnectionStateChanged(t, e) \/ ProposalReceived(t, e)
               \/ ForwardExchange(t, e) \/ ExchangeDone(t, e) \/ ProblemReported(t, e)
        PROVE  NoOpenInviteOnceConnected'
    BY <2>2, <1>k DEF ConnectionStateChanged, ProposalReceived, ForwardExchange,
                      ExchangeDone, ProblemReported
  <2> QED BY <1>4, <2>1, <2>2 DEF Handle
<1>5. ASSUME NEW t \in Task, NodeStep(t) PROVE NoOpenInviteOnceConnected'
  BY <1>5, NoOpenNode
<1>6. CASE UNCHANGED vars
  BY <1>6, <1>k DEF vars
<1> QED BY <1>1, <1>2, <1>3, <1>4, <1>5, <1>6 DEF Next

(* No invitation of an unverified row is valid: whoever holds its out-of-band
   invitation can do no more with it than with a used one. *)
THEOREM NoOpenInviteHolds == Spec => []NoOpenInviteOnceConnected
<1>1. Init => NoOpenInviteOnceConnected
  BY DEF Init, NoOpenInviteOnceConnected
<1> QED
  BY <1>1, TypeCorrect, EvidenceHolds, NoOpenNext, PTL DEF Spec
=============================================================================
