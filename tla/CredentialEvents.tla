--------------------------- MODULE CredentialEvents ---------------------------
(***************************************************************************)
(* CredentialEvents and CompanyDetailsV1Handler: the handlers of the       *)
(* credential exchange that carries a PIN and whose completion verifies    *)
(* one side of a connection, and the page that submits our own PIN.        *)
(***************************************************************************)
EXTENDS ConnectionTables

\* Seeded bug: the row is found whichever connection the exchange ran over.
AnyRow(k) == agentId # NoConn /\ k \in Cred

\* The row is found by the exchange's connection.
OnRow(k) == agentId # NoConn /\ cred[k].conn = agentId

\* handleProposalReceived up to the status check.  An event of a connection no
\* row knows yet is rejected and so stays pending.
ProposalReceived(t, e) ==
    /\ At(t, "idle") /\ e \in events /\ e.of = "credential"
    /\ cred[e.id].role = "issuer" /\ e.st = "proposal-received"
    /\ OnRow(e.id)
    /\ events' = events \ {e}
    /\ IF status \in {"unverified", "verified_us"} /\ cred[e.id].agrees
       THEN Goto(t, [Idle EXCEPT !.at = "count", !.ev = e])
       ELSE UNCHANGED task
    /\ UNCHANGED <<row, invites, cloud, checked>>

\* Seeded bug: the limit is passed by one.
IncrementAttemptsLate(t) ==
    /\ At(t, "count")
    /\ attempts' = attempts + 1
    /\ Goto(t, [task[t] EXCEPT !.cnt = PinTries - attempts',
                               !.at = IF attempts' > PinLimit THEN "lock" ELSE "compare"])
    /\ UNCHANGED <<status, agentId, tries, invites, cloud, events, checked>>

\* The attempt is counted, atomically, and the limit is tested on the result.
IncrementAttempts(t) ==
    /\ At(t, "count")
    /\ attempts' = attempts + 1
    /\ Goto(t, [task[t] EXCEPT !.cnt = PinTries - attempts',
                               !.at = IF attempts' >= PinLimit THEN "lock" ELSE "compare"])
    /\ UNCHANGED <<status, agentId, tries, invites, cloud, events, checked>>

\* Over the limit: every invitation is locked, then the count starts again.
LockInvites(t) ==
    /\ At(t, "lock")
    /\ validity' = [i \in Invite |-> IF i \in Present THEN "too_many_attempts" ELSE validity[i]]
    /\ Goto(t, [task[t] EXCEPT !.at = "reset"])
    /\ UNCHANGED <<row, lapsed, cloud, events, checked>>

\* Seeded bug: the count is lowered by the limit, twice where two handlers passed it.
ResetByLimit(t) ==
    /\ At(t, "reset")
    /\ attempts' = attempts - PinLimit
    /\ Goto(t, [task[t] EXCEPT !.at = "report"])
    /\ UNCHANGED <<status, agentId, tries, invites, cloud, events, checked>>

\* The count starts again, whatever was counted since the limit was passed.
ResetAttempts(t) ==
    /\ At(t, "reset")
    /\ attempts' = 0
    /\ Goto(t, [task[t] EXCEPT !.at = "report"])
    /\ UNCHANGED <<status, agentId, tries, invites, cloud, events, checked>>

\* The "used" invitations are read; the lapsed ones are only marked, the PIN is
\* compared with each of the others.  No "used" invitation is reported as 0 tries.
ComparePin(t) ==
    /\ At(t, "compare")
    /\ LET used == InviteWith("used")
           late == {i \in used : lapsed[i]}
       IN  /\ checked' = [i \in Invite |-> IF i \in used \ late THEN checked[i] + 1
                                                                ELSE checked[i]]
           /\ Goto(t, [task[t] EXCEPT !.known = late,
                                      !.good = ExchangeOf(t).pin \in used \ late,
                                      !.cnt = IF used = {} THEN 0 ELSE @,
                                      !.at = IF late = {} THEN "answer" ELSE "expire_pins"])
    /\ UNCHANGED <<row, invites, cloud, events>>

\* The lapsed invitations are marked by id, whatever they have become since.
ExpirePins(t) ==
    /\ At(t, "expire_pins")
    /\ validity' = [i \in Invite |-> IF i \in task[t].known THEN "expired" ELSE validity[i]]
    /\ Goto(t, [task[t] EXCEPT !.at = "answer", !.known = {}])
    /\ UNCHANGED <<row, lapsed, cloud, events, checked>>

\* Seeded bug: the result of the comparison is not looked at.
AcceptAnyProposal(t) ==
    /\ At(t, "answer")
    /\ IF ExchangeOf(t).st = "proposal-received"
       THEN /\ cred' = [cred EXCEPT ![task[t].ev.id].st = "offer-sent"]
            /\ Finish(t) /\ UNCHANGED events
       ELSE Reject(t) /\ UNCHANGED cred
    /\ UNCHANGED <<row, invites, oob, agent, checked>>

\* A right PIN: the credential is offered.  The cloudagent refuses a proposal
\* it has left behind, and the handler rejects.
AcceptProposal(t) ==
    /\ At(t, "answer") /\ task[t].good
    /\ IF ExchangeOf(t).st = "proposal-received"
       THEN /\ cred' = [cred EXCEPT ![task[t].ev.id].st = "offer-sent"]
            /\ Finish(t) /\ UNCHANGED events
       ELSE Reject(t) /\ UNCHANGED cred
    /\ UNCHANGED <<row, invites, oob, agent, checked>>

\* A wrong PIN, or too many: the peer is told how many tries remain.  The
\* exchange is given up, or the cloudagent leaves it as it was.
SendProblemReport(t) ==
    /\ At(t, "report") \/ (At(t, "answer") /\ ~task[t].good)
    /\ \E st \in {"abandoned", ExchangeOf(t).st} :
         cred' = [cred EXCEPT ![task[t].ev.id].report = task[t].cnt,
                              ![task[t].ev.id].st = IF @ = "proposal-received" THEN st ELSE @]
    /\ Finish(t)
    /\ UNCHANGED <<row, invites, oob, agent, events, checked>>

-----------------------------------------------------------------------------
\* The states in which the handler only tells the cloudagent to go on.
Onward == [s \in {"offer-received", "request-received", "credential-received"} |->
             CASE s = "offer-received" -> "request-sent"
               [] s = "request-received" -> "credential-issued"
               [] OTHER -> "done"]

\* handleOfferReceived, handleRequestReceived, handleCredentialReceived: the
\* offer has to agree with the proposal; nothing is read from the database.
ForwardExchange(t, e) ==
    /\ At(t, "idle") /\ e \in events /\ e.of = "credential" /\ e.st \in DOMAIN Onward
    /\ IF cred[e.id].agrees /\ cred[e.id].st = e.st
       THEN /\ cred' = [cred EXCEPT ![e.id].st = Onward[e.st]]
            /\ events' = (events \ {e}) \cup
                 (IF Onward[e.st] = "done" THEN {CredentialEvent(e.id, "done")} ELSE {})
       ELSE events' = events \ {e} /\ UNCHANGED cred
    /\ UNCHANGED <<row, invites, oob, agent, task, checked>>

\* Seeded bugs: a second exchange of the same role counts as the other side's; the
\* holder's exchange is forgotten where the issuer's came first.
AfterAnyDone(current, role) ==
    CASE current = "unverified" ->
           IF role = "holder" THEN "verified_us" ELSE "verified_them"
      [] current \in {"verified_them", "verified_us"} -> "verified_both"
      [] OTHER -> current
AfterIssuerFirst(current, role) ==
    CASE current = "unverified" ->
           IF role = "holder" THEN "verified_us" ELSE "verified_them"
      [] current = "verified_us" /\ role = "issuer" -> "verified_both"
      [] OTHER -> current

\* The status handleDone moves to; the same status when it writes nothing.
AfterDone(current, role) ==
    CASE current = "unverified" ->
           IF role = "holder" THEN "verified_us" ELSE "verified_them"
      [] current = "verified_them" /\ role = "holder" -> "verified_both"
      [] current = "verified_us" /\ role = "issuer" -> "verified_both"
      [] OTHER -> current

\* handleDone reads the row in its transaction.
ExchangeDone(t, e) ==
    /\ At(t, "idle") /\ e \in events /\ e.of = "credential" /\ e.st = "done"
    /\ events' = events \ {e}
    /\ LET next == AfterDone(status, cred[e.id].role)
       IN  IF ~OnRow(e.id) \/ next = status
           THEN UNCHANGED task
           ELSE Goto(t, [Idle EXCEPT !.at = "done", !.ev = e, !.seen = next])
    /\ UNCHANGED <<row, invites, cloud, checked>>

\* ... and writes the new status by id, without testing the one it read.
WriteDone(t) ==
    /\ At(t, "done")
    /\ status' = task[t].seen
    /\ Finish(t)
    /\ UNCHANGED <<agentId, attempts, tries, invites, cloud, events, checked>>

\* The peer reported a problem with our proposal: the tries it names are stored.
ProblemReported(t, e) ==
    /\ At(t, "idle") /\ e \in events /\ e.of = "credential" /\ e.st = "abandoned"
    /\ cred[e.id].role = "holder"
    /\ events' = events \ {e}
    /\ tries' = IF OnRow(e.id) THEN cred[e.id].report ELSE tries
    /\ UNCHANGED <<status, agentId, attempts, invites, cloud, task, checked>>

\* submitPinCode proposes a credential on the row's agent connection; whatever
\* the row's status is. Reading the row and making the call are one step: agentId
\* is read once, and the call is refused or not by the agent connection it names.
SubmitPinCode(k) ==
    /\ agentId # NoConn /\ agent[agentId].st = "completed"
    /\ cred[k].role = "none"
    /\ cred' = [cred EXCEPT ![k] = [NoExchange EXCEPT !.role = "holder",
                                      !.st = "proposal-sent", !.conn = agentId]]
    /\ UNCHANGED <<row, invites, oob, agent, events, task, checked>>

CredentialStep(t) ==
    \/ IncrementAttempts(t) \/ LockInvites(t) \/ ResetAttempts(t) \/ ComparePin(t)
    \/ ExpirePins(t) \/ AcceptProposal(t) \/ SendProblemReport(t) \/ WriteDone(t)
=============================================================================
