---------------------------- MODULE NewConnection ----------------------------
(***************************************************************************)
(* NewConnectionController: the requests that issue an invitation to a     *)
(* company (submitNewInvite) and that accept one (submitFromInvite).  Each *)
(* await of the handlers is a boundary between two actions, so requests    *)
(* overlap with each other and with the event handlers.                    *)
(***************************************************************************)
EXTENDS ConnectionTables

\* What allowNewInvitation refuses once it has read the row's status and its
\* invitations.  A verified_both row is refused before the invitations are read.
Forbidden(seen) ==
    \/ Present = {}
    \/ seen = "verified_them" /\ InviteWith("used") # {}
    \/ seen = "disconnected" /\ InviteWith("valid") \cup InviteWith("too_many_attempts") # {}
    \/ seen = "pending" /\ InviteWith("used") # {}

\* The admin submits the form; allowNewInvitation reads the connection.
SubmitNewInvite(t) ==
    /\ "sender" \in Origins
    /\ At(t, "idle")
    /\ \E i \in Invite : oob[i] = "unused"          \* bound: invitations
    /\ status # "verified_both"
    /\ Goto(t, [Idle EXCEPT !.at = IF status = "none" THEN "create" ELSE "check",
                            !.seen = status])
    /\ UNCHANGED <<row, invites, cloud, events, checked>>

\* allowNewInvitation reads the invitations and decides.
CheckInvites(t) ==
    /\ At(t, "check")
    /\ IF Forbidden(task[t].seen)
       THEN Finish(t)
       ELSE Goto(t, [task[t] EXCEPT !.at = "create"])
    /\ UNCHANGED <<row, invites, cloud, events, checked>>

\* The cloudagent creates the out-of-band invitation.
CreateInvitation(t) ==
    /\ At(t, "create")
    /\ \E i \in Invite :
        /\ oob[i] = "unused"
        /\ oob' = [oob EXCEPT ![i] = "sender"]
        /\ Goto(t, [task[t] EXCEPT !.inv = i,
                                   !.at = IF task[t].seen = "none"
                                          THEN "insert" ELSE "reread"])
    /\ UNCHANGED <<row, invites, agent, cred, events, checked>>

\* The user pastes an invitation; the cloudagent receives it and starts the
\* connection.  Nothing is read from the database before.
SubmitFromInvite(t) ==
    /\ "receiver" \in Origins
    /\ At(t, "idle")
    /\ \E i \in Invite, c \in AgentConn :
        /\ oob[i] = "unused" /\ agent[c].st = "none"
        /\ oob' = [oob EXCEPT ![i] = "receiver"]
        /\ agent' = [agent EXCEPT ![c] = [st |-> "requested", oob |-> i]]
        /\ Goto(t, [Idle EXCEPT !.at = "insert", !.inv = i, !.conn = c])
    /\ UNCHANGED <<row, invites, cred, events, checked>>

\* One transaction inserts the connection and its first invitation; the unique
\* constraint on company_number refuses a second row.
InsertNewConnection(t) ==
    /\ At(t, "insert")
    /\ IF status = "none"
       THEN /\ status' = "pending" /\ agentId' = task[t].conn
            /\ attempts' = 0 /\ tries' = NoTries
            /\ validity' = [validity EXCEPT ![task[t].inv] = "valid"]
       ELSE UNCHANGED <<row, validity>>
    /\ Finish(t)
    /\ UNCHANGED <<lapsed, cloud, events, checked>>

\* updateExistingConnection reads the invitations whose out-of-band records it
\* will delete.
RereadInvites(t) ==
    /\ At(t, "reread")
    /\ Goto(t, [task[t] EXCEPT !.at = "purge", !.known = Present])
    /\ UNCHANGED <<row, invites, cloud, events, checked>>

\* One turn of the loop over them: what we sent is deleted, what we received or
\* what is gone already is left alone.
PurgeOob(t) ==
    /\ At(t, "purge")
    /\ \E i \in task[t].known :
        /\ oob' = [oob EXCEPT ![i] = IF @ = "sender" THEN "deleted" ELSE @]
        /\ LET rest == task[t].known \ {i}
           IN  Goto(t, [task[t] EXCEPT !.known = rest,
                                       !.at = IF rest = {} THEN "expire" ELSE "purge"])
    /\ UNCHANGED <<row, invites, agent, cred, events, checked>>

\* The transaction begins: under READ COMMITTED its first update works on the
\* rows committed by now.
BeginReissue(t) ==
    /\ At(t, "expire")
    /\ Goto(t, [task[t] EXCEPT !.at = "commit", !.known = Present])
    /\ UNCHANGED <<row, invites, cloud, events, checked>>

\* Seeded bug: the reissue forgets the invitation that is still open.
CommitReissueLeavesOpen(t) ==
    /\ At(t, "commit")
    /\ LET retired == InviteWith("used")
       IN  /\ validity' = [i \in Invite |->
                             IF i = task[t].inv THEN "valid"
                             ELSE IF i \in retired THEN "expired" ELSE validity[i]]
           /\ lapsed' = [i \in Invite |-> lapsed[i] \/ i \in retired]
    /\ status' = "pending" /\ attempts' = 0 /\ tries' = NoTries
    /\ Finish(t)
    /\ UNCHANGED <<agentId, cloud, events, checked>>

\* The transaction commits.  Its statements do not look at connection.status
\* again.  A "valid" row it did not see survives; "used" rows do not.
CommitReissue(t) ==
    /\ At(t, "commit")
    /\ LET retired == InviteWith("used") \cup (InviteWith("valid") \cap task[t].known)
       IN  /\ validity' = [i \in Invite |->
                             IF i = task[t].inv THEN "valid"
                             ELSE IF i \in retired THEN "expired" ELSE validity[i]]
           /\ lapsed' = [i \in Invite |-> lapsed[i] \/ i \in retired]
    /\ status' = "pending" /\ attempts' = 0 /\ tries' = NoTries
    /\ Finish(t)
    /\ UNCHANGED <<agentId, cloud, events, checked>>

\* A call to the cloudagent or a statement fails: the request ends with an
\* error page and what was done before stays done.
RequestFails(t) ==
    /\ "fail" \in Faults
    /\ task[t].at \in RequestStep
    /\ Finish(t)
    /\ UNCHANGED <<row, invites, cloud, events, checked>>

NewConnectionStep(t) ==
    \/ CheckInvites(t) \/ CreateInvitation(t) \/ InsertNewConnection(t)
    \/ RereadInvites(t) \/ PurgeOob(t) \/ BeginReissue(t) \/ CommitReissue(t)
=============================================================================
