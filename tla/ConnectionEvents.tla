--------------------------- MODULE ConnectionEvents ---------------------------
(***************************************************************************)
(* ConnectionEvents, the handlers of the cloudagent's connection events,   *)
(* and the disconnect request of ConnectionController.                     *)
(***************************************************************************)
EXTENDS ConnectionTables

\* Seeded bug: a completed connection revives a disconnected row.
IgnoredUnlessDisconnected(reported, current) ==
    \/ reported = "abandoned" /\ current = "disconnected"
    \/ reported = "completed" /\ current \notin {"pending", "disconnected"}

\* Whether connectionStateChangedHandler leaves the row alone, given the
\* reported state and the status it reads.
Ignored(reported, current) ==
    \/ reported = "abandoned" /\ current = "disconnected"
    \/ reported = "completed" /\ current # "pending"

\* Seeded bugs: every connection is taken for the row's; the row is looked up by
\* its agent connection, which a row of ours does not have yet.
AnyInvite(c) == TRUE
KnownConnection(c) == agentId = c

\* The out-of-band id of the event names one of the row's invitations.
KnownInvite(c) == agent[c].oob \in Present

\* The handler's transaction reads the invitation and its connection.
ConnectionStateChanged(t, e) ==
    /\ At(t, "idle") /\ e \in events /\ e.of = "connection"
    /\ events' = events \ {e}
    /\ IF ~KnownInvite(e.id) \/ Ignored(e.st, status)
       THEN UNCHANGED task
       ELSE Goto(t, [Idle EXCEPT !.at = "connection", !.ev = e, !.seen = status])
    /\ UNCHANGED <<row, invites, cloud, checked>>

UpdateStatus(t) ==
    status' = IF task[t].ev.st = "completed" THEN "unverified" ELSE "disconnected"

\* Seeded bug: the invitations are left as they are.
KeepInvites == UNCHANGED validity

\* Every invitation of the connection becomes "used", whatever it was.
UseInvites ==
    validity' = [i \in Invite |-> IF i \in Present THEN "used" ELSE validity[i]]

\* The update that is conditional on the status read matches: the row lock it
\* takes makes it one step with the update of the invitations.
UpdateConnection(t) ==
    /\ At(t, "connection") /\ status = task[t].seen
    /\ UpdateStatus(t)
    /\ agentId' = task[t].ev.id
    /\ UseInvites
    /\ Finish(t)
    /\ UNCHANGED <<attempts, tries, lapsed, cloud, events, checked>>

\* It matches nothing: no lock is held before the invitations are updated.
MissConnection(t) ==
    /\ At(t, "connection") /\ status # task[t].seen
    /\ Goto(t, [task[t] EXCEPT !.at = "mark_used"])
    /\ UNCHANGED <<row, invites, cloud, events, checked>>

MarkUsed(t) ==
    /\ At(t, "mark_used")
    /\ UseInvites
    /\ Finish(t)
    /\ UNCHANGED <<row, lapsed, cloud, events, checked>>

\* The peer hung up: one unconditional update by agent_connection_id.
ConnectionDidRotated(t, e) ==
    /\ At(t, "idle") /\ e \in events /\ e.of = "rotation"
    /\ events' = events \ {e}
    /\ status' = IF agentId = e.id THEN "disconnected" ELSE status
    /\ UNCHANGED <<agentId, attempts, tries, invites, cloud, task, checked>>

-----------------------------------------------------------------------------
\* The user asks to disconnect; the row is read.
DisconnectConnection(t) ==
    /\ At(t, "idle") /\ agentId # NoConn
    /\ Goto(t, [Idle EXCEPT !.at = "close", !.conn = agentId])
    /\ UNCHANGED <<row, invites, cloud, events, checked>>

\* The cloudagent closes and deletes its connection record; without one it
\* answers with an error, which ends the request.
CloseConnection(t) ==
    /\ At(t, "close")
    /\ LET c == task[t].conn
       IN  IF agent[c].st = "deleted"
           THEN Finish(t) /\ UNCHANGED agent
           ELSE /\ agent' = [agent EXCEPT ![c].st = "deleted"]
                /\ Goto(t, [task[t] EXCEPT !.at = "mark"])
    /\ UNCHANGED <<row, invites, oob, cred, events, checked>>

\* The row is marked, by its id alone.
MarkDisconnected(t) ==
    /\ At(t, "mark")
    /\ status' = "disconnected"
    /\ Finish(t)
    /\ UNCHANGED <<agentId, attempts, tries, invites, cloud, events, checked>>

ConnectionStep(t) ==
    \/ UpdateConnection(t) \/ MissConnection(t) \/ MarkUsed(t)
    \/ CloseConnection(t) \/ MarkDisconnected(t)
=============================================================================
