------------------------------ MODULE CloudAgent ------------------------------
(***************************************************************************)
(* What the node does not decide: the cloudagent's own state machines as   *)
(* the node's handlers rely on them, the peer and its operator, the clock, *)
(* the websocket that carries the notifications, and the process itself.   *)
(***************************************************************************)
EXTENDS ConnectionTables

\* The peer accepts an invitation of ours.  The e-mail that carries it is sent
\* after its row is committed, and it is good for one connection.
PeerAccepts(i, c) ==
    /\ oob[i] = "sender" /\ i \in Present
    /\ agent[c].st = "none" /\ \A d \in AgentConn : agent[d].oob # i
    /\ agent' = [agent EXCEPT ![c] = [st |-> "requested", oob |-> i]]
    /\ UNCHANGED <<row, invites, oob, cred, events, task, checked>>

\* The connection protocol ends, one way or the other.
AgentSettles(c, st) ==
    /\ agent[c].st = "requested"
    /\ agent' = [agent EXCEPT ![c].st = st]
    /\ events' = events \cup {ConnectionEvent(c, st)}
    /\ UNCHANGED <<row, invites, oob, cred, task, checked>>

\* The peer hangs up.  The connection record keeps its state.
PeerHangsUp(c) ==
    /\ agent[c].st = "completed"
    /\ agent' = [agent EXCEPT ![c].st = "hungup"]
    /\ events' = events \cup {RotationEvent(c)}
    /\ UNCHANGED <<row, invites, oob, cred, task, checked>>

\* The peer's operator submits a PIN, which may be anyone's; the names it gives
\* may not be those of the row.
PeerProposes(k, c, pin, agrees) ==
    /\ agent[c].st = "completed" /\ cred[k].role = "none"
    /\ cred' = [cred EXCEPT ![k] = [NoExchange EXCEPT !.role = "issuer",
                  !.st = "proposal-received", !.conn = c, !.pin = pin, !.agrees = agrees]]
    /\ events' = events \cup {CredentialEvent(k, "proposal-received")}
    /\ UNCHANGED <<row, invites, oob, agent, task, checked>>

\* The peer's node goes on with an exchange: the state our cloudagent reaches.
PeerStep == [s \in {"offer-sent", "credential-issued", "proposal-sent", "request-sent"} |->
               CASE s = "offer-sent" -> "request-received"
                 [] s = "credential-issued" -> "done"
                 [] s = "proposal-sent" -> "offer-received"
                 [] OTHER -> "credential-received"]

PeerAdvances(k) ==
    /\ cred[k].st \in DOMAIN PeerStep
    /\ agent[cred[k].conn].st = "completed"
    /\ LET s == PeerStep[cred[k].st]
       IN  /\ cred' = [cred EXCEPT ![k].st = s]
           /\ events' = events \cup {CredentialEvent(k, s)}
    /\ UNCHANGED <<row, invites, oob, agent, task, checked>>

\* The peer rejects our PIN and names the tries that remain.
PeerReports(k, r) ==
    /\ cred[k].st = "proposal-sent"
    /\ agent[cred[k].conn].st = "completed"
    /\ cred' = [cred EXCEPT ![k].st = "abandoned", ![k].report = r]
    /\ events' = events \cup {CredentialEvent(k, "abandoned")}
    /\ UNCHANGED <<row, invites, oob, agent, task, checked>>

\* An invitation's fortnight passes.
InviteLapses(i) ==
    /\ i \in Present /\ ~lapsed[i]
    /\ lapsed' = [lapsed EXCEPT ![i] = TRUE]
    /\ UNCHANGED <<row, validity, cloud, events, task, checked>>

-----------------------------------------------------------------------------
\* What start emits once the socket is open: the state of every connection and
\* of every exchange the cloudagent lists.  Rotations are not among them.
Snapshot ==
    {ConnectionEvent(c, "completed") : c \in {d \in AgentConn : agent[d].st \in {"completed", "hungup"}}}
    \cup {ConnectionEvent(c, "abandoned") : c \in {d \in AgentConn : agent[d].st = "abandoned"}}
    \cup {CredentialEvent(k, cred[k].st) : k \in {j \in Cred : cred[j].role # "none"}}

\* The states a handler reacts to.
Noticed(e) ==
    e.of = "credential" =>
        \/ e.st \in {"proposal-received", "offer-received", "request-received",
                     "credential-received", "done"}
        \/ e.st = "abandoned" /\ cred[e.id].role = "holder"

\* The socket closes, what was still on it is lost, and it opens again.
SocketReconnects ==
    /\ "drop" \in Faults
    /\ \E kept \in SUBSET events : events' = kept \cup {e \in Snapshot : Noticed(e)}
    /\ UNCHANGED <<row, invites, cloud, task, checked>>

\* The process stops: everything in flight is gone.  Its replacement connects.
Restart ==
    /\ "crash" \in Faults /\ attempts <= MaxAttempts
    /\ events' = {e \in Snapshot : Noticed(e)}
    /\ task' = [t \in Task |-> Idle]
    /\ UNCHANGED <<row, invites, cloud, checked>>
=============================================================================
