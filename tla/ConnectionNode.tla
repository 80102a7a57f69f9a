---------------------------- MODULE ConnectionNode ----------------------------
(***************************************************************************)
(* One node and one counterparty: the web requests, the event handlers,    *)
(* the cloudagent and the peer, interleaved.                               *)
(***************************************************************************)
EXTENDS NewConnection, ConnectionEvents, CredentialEvents, CloudAgent

\* A handler's database or cloudagent call fails; the emitter retries the event.
HandlerFails(t) ==
    /\ "fail" \in Faults /\ attempts <= MaxAttempts
    /\ task[t].at \in HandlerStep
    /\ Reject(t)
    /\ UNCHANGED <<row, invites, cloud, checked>>

\* A notification reaches its handler.  A handler that writes at once needs a
\* free slot too: with one slot, requests and handlers run one at a time.
Handle(t) == \E e \in events :
    \/ ConnectionStateChanged(t, e) \/ ConnectionDidRotated(t, e)
    \/ ProposalReceived(t, e) \/ ForwardExchange(t, e) \/ ExchangeDone(t, e)
    \/ ProblemReported(t, e)

\* Requests are made by users.
UserStep ==
    \/ \E t \in Task : SubmitNewInvite(t) \/ SubmitFromInvite(t) \/ DisconnectConnection(t)
    \/ \E k \in Cred : SubmitPinCode(k)

NodeStep(t) == NewConnectionStep(t) \/ ConnectionStep(t) \/ CredentialStep(t)

PeerAct ==
    \/ \E i \in Invite, c \in AgentConn : PeerAccepts(i, c)
    \/ \E c \in AgentConn : PeerHangsUp(c)
    \/ \E k \in Cred, c \in AgentConn, pin \in Invite \cup {NoInvite}, agrees \in BOOLEAN :
          PeerProposes(k, c, pin, agrees)
    \/ \E k \in Cred, r \in Reports : PeerReports(k, r)

AgentStep ==
    \/ \E c \in AgentConn, st \in {"completed", "abandoned"} : AgentSettles(c, st)
    \/ \E k \in Cred : PeerAdvances(k)

Mishap ==
    \/ \E i \in Invite : InviteLapses(i)
    \/ \E t \in Task : RequestFails(t) \/ HandlerFails(t)
    \/ SocketReconnects \/ Restart

Next ==
    \/ UserStep \/ PeerAct \/ AgentStep \/ Mishap
    \/ \E t \in Task : Handle(t) \/ NodeStep(t)

Spec == Init /\ [][Next]_vars

\* What has been started goes on: the event loop runs every continuation, the
\* cloudagent and the peer's node carry on a protocol that was begun, and every
\* notification that keeps being pending reaches its handler.  Users, failures
\* and the socket owe nothing.
FairSpec ==
    /\ Spec
    /\ \A t \in Task : WF_vars(NodeStep(t))
    /\ \A c \in AgentConn, st \in {"completed", "abandoned"} :
         SF_vars(\E t \in Task : ConnectionStateChanged(t, ConnectionEvent(c, st)))
    /\ \A c \in AgentConn :
         SF_vars(\E t \in Task : ConnectionDidRotated(t, RotationEvent(c)))

=============================================================================
