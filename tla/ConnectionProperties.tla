------------------------ MODULE ConnectionProperties ------------------------
(***************************************************************************)
(* What is claimed of ConnectionNode: properties under every interleaving, *)
(* properties of a node whose requests and handlers run one at a time, and *)
(* the inductive invariants behind the former.                             *)
(***************************************************************************)
EXTENDS ConnectionNode

\* The PIN of an exchange is the PIN of one of the row's invitations, and the
\* names in the exchange are the row's.
Genuine(k) == cred[k].pin \in Present /\ cred[k].agrees

IssuedTo(k)     == cred[k].role = "issuer" /\ cred[k].st = "done" /\ Genuine(k)
ReceivedFrom(k) == cred[k].role = "holder" /\ cred[k].st = "done"

TheyAreVerified == status \in {"verified_them", "verified_both"}
WeAreVerified   == status \in {"verified_us", "verified_both"}

Resting == \A t \in Task : At(t, "idle")
Quiet   == Resting /\ events = {}

(* A connection is shown as verified only on evidence: "verified_them" and
   "verified_both" need an exchange we finished as issuer with a PIN that we
   had issued and with the row's names, "verified_us" and "verified_both" one
   we finished as holder.  Whatever overlaps, fails, is lost or replayed:
   handleDone looks at neither the PIN nor the exchange's history. *)
VerifiedOnEvidence ==
    /\ TheyAreVerified => \E k \in Cred : IssuedTo(k)
    /\ WeAreVerified => \E k \in Cred : ReceivedFrom(k)

(* The connection a row points to was made with an invitation of that row:
   neither an orphaned connection of a refused insert nor one of an unknown
   invitation takes a row over (submitFromInvite, connectionStateChangedHandler). *)
BoundToOwnInvite == agentId # NoConn => agent[agentId].oob \in Present

(* An unverified row has no invitation that still counts as open: completing a
   connection closes all of them, and a reissue that opens one, at whatever
   moment, takes the row back to pending. *)
NoOpenInviteOnceConnected == status = "unverified" => InviteWith("valid") = {}

(* The PIN of an invitation is compared fewer times than the attempt limit,
   however proposals overlap, are retried or are replayed after a restart:
   the increment is atomic, and the invitations are locked before the count
   starts again (handleProposalReceived). *)
GuessBudget == \A i \in Invite : checked[i] < PinLimit

(* What a status may become while requests and handlers run one at a time: a
   mutual verification ends only in a disconnection, only a reissue revives a
   disconnected row, and a pending row is not verified before it is connected. *)
StatusMoves == [][
    /\ status = "verified_both" => status' \in {"verified_both", "disconnected"}
    /\ status = "disconnected" => status' \in {"disconnected", "pending"}
    /\ status = "pending" => status' \in {"pending", "unverified", "disconnected"}]_vars

(* The evidence for a verified row was gathered over the connection the row
   points to now, not over one it has left behind by a reissue. *)
CurrentEvidence ==
    /\ TheyAreVerified => \E k \in Cred : IssuedTo(k) /\ cred[k].conn = agentId
    /\ WeAreVerified => \E k \in Cred : ReceivedFrom(k) /\ cred[k].conn = agentId

(* When nothing is in flight and both sides' exchanges over the row's
   connection are done, the row says so (handleDone, in either order). *)
BothSidesVerified ==
    /\ Quiet /\ status \notin {"none", "pending", "disconnected"}
    /\ \E k \in Cred : IssuedTo(k) /\ cred[k].conn = agentId
    /\ \E k \in Cred : ReceivedFrom(k) /\ cred[k].conn = agentId
    => status = "verified_both"

(* Between requests at most one invitation is valid, and the cloudagent still
   holds the out-of-band record of a valid one: a reissue deletes the records
   of exactly the invitations it expires (updateExistingConnection). *)
OneOpenInvite ==
    Resting => /\ \A i, j \in InviteWith("valid") : i = j
               /\ \A i \in InviteWith("valid") : oob[i] # "deleted"

(* A connection that completes on a valid invitation of a pending row does not
   leave the row pending (connectionStateChangedHandler). *)
CompletionIsNoticed == \A c \in AgentConn :
    LET Waiting == /\ status = "pending" /\ agent[c].st = "completed"
                   /\ agent[c].oob \in InviteWith("valid")
    IN  Waiting ~> ~Waiting

-----------------------------------------------------------------------------
\* The states an exchange has on the issuer's and on the holder's side.
IssuerState == {"proposal-received", "offer-sent", "request-received",
                "credential-issued", "done", "abandoned"}
HolderState == {"proposal-sent", "offer-received", "request-sent",
                "credential-received", "done", "abandoned"}

RolesOK == \A k \in Cred :
    CASE cred[k].role = "issuer" -> cred[k].st \in IssuerState
      [] cred[k].role = "holder" -> cred[k].st \in HolderState
      [] OTHER -> cred[k].st = "none"

AcceptedIsGenuine == \A k \in Cred :
    cred[k].role = "issuer" /\ cred[k].st \notin {"proposal-received", "abandoned"}
    => Genuine(k)

DoneIsDone == \A e \in events :
    e.of = "credential" /\ e.st = "done" => cred[e.id].st = "done"

\* What a credential handler's local variables stand for.
TaskEvident(x) ==
    /\ x.at \in CredentialHandlerStep \ {"done"} =>
         /\ x.ev.st = "proposal-received"
         /\ cred[x.ev.id].role = "issuer" /\ cred[x.ev.id].agrees
    /\ x.at \in {"expire_pins", "answer"} /\ x.good => cred[x.ev.id].pin \in Present
    /\ x.at = "done" =>
         /\ x.ev.st = "done" /\ cred[x.ev.id].st = "done"
         /\ x.seen \in {"verified_them", "verified_us", "verified_both"}
         /\ x.seen # "verified_us" => \E k \in Cred : IssuedTo(k)
         /\ x.seen # "verified_them" => \E k \in Cred : ReceivedFrom(k)

(* Why VerifiedOnEvidence is inductive: from the moment a proposal is accepted
   the evidence travels through the exchange's states, the notification that it
   is done, and the local variables of the handlers that compare the PIN and
   that write the status they computed from one they read earlier. *)
EvidenceInv ==
    /\ VerifiedOnEvidence
    /\ RolesOK /\ AcceptedIsGenuine /\ DoneIsDone
    /\ \A t \in Task : TaskEvident(task[t])

Unbound == \A c \in AgentConn : agent[c].st = "none" => agent[c].oob = NoInvite

\* What the local variables of a task say about connections and invitations.
TaskBinds(x) ==
    /\ x.at = "connection" => agent[x.ev.id].oob \in Present
    /\ x.at \in {"check", "create"} => x.conn = NoConn
    /\ x.at = "insert" =>
         /\ x.inv \in Invite
         /\ x.conn # NoConn => agent[x.conn].oob = x.inv

(* Why BoundToOwnInvite is inductive: a connection record never changes its
   invitation once it has one, the handler of a connection event has seen the
   invitation's row, and the request about to insert a row with a connection
   inserts that connection's invitation. *)
BindingInv ==
    /\ BoundToOwnInvite
    /\ Unbound
    /\ \A t \in Task : TaskBinds(task[t])
=============================================================================
