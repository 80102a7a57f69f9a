-------------------------- MODULE ConnectionTables --------------------------
(***************************************************************************)
(* The state one veritable-ui node keeps about one counterparty: its row   *)
(* of the "connection" table, the rows of "connection_invite" that belong  *)
(* to it, what the cloudagent holds about the same counterparty, the       *)
(* notifications on their way to the event handlers, and the requests and  *)
(* handlers in flight.                                                     *)
(*                                                                         *)
(* Rows of different companies never meet (company_number is unique and    *)
(* every statement selects by it or by an id that belongs to one company), *)
(* so one row is enough.  Identifiers, PINs and hashes are members of      *)
(* small sets; an invitation stands for its database row, its out-of-band  *)
(* record and its PIN, which carry the same identity throughout.           *)
(***************************************************************************)
EXTENDS Integers, FiniteSets

CONSTANTS
    Invite,       \* out-of-band invitations the cloudagent may ever hold
    AgentConn,    \* connection records the cloudagent may ever hold
    Cred,         \* credential exchange records the cloudagent may ever hold
    Task,         \* slots for requests and handlers in flight: the overlap bound
    NoInvite,     \* a PIN that belongs to no invitation
    NoConn,       \* agent_connection_id = null
    NoEvent,      \* a task that was not started by a notification
    PinLimit,     \* INVITATION_PIN_ATTEMPT_LIMIT
    PinTries,     \* the literal 5 of the problem reports
    Reports,      \* values of pinTries a peer may report to us
    Origins,      \* how invitations come about: "sender" (ours), "receiver"
    Faults,       \* what may go wrong: "fail", "drop", "crash"
    MaxAttempts   \* bound: failures come about only up to this many attempts

\* The values a null or missing identifier stands for are not identifiers.
ASSUME NullsAreNotIds == NoInvite \notin Invite /\ NoConn \notin AgentConn

\* The attempt limit and the number of tries are natural numbers.
ASSUME LimitsAreNat ==
    PinLimit \in Nat /\ PinTries \in Nat /\ MaxAttempts \in Nat /\ Reports \subseteq Int

VARIABLES
    status,     \* connection.status, "none" while there is no row
    agentId,    \* connection.agent_connection_id
    attempts,   \* connection.pin_attempt_count
    tries,      \* connection.pin_tries_remaining_count
    validity,   \* connection_invite.validity, "absent" while there is no row
    lapsed,     \* connection_invite.expires_at lies in the past
    oob,        \* the cloudagent's out-of-band records
    agent,      \* the cloudagent's connection records
    cred,       \* the cloudagent's credential exchange records
    events,     \* notifications whose handler has not read the database yet
    task,       \* requests and handlers in flight, with their local variables
    checked     \* history: how often the PIN of an invitation was compared

row     == <<status, agentId, attempts, tries>>
invites == <<validity, lapsed>>
cloud   == <<oob, agent, cred>>
vars    == <<row, invites, cloud, events, task, checked>>

-----------------------------------------------------------------------------
ConnectionStatus == {"none", "pending", "unverified", "verified_them",
                     "verified_us", "verified_both", "disconnected"}
Validity  == {"absent", "valid", "expired", "too_many_attempts", "used"}
OobState  == {"unused", "sender", "receiver", "deleted"}
ConnState == {"none", "requested", "completed", "abandoned", "hungup", "deleted"}
CredState == {"none", "proposal-received", "offer-sent", "request-received",
              "credential-issued", "proposal-sent", "offer-received",
              "request-sent", "credential-received", "done", "abandoned"}

\* pin_tries_remaining_count = null.
NoTries == -1000

Event == [of : {"connection"}, id : AgentConn, st : {"completed", "abandoned"}]
    \cup [of : {"rotation"},   id : AgentConn, st : {"hungup"}]
    \cup [of : {"credential"}, id : Cred,      st : CredState]

ConnectionEvent(c, s) == [of |-> "connection", id |-> c, st |-> s]
RotationEvent(c)      == [of |-> "rotation",   id |-> c, st |-> "hungup"]
CredentialEvent(k, s) == [of |-> "credential", id |-> k, st |-> s]

\* Where a request stands, and where a handler stands.
RequestStep == {"check", "create", "insert", "reread", "purge", "expire",
                "commit", "close", "mark"}
ConnectionHandlerStep == {"connection", "mark_used"}
CredentialHandlerStep == {"count", "lock", "reset", "report", "compare",
                          "expire_pins", "answer", "done"}
HandlerStep == ConnectionHandlerStep \cup CredentialHandlerStep

Agent == [st : ConnState, oob : Invite \cup {NoInvite}]
Exchange == [role : {"none", "issuer", "holder"}, st : CredState,
             conn : AgentConn \cup {NoConn}, pin : Invite \cup {NoInvite},
             agrees : BOOLEAN, report : Int]
\* Local variables: the notification being handled, the request's invitation and
\* connection, the status read (for handleDone: the one to write), the tries to
\* report, the invitations read, and whether the PIN was right.
Local == [at : RequestStep \cup HandlerStep \cup {"idle"},
          ev : Event \cup {NoEvent}, inv : Invite \cup {NoInvite},
          conn : AgentConn \cup {NoConn}, seen : ConnectionStatus,
          cnt : Int, known : SUBSET Invite, good : BOOLEAN]

Idle == [at |-> "idle", ev |-> NoEvent, inv |-> NoInvite, conn |-> NoConn,
         seen |-> "none", cnt |-> 0, known |-> {}, good |-> FALSE]
NoExchange == [role |-> "none", st |-> "none", conn |-> NoConn,
               pin |-> NoInvite, agrees |-> TRUE, report |-> NoTries]

-----------------------------------------------------------------------------
\* The rows of connection_invite; all of them belong to the one connection.
Present == {i \in Invite : validity[i] # "absent"}

InviteWith(v) == {i \in Invite : validity[i] = v}

At(t, step) == task[t].at = step
Goto(t, next) == task' = [task EXCEPT ![t] = next]
Finish(t) == Goto(t, Idle)

\* The exchange a credential handler works on.
ExchangeOf(t) == cred[task[t].ev.id]

\* The emitter re-emits an event whose handler rejected only while it is the
\* latest one emitted for its index; a connection reaches one final state only.
Latest(e) == e.of = "credential" => cred[e.id].st = e.st

\* A handler rejects.  A superseded event may still be retried: the event that
\* superseded it on the agent's side may never have reached the emitter.
Reject(t) ==
    /\ Finish(t)
    /\ \/ events' = events \cup {task[t].ev}
       \/ ~Latest(task[t].ev) /\ UNCHANGED events

Init ==
    /\ status = "none" /\ agentId = NoConn /\ attempts = 0 /\ tries = NoTries
    /\ validity = [i \in Invite |-> "absent"]
    /\ lapsed = [i \in Invite |-> FALSE]
    /\ oob = [i \in Invite |-> "unused"]
    /\ agent = [c \in AgentConn |-> [st |-> "none", oob |-> NoInvite]]
    /\ cred = [k \in Cred |-> NoExchange]
    /\ events = {}
    /\ task = [t \in Task |-> Idle]
    /\ checked = [i \in Invite |-> 0]

\* A handler in flight has the notification it was started by.
Started(local) ==
    local.at \in HandlerStep =>
        /\ local.ev \in Event
        /\ local.ev.of = IF local.at \in ConnectionHandlerStep THEN "connection"
                                                              ELSE "credential"

TaskOK == task \in [Task -> Local] /\ \A t \in Task : Started(task[t])

(* Every variable has its type, and a handler in flight has the notification
   the emitter needs to retry it. *)
TypeOK ==
    /\ status \in ConnectionStatus /\ agentId \in AgentConn \cup {NoConn}
    /\ attempts \in Nat /\ tries \in Int
    /\ validity \in [Invite -> Validity]
    /\ lapsed \in [Invite -> BOOLEAN]
    /\ oob \in [Invite -> OobState]
    /\ agent \in [AgentConn -> Agent]
    /\ cred \in [Cred -> Exchange]
    /\ events \subseteq Event
    /\ checked \in [Invite -> Nat]
    /\ TaskOK
=============================================================================
