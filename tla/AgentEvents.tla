----------------------------- MODULE AgentEvents -----------------------------
(***************************************************************************)
(* How a notification of the cloudagent becomes a run of a handler: the    *)
(* websocket, the snapshot taken whenever it opens, and the indexed        *)
(* emitter that runs a rejected handler again.                             *)
(*                                                                         *)
(* A key is an event name and the id of a record; its versions are the     *)
(* states the record goes through.  What a handler does is the subject of  *)
(* the other modules; here it is done or it rejects.                       *)
(***************************************************************************)
EXTENDS Integers

CONSTANTS
    Connections,  \* keys of ConnectionStateChanged, listed by getConnections
    Credentials,  \* keys of DidCommCredentialStateChanged, by getCredentials
    Unlisted,     \* keys of rotations and DRPC requests, never listed
    MaxRetry,     \* maxRetryCount
    MaxVersion,   \* bound: versions of each record
    MaxCloses,    \* bound: times the socket closes
    MaxFailures   \* bound: handlers and listing calls that reject, restarts

Key == Connections \cup Credentials \cup Unlisted

ASSUME KindsDiffer ==
    Connections \cap Credentials = {} /\ (Connections \cup Credentials) \cap Unlisted = {}

ASSUME BoundsAreNat ==
    MaxRetry \in Nat /\ MaxVersion \in [Key -> Nat] /\ MaxCloses \in Nat /\ MaxFailures \in Nat

VARIABLES
    version,   \* the record at the cloudagent; 0: there is none
    wire,      \* versions announced on the open socket, not yet read from it
    alive,     \* the process runs
    socket,    \* "open", or "closed" while it is first opened or waits to reopen
    listing,   \* the "open" listener: the call it is at, its answer, *Seen
    latest,    \* latestEventIdentifiers: the number of the latest emission
    runs,      \* emissions whose handler runs or waits for its retry
    handled,   \* history: the highest version a handler is done with
    closes, failures  \* history: what the bounds limit

eventVars == <<version, wire, alive, socket, listing, latest, runs, handled,
               closes, failures>>

Listed == [connections |-> Connections, credentials |-> Credentials]
NotListing == [at |-> "none", answered |-> FALSE, answer |-> [k \in Key |-> 0], seen |-> {}]
NoEmission == [k \in Key |-> 0]

Run == [key : Key, n : Nat, ver : Nat, at : {"running", "waiting"}, retries : 0..MaxRetry]

EventTypeOK ==
    /\ version \in [Key -> Nat] /\ handled \in [Key -> Nat]
    /\ wire \in [Key -> SUBSET Nat]
    /\ alive \in BOOLEAN /\ socket \in {"open", "closed"}
    /\ listing \in [at : {"none", "connections", "credentials"}, answered : BOOLEAN,
                    answer : [Key -> Nat], seen : SUBSET Key]
    /\ latest \in [Key -> Nat]
    /\ runs \subseteq Run
    /\ closes \in 0..MaxCloses /\ failures \in 0..MaxFailures

EventInit ==
    /\ version = NoEmission /\ handled = NoEmission
    /\ wire = [k \in Key |-> {}]
    /\ alive = TRUE /\ socket = "closed"
    /\ listing = NotListing
    /\ latest = NoEmission /\ runs = {}
    /\ closes = 0 /\ failures = 0

-----------------------------------------------------------------------------
(* The emitter. *)

\* emitIndexed of the keys K with the versions in data: each gets a new
\* identifier, becomes the latest of its index, and its handler is called.
EmitIndexed(K, data) ==
    /\ latest' = [k \in Key |-> IF k \in K THEN latest[k] + 1 ELSE latest[k]]
    /\ runs' = runs \cup {[key |-> k, n |-> latest[k] + 1, ver |-> data[k],
                           at |-> "running", retries |-> 0] : k \in K}

\* checkRetry finds the emission in latestEventIdentifiers.
IsLatest(r) == r.n = latest[r.key]

\* An error nobody catches ends the process, and with it everything it holds.
Die ==
    /\ alive' = FALSE /\ socket' = "closed"
    /\ listing' = NotListing /\ latest' = NoEmission /\ runs' = {}
    /\ wire' = [k \in Key |-> {}]

HandlerDone(r) ==
    /\ r \in runs /\ r.at = "running"
    /\ runs' = runs \ {r}
    /\ handled' = [handled EXCEPT ![r.key] = IF r.ver > @ THEN r.ver ELSE @]
    /\ UNCHANGED <<version, wire, alive, socket, listing, latest, closes, failures>>

Rejects(r) ==
    /\ r \in runs /\ r.at = "running" /\ failures < MaxFailures
    /\ failures' = failures + 1

\* Seeded bug: the limit is tested with > instead of >=.
RejectsOnceMore(r) ==
    /\ Rejects(r)
    /\ IsLatest(r) => r.retries <= MaxRetry
    /\ runs' = (runs \ {r}) \cup {[r EXCEPT !.at = "waiting"]}
    /\ UNCHANGED <<version, wire, alive, socket, listing, latest, handled, closes>>

\* captureRejectionSymbol: the retry is scheduled even where checkRetry has
\* found the event superseded.
HandlerRejects(r) ==
    /\ Rejects(r)
    /\ IsLatest(r) => r.retries < MaxRetry
    /\ runs' = (runs \ {r}) \cup {[r EXCEPT !.at = "waiting"]}
    /\ UNCHANGED <<version, wire, alive, socket, listing, latest, handled, closes>>

\* Seeded bug: exhausted retries are ignored.
RetriesIgnored(r) ==
    /\ Rejects(r)
    /\ IsLatest(r) /\ r.retries >= MaxRetry
    /\ runs' = runs \ {r}
    /\ UNCHANGED <<version, wire, alive, socket, listing, latest, handled, closes>>

\* ... and where the retries are exhausted it throws out of the emitter.
RetriesExhausted(r) ==
    /\ Rejects(r)
    /\ IsLatest(r) /\ r.retries >= MaxRetry
    /\ Die
    /\ UNCHANGED <<version, handled, closes>>

\* retryEmit: the timer has fired.
RetryEmit(r) ==
    /\ r \in runs /\ r.at = "waiting"
    /\ runs' = IF IsLatest(r)
               THEN (runs \ {r}) \cup {[r EXCEPT !.at = "running", !.retries = @ + 1]}
               ELSE runs \ {r}
    /\ UNCHANGED <<version, wire, alive, socket, listing, latest, handled, closes, failures>>

-----------------------------------------------------------------------------
(* The socket. *)

\* The record changes at the cloudagent, which tells an open socket.
Change(k) ==
    /\ version[k] < MaxVersion[k]
    /\ version' = [version EXCEPT ![k] = @ + 1]
    /\ wire' = IF socket = "open" THEN [wire EXCEPT ![k] = @ \cup {version[k] + 1}] ELSE wire
    /\ UNCHANGED <<alive, socket, listing, latest, runs, handled, closes, failures>>

\* The socket opens, first by start and then 10 s after it closed; a listing
\* call of the previous socket is over by then.
SocketOpens ==
    /\ alive /\ socket = "closed" /\ listing.at = "none"
    /\ socket' = "open"
    /\ listing' = [NotListing EXCEPT !.at = "connections"]
    /\ UNCHANGED <<version, wire, alive, latest, runs, handled, closes, failures>>

\* The socket closes, or the heartbeat terminates it after a missed ping.  The
\* listener goes on with its calls.
SocketCloses ==
    /\ socket = "open" /\ closes < MaxCloses
    /\ socket' = "closed" /\ closes' = closes + 1
    /\ wire' = [k \in Key |-> {}]
    /\ UNCHANGED <<version, alive, listing, latest, runs, handled, failures>>

\* A message of the socket is read: those of a record in their order.
MessageArrives(k, v) ==
    /\ v \in wire[k] /\ \A w \in wire[k] : v <= w
    /\ wire' = [wire EXCEPT ![k] = @ \ {v}]
    /\ listing' = [listing EXCEPT !.seen = @ \cup {k}]
    /\ EmitIndexed({k}, [j \in Key |-> v])
    /\ UNCHANGED <<version, alive, socket, handled, closes, failures>>

\* The cloudagent reads its records to answer getConnections or getCredentials.
AgentAnswers ==
    /\ listing.at # "none" /\ ~listing.answered
    /\ listing' = [listing EXCEPT !.answered = TRUE, !.answer = version]
    /\ UNCHANGED <<version, wire, alive, socket, latest, runs, handled, closes, failures>>

\* The call rejects: the listener is async and nobody handles its rejection.
ListingFails ==
    /\ listing.at # "none" /\ failures < MaxFailures
    /\ failures' = failures + 1
    /\ Die
    /\ UNCHANGED <<version, handled, closes>>

\* The listener's next call, or its end.
NextCall ==
    listing' = [listing EXCEPT !.answered = FALSE,
                   !.at = IF @ = "connections" THEN "credentials" ELSE "none"]

\* Seeded bug: records announced on the socket meanwhile are emitted again.
EmitAllListed ==
    /\ listing.at # "none" /\ listing.answered
    /\ EmitIndexed({k \in Listed[listing.at] : listing.answer[k] > 0}, listing.answer)
    /\ NextCall
    /\ UNCHANGED <<version, wire, alive, socket, handled, closes, failures>>

\* The loop over the records that no message has announced meanwhile.
EmitListed ==
    /\ listing.at # "none" /\ listing.answered
    /\ EmitIndexed({k \in Listed[listing.at] \ listing.seen : listing.answer[k] > 0},
                   listing.answer)
    /\ NextCall
    /\ UNCHANGED <<version, wire, alive, socket, handled, closes, failures>>

\* The process ends for another reason, or is started again.
Crash ==
    /\ alive /\ failures < MaxFailures
    /\ failures' = failures + 1
    /\ Die
    /\ UNCHANGED <<version, handled, closes>>

Restart ==
    /\ ~alive
    /\ alive' = TRUE
    /\ UNCHANGED <<version, wire, socket, listing, latest, runs, handled, closes, failures>>

-----------------------------------------------------------------------------
RunStep(r)  == HandlerDone(r) \/ HandlerRejects(r) \/ RetriesExhausted(r) \/ RetryEmit(r)
ListingStep == AgentAnswers \/ EmitListed \/ ListingFails

EventNext ==
    \/ \E k \in Key : Change(k) \/ \E v \in 1..MaxVersion[k] : MessageArrives(k, v)
    \/ \E r \in runs : RunStep(r)
    \/ SocketOpens \/ SocketCloses \/ ListingStep \/ Crash \/ Restart

EventSpec == EventInit /\ [][EventNext]_eventVars

\* The socket is opened again, its messages are read, calls return, timers fire
\* and handlers end, and whatever keeps the service running starts it again.
EventFairSpec ==
    /\ EventSpec
    /\ WF_eventVars(SocketOpens) /\ WF_eventVars(Restart) /\ WF_eventVars(ListingStep)
    /\ \A k \in Key : WF_eventVars(\E v \in 1..MaxVersion[k] : MessageArrives(k, v))
    /\ \A k \in Key : WF_eventVars(\E r \in runs : r.key = k /\ RunStep(r))

-----------------------------------------------------------------------------
(* Properties. *)

\* The latest emission of k is of its latest version and not done.
InProgress(k) == \E r \in runs : r.key = k /\ IsLatest(r) /\ r.ver = version[k]

\* The listener will emit the latest version of k, as far as it knows.
ToBeListed(k) ==
    /\ k \notin listing.seen
    /\ \/ listing.at = "connections" /\ k \in Credentials
       \/ \E kind \in DOMAIN Listed :
            /\ k \in Listed[kind] /\ listing.at = kind
            /\ listing.answered => listing.answer[k] = version[k]

\* The latest state of a listed record is never forgotten: it is handled, on its
\* way to a handler, or to be listed, whatever rejects, closes or restarts, and
\* no older state of it supersedes its retries.
NothingForgotten ==
    \A k \in Connections \cup Credentials : version[k] > handled[k] =>
        \/ socket = "closed"
        \/ version[k] \in wire[k]
        \/ InProgress(k)
        \/ ToBeListed(k)

\* Every state of a listed record is handled in the end, or a later one is.
EverythingHandled ==
    \A k \in Connections \cup Credentials : \A v \in 1..MaxVersion[k] :
        version[k] >= v ~> handled[k] >= v
=============================================================================
