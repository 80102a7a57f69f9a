-------------------------------- MODULE Reset --------------------------------
(***************************************************************************)
(* The reset of a demonstration node: every row of the database and every  *)
(* record of the cloudagent is deleted, side by side, and then looked for, *)
(* while other requests and the peers go on.                               *)
(***************************************************************************)
EXTENDS Integers, Sequences

CONSTANTS
    Company,     \* companies an invitation may be issued to, once each
    ResetFaults  \* what may go wrong: "fail"

VARIABLES
    rows,    \* the tables: the companies with a row of connection, with rows of
             \* connection_invite, query and query_rpc
    recs,    \* the cloudagent's connections, credentials and invites
    asked,   \* companies whose invitation is created and not inserted yet
    fresh,   \* companies nothing has happened to
    reset,   \* the request: what its two branches still have to do
    before,  \* history: what was there when the reset began
    moved    \* history: something else happened, or failed, during the reset

resetVars == <<rows, recs, asked, fresh, reset, before, moved>>

Tables == <<"connection", "dependent">>
Kinds  == <<"connections", "credentials", "invites">>
Table  == {"connection", "dependent"}
Kind   == {"connections", "credentials", "invites"}

Rows == {d \in Table \X Company : d[2] \in rows[d[1]]}
Recs == {d \in Kind \X Company : d[2] \in recs[d[1]]}

NoReset == [at |-> "idle", tables |-> <<>>, kinds |-> <<>>, doomed |-> {}, bad |-> FALSE]

ResetTypeOK ==
    /\ rows \in [Table -> SUBSET Company] /\ recs \in [Kind -> SUBSET Company]
    /\ rows["dependent"] \subseteq rows["connection"]
    /\ asked \subseteq Company /\ fresh \subseteq Company
    /\ reset.at \in {"idle", "delete", "check", "ok", "error"}
    /\ reset.doomed \subseteq Kind \X Company /\ reset.bad \in BOOLEAN

ResetInit ==
    /\ rows = [t \in Table |-> {}] /\ recs = [k \in Kind |-> {}]
    /\ asked = {} /\ fresh = Company
    /\ reset = NoReset /\ before = {} /\ moved = FALSE

Busy == reset.at \in {"delete", "check"}
Move == moved' = (moved \/ Busy)

-----------------------------------------------------------------------------
(* The rest of the node, as far as it makes rows and records. *)

CreateInvite(c) ==
    /\ c \in fresh
    /\ fresh' = fresh \ {c} /\ asked' = asked \cup {c}
    /\ recs' = [recs EXCEPT !["invites"] = @ \cup {c}]
    /\ Move /\ UNCHANGED <<rows, reset, before>>

InsertConnection(c) ==
    /\ c \in asked
    /\ asked' = asked \ {c}
    /\ rows' = [t \in Table |-> rows[t] \cup {c}]
    /\ Move /\ UNCHANGED <<recs, fresh, reset, before>>

PeerConnects(c) ==
    /\ c \in recs["invites"] \ recs["connections"] /\ c \notin asked
    /\ recs' = [recs EXCEPT !["connections"] = @ \cup {c}]
    /\ Move /\ UNCHANGED <<rows, asked, fresh, reset, before>>

PeerProposes(c) ==
    /\ c \in recs["connections"] \ recs["credentials"]
    /\ recs' = [recs EXCEPT !["credentials"] = @ \cup {c}]
    /\ Move /\ UNCHANGED <<rows, asked, fresh, reset, before>>

-----------------------------------------------------------------------------
(* ResetController *)

\* DEMO_MODE is set.  One reset at a time.
BeginReset ==
    /\ ~Busy
    /\ reset' = [NoReset EXCEPT !.at = "delete", !.tables = Tables, !.kinds = Kinds]
    /\ before' = Rows \cup Recs /\ moved' = FALSE
    /\ UNCHANGED <<rows, recs, asked, fresh>>

\* Seeded bug: a table is emptied alone, without what depends on it.
DeleteTableAlone ==
    /\ reset.at = "delete" /\ reset.tables # <<>>
    /\ rows' = [rows EXCEPT ![Head(reset.tables)] = {}]
    /\ reset' = [reset EXCEPT !.tables = Tail(@)]
    /\ UNCHANGED <<recs, asked, fresh, before, moved>>

\* The next table is emptied; rows that depend on a connection go with it.
DeleteTable ==
    /\ reset.at = "delete" /\ reset.tables # <<>>
    /\ rows' = IF Head(reset.tables) = "connection" THEN [t \in Table |-> {}]
               ELSE [rows EXCEPT ![Head(reset.tables)] = {}]
    /\ reset' = [reset EXCEPT !.tables = Tail(@)]
    /\ UNCHANGED <<recs, asked, fresh, before, moved>>

\* The next kind of record is listed; nothing is deleted before all are.
ListRecords ==
    /\ reset.at = "delete" /\ reset.kinds # <<>>
    /\ reset' = [reset EXCEPT !.kinds = Tail(@),
                    !.doomed = @ \cup ({Head(reset.kinds)} \X recs[Head(reset.kinds)])]
    /\ UNCHANGED <<rows, recs, asked, fresh, before, moved>>

\* Connections first, then invites, then credentials.
Rank == [connections |-> 1, invites |-> 2, credentials |-> 3]
NextDoomed == {d \in reset.doomed : \A e \in reset.doomed : Rank[d[1]] <= Rank[e[1]]}

DeleteRecord ==
    /\ reset.at = "delete" /\ reset.kinds = <<>>
    /\ \E d \in NextDoomed :
         /\ recs' = [recs EXCEPT ![d[1]] = @ \ {d[2]}]
         /\ reset' = [reset EXCEPT !.doomed = @ \ {d}]
    /\ UNCHANGED <<rows, asked, fresh, before, moved>>

\* A call or a statement fails and ends its branch; the other one goes on.
BranchFails ==
    /\ "fail" \in ResetFaults /\ reset.at = "delete"
    /\ \/ reset.tables # <<>> /\ reset' = [reset EXCEPT !.tables = <<>>, !.bad = TRUE]
       \/ /\ reset.kinds # <<>> \/ reset.doomed # {}
          /\ reset' = [reset EXCEPT !.kinds = <<>>, !.doomed = {}, !.bad = TRUE]
    /\ moved' = TRUE
    /\ UNCHANGED <<rows, recs, asked, fresh, before>>

\* Seeded bug: the check begins when the tables are empty.
CheckEarly ==
    /\ reset.at = "delete" /\ reset.tables = <<>> /\ reset.kinds = <<>>
    /\ reset' = IF reset.bad THEN [reset EXCEPT !.at = "error"]
                ELSE [reset EXCEPT !.at = "check", !.tables = Tables, !.kinds = Kinds]
    /\ UNCHANGED <<rows, recs, asked, fresh, before, moved>>

\* Promise.allSettled: both branches have ended; one that failed ends the request.
BeginCheck ==
    /\ reset.at = "delete"
    /\ reset.tables = <<>> /\ reset.kinds = <<>> /\ reset.doomed = {}
    /\ reset' = IF reset.bad THEN [reset EXCEPT !.at = "error"]
                ELSE [reset EXCEPT !.at = "check", !.tables = Tables, !.kinds = Kinds]
    /\ UNCHANGED <<rows, recs, asked, fresh, before, moved>>

\* isReset: the tables are read one by one ...
CheckTable ==
    /\ reset.at = "check" /\ reset.tables # <<>>
    /\ reset' = [reset EXCEPT !.tables = Tail(@), !.bad = @ \/ rows[Head(reset.tables)] # {}]
    /\ UNCHANGED <<rows, recs, asked, fresh, before, moved>>

\* ... and beside them the records.
CheckRecords ==
    /\ reset.at = "check" /\ reset.kinds # <<>>
    /\ reset' = [reset EXCEPT !.kinds = Tail(@), !.bad = @ \/ recs[Head(reset.kinds)] # {}]
    /\ UNCHANGED <<rows, recs, asked, fresh, before, moved>>

\* Seeded bug: a reset answers 200 whatever it finds or fails to delete.
AnswerAlways ==
    /\ reset.at \in {"delete", "check"}
    /\ reset.tables = <<>> /\ reset.kinds = <<>>
    /\ reset' = [NoReset EXCEPT !.at = "ok"]
    /\ UNCHANGED <<rows, recs, asked, fresh, before, moved>>

AnswerReset ==
    /\ reset.at = "check" /\ reset.tables = <<>> /\ reset.kinds = <<>>
    /\ reset' = [NoReset EXCEPT !.at = IF reset.bad THEN "error" ELSE "ok"]
    /\ UNCHANGED <<rows, recs, asked, fresh, before, moved>>

\* The process ends in the middle of it.
StopReset ==
    /\ reset' = NoReset /\ asked' = {}
    /\ UNCHANGED <<rows, recs, fresh, before, moved>>

ResetStep == \/ DeleteTable \/ ListRecords \/ DeleteRecord \/ BranchFails \/ BeginCheck
             \/ CheckTable \/ CheckRecords \/ AnswerReset

OtherStep == \E c \in Company : \/ CreateInvite(c) \/ InsertConnection(c)
                                \/ PeerConnects(c) \/ PeerProposes(c)
=============================================================================
