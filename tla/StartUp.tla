------------------------------- MODULE StartUp -------------------------------
(***************************************************************************)
(* What a process does before it listens: it finds or creates the DID, the *)
(* schema and the credential definition it issues credentials with, and    *)
(* inserts the settings the database does not have.  "init" does the first *)
(* half in a process of its own; both share cloudagent and database.       *)
(*                                                                         *)
(* A record of the cloudagent is the sequence of ids it was created with:  *)
(* <<did>>, <<did, schema>>, <<did, schema, definition>>.                  *)
(***************************************************************************)
EXTENDS Integers, Sequences, FiniteSets

CONSTANTS
    Server,    \* processes of index.ts
    Init1,     \* processes of init.ts
    Id,        \* ids the cloudagent gives to what it creates
    GivenId,   \* an id named by the environment instead of a policy
    Policies,  \* the values of the three ISSUANCE_*_POLICY variables
    Setting,   \* admin_email, local_registry_to_use
    MaxStarts, \* bound: starts of a process
    StartFaults  \* what may go wrong: "crash", "fail"

Proc == Server \cup Init1

ASSUME StartAssumption == GivenId \notin Id /\ Server \cap Init1 = {} /\ MaxStarts \in Nat

VARIABLES
    policy,    \* of the DID, the schema and the definition
    made,      \* the cloudagent's records
    proc,      \* where a process is, the ids it has, what it will insert
    settings,  \* rows of the settings table: absent, as inserted, or edited
    starts,    \* history: starts of each process
    used,      \* history: the ids processes found or created
    failed     \* history: a statement on the settings has failed

startVars == <<policy, made, proc, settings, starts, used, failed>>

Off == [at |-> "off", ids |-> <<>>, missing |-> {}]
Looking == {p \in Proc : proc[p].at \in {"find", "create"}}
Up == {p \in Server : proc[p].at = "up"}

StartTypeOK ==
    /\ policy \in Policies
    /\ \A r \in made : Len(r) \in 1..3 /\ \A n \in 1..Len(r) : r[n] \in Id \cup {GivenId}
    /\ \A p \in Proc :
         /\ proc[p].at \in {"off", "find", "create", "read", "insert", "up"}
         /\ Len(proc[p].ids) = IF proc[p].at \in {"off", "find", "create"}
                               THEN Len(proc[p].ids) % 3 ELSE 3
         /\ proc[p].missing \subseteq Setting
    /\ settings \in [Setting -> {"absent", "inserted", "edited"}]

StartInit ==
    /\ policy \in Policies
    /\ made = {}
    /\ proc = [p \in Proc |-> Off]
    /\ settings = [k \in Setting |-> "absent"]
    /\ starts = [p \in Proc |-> 0]
    /\ used = {} /\ failed = FALSE

-----------------------------------------------------------------------------
(* assertIssuanceRecords: assertDid, assertSchema, assertCredentialDefinition *)
(* one after the other, each with its own policy.                            *)

\* Bound: no two processes look for records at once.  Where they do, both may
\* create one, and which of them is found later is up to the cloudagent.
Start(p) ==
    /\ proc[p].at = "off" /\ starts[p] < MaxStarts
    /\ Looking = {}
    /\ proc' = [proc EXCEPT ![p] = [Off EXCEPT !.at = "find"]]
    /\ starts' = [starts EXCEPT ![p] = @ + 1]
    /\ UNCHANGED <<policy, made, settings, used, failed>>

\* The policy for what p asserts next, and the records it would accept.
PolicyOf(p) == policy[Len(proc[p].ids) + 1]
Found(p) == {r \in made : /\ Len(r) = Len(proc[p].ids) + 1
                          /\ SubSeq(r, 1, Len(proc[p].ids)) = proc[p].ids}

\* p has the id it was looking for.  With all three, init ends and the server
\* goes on to the settings.
Have(p, id) ==
    LET ids == Append(proc[p].ids, id)
        all == Len(ids) = 3
    IN  /\ proc' = [proc EXCEPT ![p] =
              IF all /\ p \in Init1 THEN Off
              ELSE [proc[p] EXCEPT !.ids = ids, !.at = IF all THEN "read" ELSE "find"]]
        /\ used' = IF all THEN used \cup {ids} ELSE used

\* An id from the environment is taken as it is.
TakeGiven(p) ==
    /\ proc[p].at = "find" /\ PolicyOf(p) = "given"
    /\ Have(p, GivenId)
    /\ UNCHANGED <<policy, made, settings, starts, failed>>

\* The first of the list the cloudagent answers with, in an order of its own.
FindExisting(p) ==
    /\ proc[p].at = "find" /\ PolicyOf(p) \in {"FIND_EXISTING", "EXISTING_OR_NEW"}
    /\ \E r \in Found(p) : Have(p, r[Len(r)])
    /\ UNCHANGED <<policy, made, settings, starts, failed>>

\* Seeded bug: the lookup is skipped.
CreateAtOnce(p) ==
    /\ proc[p].at = "find" /\ PolicyOf(p) \in {"CREATE_NEW", "EXISTING_OR_NEW"}
    /\ proc' = [proc EXCEPT ![p].at = "create"]
    /\ UNCHANGED <<policy, made, settings, starts, used, failed>>

\* Nothing is found, or nothing is looked for: the next call creates it.
MustCreate(p) ==
    /\ proc[p].at = "find"
    /\ \/ PolicyOf(p) = "CREATE_NEW"
       \/ PolicyOf(p) = "EXISTING_OR_NEW" /\ Found(p) = {}
    /\ proc' = [proc EXCEPT ![p].at = "create"]
    /\ UNCHANGED <<policy, made, settings, starts, used, failed>>

\* ... and throws where the policy forbids that: the process ends.
NothingFound(p) ==
    /\ proc[p].at = "find" /\ PolicyOf(p) = "FIND_EXISTING" /\ Found(p) = {}
    /\ proc' = [proc EXCEPT ![p] = Off]
    /\ UNCHANGED <<policy, made, settings, starts, used, failed>>

\* createDid, createSchema, createCredentialDefinition.
Create(p) ==
    /\ proc[p].at = "create"
    /\ \E id \in Id :
         /\ \A r \in made : id # r[Len(r)]
         /\ made' = made \cup {Append(proc[p].ids, id)}
         /\ Have(p, id)
    /\ UNCHANGED <<policy, settings, starts, failed>>

-----------------------------------------------------------------------------
(* initializeSettings *)

ReadSettings(p) ==
    /\ proc[p].at = "read"
    /\ proc' = [proc EXCEPT ![p].at = "insert",
                            ![p].missing = {k \in Setting : settings[k] = "absent"}]
    /\ UNCHANGED <<policy, made, settings, starts, used, failed>>

\* Seeded bug: an insert that overwrites.
UpsertSetting(p) ==
    /\ proc[p].at = "insert"
    /\ \E k \in proc[p].missing :
         /\ settings' = [settings EXCEPT ![k] = "inserted"]
         /\ proc' = [proc EXCEPT ![p].missing = @ \ {k}]
    /\ UNCHANGED <<policy, made, starts, used, failed>>

\* One insert; setting_key is unique, so a row somebody else has inserted since
\* makes it fail, which is logged.
InsertSetting(p) ==
    /\ proc[p].at = "insert"
    /\ \E k \in proc[p].missing :
         /\ settings' = [settings EXCEPT ![k] = IF @ = "absent" THEN "inserted" ELSE @]
         /\ proc' = [proc EXCEPT ![p].missing = @ \ {k}]
    /\ UNCHANGED <<policy, made, starts, used, failed>>

\* An insert, or the query before it, fails: the process goes on without.
SettingsFail(p) ==
    /\ "fail" \in StartFaults
    /\ \/ proc[p].at = "read" /\ proc' = [proc EXCEPT ![p].at = "insert"]
       \/ /\ proc[p].at = "insert"
          /\ \E k \in proc[p].missing : proc' = [proc EXCEPT ![p].missing = @ \ {k}]
    /\ failed' = TRUE
    /\ UNCHANGED <<policy, made, settings, starts, used>>

\* Seeded bug: initializeSettings is not awaited.
ListenAtOnce(p) ==
    /\ proc[p].at = "insert"
    /\ proc' = [proc EXCEPT ![p].at = "up"]
    /\ UNCHANGED <<policy, made, settings, starts, used, failed>>

\* Server(): the listeners are registered, the socket opens, the port is open.
Listen(p) ==
    /\ proc[p].at = "insert" /\ proc[p].missing = {}
    /\ proc' = [proc EXCEPT ![p].at = "up"]
    /\ UNCHANGED <<policy, made, settings, starts, used, failed>>

\* updateSettings changes the e-mail address of the admin: a row that is there.
UpdateSettings(k) ==
    /\ Up # {} /\ settings[k] # "absent"
    /\ settings' = [settings EXCEPT ![k] = "edited"]
    /\ UNCHANGED <<policy, made, proc, starts, used, failed>>

\* A process ends: a call failed, or it was stopped.
StartCrash(p) ==
    /\ "crash" \in StartFaults /\ proc[p].at # "off"
    /\ proc' = [proc EXCEPT ![p] = Off]
    /\ UNCHANGED <<policy, made, settings, starts, used, failed>>

StartStep(p) ==
    \/ TakeGiven(p) \/ FindExisting(p) \/ MustCreate(p) \/ NothingFound(p) \/ Create(p)
    \/ ReadSettings(p) \/ InsertSetting(p) \/ SettingsFail(p) \/ Listen(p)
=============================================================================
