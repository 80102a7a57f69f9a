------------------------------ MODULE LifeProofs ------------------------------
(***************************************************************************)
(* What holds of a node's processes and of its reset for any number of     *)
(* processes, ids, settings and companies.                                 *)
(***************************************************************************)
EXTENDS NodeLife, FiniteSetTheorems, SequenceTheorems, TLAPS

-----------------------------------------------------------------------------
(* The records a node issues credentials with. *)

IdOf == Id \cup {GivenId}
ProcAt == {"off", "find", "create", "read", "insert", "up"}
ProcType == [at : ProcAt, ids : Seq(IdOf), missing : SUBSET Setting]

StartShape ==
    /\ made \subseteq Seq(IdOf) /\ used \subseteq Seq(IdOf)
    /\ proc \in [Proc -> ProcType]
    /\ \A r \in used : Len(r) = 3
    /\ \A r \in made : Len(r) \in 1..3
    /\ policy \in Policies /\ settings \in [Setting -> {"absent", "inserted", "edited"}]

\* Ids in the hands of somebody: created, in use, or being gathered.
Known == made \cup used \cup {proc[p].ids : p \in Proc}

\* Two of them agree as far as both go.
Agree(r, s) == \A n \in 1..Len(r) : n <= Len(s) => r[n] = s[n]

\* r is what the cloudagent created, up to its nth id.
MadeTo(records, r, n) == \E m \in records : Len(m) = n /\ Agree(m, r)

NoNewRecords == \A n \in 1..3 : policy[n] # "CREATE_NEW"

\* One process looks at a time; what it creates was not there.
OneLooks == \A p, q \in Looking : p = q
CreatesMissing ==
    \A p \in Proc : proc[p].at = "create" => Found(p) = {} /\ PolicyOf(p) = "EXISTING_OR_NEW"

\* All that is known is one record and its beginnings: an id is the given one,
\* or one the cloudagent created after the ids before it.
OneRecord ==
    /\ \A r, s \in Known : Agree(r, s)
    /\ \A r \in Known : \A n \in 1..Len(r) :
         IF policy[n] = "given" THEN r[n] = GivenId ELSE MadeTo(made, r, n)

\* A process past its inserts finds every setting it did not see missing.
SettingsKept ==
    ~failed => \A p \in Proc, k \in Setting :
        /\ proc[p].at = "insert" /\ k \notin proc[p].missing => settings[k] # "absent"
        /\ proc[p].at = "up" => settings[k] # "absent"

-----------------------------------------------------------------------------
(* The reset. *)

\* What is left of the two lists the request goes through.
TablesLeft == {Tables, <<"dependent">>, <<>>}
KindsLeft == {Kinds, <<"credentials", "invites">>, <<"invites">>, <<>>}
ToCome(k) ==
    CASE k = "connections" -> {Kinds}
      [] k = "credentials" -> {Kinds, <<"credentials", "invites">>}
      [] k = "invites"     -> {Kinds, <<"credentials", "invites">>, <<"invites">>}

ResetType == [at : {"idle", "delete", "check", "ok", "error"}, tables : TablesLeft,
              kinds : KindsLeft, doomed : SUBSET (Kind \X Company), bad : BOOLEAN]
ResetShape == reset \in ResetType /\ before \subseteq (Table \cup Kind) \X Company /\ moved \in BOOLEAN

\* Nothing exists of a company nothing has happened to, and one whose
\* invitation is not stored yet has no rows.
NothingYet ==
    /\ \A c \in fresh : /\ c \notin asked
                        /\ \A t \in Table : c \notin rows[t]
                        /\ \A k \in Kind : c \notin recs[k]
    /\ \A c \in asked : \A t \in Table : c \notin rows[t]

\* Companies a reset has found something of.
Old(c) == \E x \in Table \cup Kind : <<x, c>> \in before
OldRow(c) == \E t \in Table : <<t, c>> \in before

\* Whom a reset has found something of is not invited again, and nothing is stored
\* once its rows are gone.
OldStays ==
    /\ \A c \in Company : Old(c) => c \notin fresh
    /\ \A c \in Company : OldRow(c) => c \notin asked

RowsGone == \A c \in Company : OldRow(c) => \A t \in Table : c \notin rows[t]
Gone(k) == \A c \in Company : Old(c) => c \notin recs[k]

\* What the two branches have achieved.
Deleting ==
    reset.at = "delete" /\ ~reset.bad =>
        /\ reset.tables # Tables => RowsGone
        /\ \A c \in Company : Old(c) /\ c \in recs["invites"] =>
              reset.kinds \in ToCome("invites") \/ <<"invites", c>> \in reset.doomed

\* An invitation that is gone lets no peer come back, so that what the check
\* has not found does not return.
Checking ==
    reset.at = "check" =>
        /\ RowsGone /\ Gone("invites")
        /\ ~reset.bad => \A k \in {"connections", "credentials"} :
                            reset.kinds \notin ToCome(k) => Gone(k)

Answered == reset.at = "ok" => RowsGone /\ \A k \in Kind : Gone(k)

\* A reset that is left alone empties everything.
Undisturbed ==
    ~moved =>
        /\ reset.at = "delete" =>
             /\ ~reset.bad
             /\ reset.tables # Tables => \A t \in Table : rows[t] = {}
             /\ \A k \in Kind : \A c \in recs[k] :
                  reset.kinds \in ToCome(k) \/ <<k, c>> \in reset.doomed
        /\ reset.at = "check" =>
             /\ ~reset.bad
             /\ \A t \in Table : rows[t] = {}
             /\ \A k \in Kind : recs[k] = {}

-----------------------------------------------------------------------------
(* The reset: what its steps do. *)

\* The lists get shorter, from the front.
LEMMA ListsShrink ==
    /\ \A s \in TablesLeft : s # <<>> =>
         Tail(s) \in TablesLeft /\ Tail(s) # Tables /\ Head(s) \in Table
    /\ \A s \in TablesLeft : s # <<>> /\ Head(s) # "connection" => s # Tables
    /\ \A s \in KindsLeft : s # <<>> =>
         /\ Tail(s) \in KindsLeft /\ Head(s) \in Kind
         /\ \A k \in Kind : s \in ToCome(k) => Tail(s) \in ToCome(k) \/ k = Head(s)
    /\ \A k \in Kind : Kinds \in ToCome(k) /\ <<>> \notin ToCome(k)
    /\ Tables \in TablesLeft /\ <<>> \in TablesLeft /\ <<>> # Tables
    /\ Kinds \in KindsLeft /\ <<>> \in KindsLeft
  BY DEF TablesLeft, KindsLeft, Tables, Kinds, Table, Kind, ToCome

LEMMA FieldsOfReset ==
    ASSUME NEW r \in ResetType
    PROVE  /\ \A a \in {"idle", "delete", "check", "ok", "error"} : [r EXCEPT !.at = a] \in ResetType
           /\ \A s \in TablesLeft : [r EXCEPT !.tables = s] \in ResetType
           /\ \A s \in KindsLeft : [r EXCEPT !.kinds = s] \in ResetType
           /\ \A d \in SUBSET (Kind \X Company) : [r EXCEPT !.doomed = d] \in ResetType
           /\ \A b \in BOOLEAN : [r EXCEPT !.bad = b] \in ResetType
  BY DEF ResetType

\* The request after a step, field by field.
Becomes(a, ts, ks, ds) ==
    /\ reset' \in ResetType
    /\ reset'.at = a /\ reset'.tables = ts /\ reset'.kinds = ks /\ reset'.doomed = ds

LEMMA ResetFields ==
    ASSUME ResetShape
    PROVE  /\ reset \in ResetType /\ reset.tables \in TablesLeft /\ reset.kinds \in KindsLeft
           /\ reset.doomed \subseteq Kind \X Company /\ reset.bad \in BOOLEAN
           /\ NoReset \in ResetType
  BY ListsShrink DEF ResetShape, ResetType, NoReset

\* What each step makes of the request.
LEMMA BeginsReset ==
    ASSUME ResetShape, BeginReset
    PROVE  Becomes("delete", Tables, Kinds, {}) /\ ~reset'.bad
  <1> DEFINE begun == [NoReset EXCEPT !.at = "delete"]
             full  == [begun EXCEPT !.tables = Tables]
  <1>1. begun \in ResetType
    BY ResetFields, FieldsOfReset
  <1>2. full \in ResetType
    BY <1>1, FieldsOfReset, ListsShrink
  <1>3. [full EXCEPT !.kinds = Kinds] \in ResetType
    BY <1>2, FieldsOfReset, ListsShrink
  <1>4. reset' = [full EXCEPT !.kinds = Kinds]
    BY DEF BeginReset
  <1>5. QED
    BY <1>3, <1>4 DEF NoReset, Becomes

LEMMA DeletesTable ==
    ASSUME ResetShape, DeleteTable
    PROVE  Becomes("delete", Tail(reset.tables), reset.kinds, reset.doomed) /\ reset'.bad = reset.bad
  <1>1. Tail(reset.tables) \in TablesLeft /\ reset \in ResetType
    BY ResetFields, ListsShrink DEF DeleteTable
  <1>2. reset' \in ResetType
    BY <1>1, FieldsOfReset DEF DeleteTable
  <1>3. QED
    BY <1>1, <1>2 DEF DeleteTable, Becomes, ResetType

LEMMA ListsRecords ==
    ASSUME ResetShape, ResetTypeOK, ListRecords
    PROVE  /\ Becomes("delete", reset.tables, Tail(reset.kinds),
                      reset.doomed \cup ({Head(reset.kinds)} \X recs[Head(reset.kinds)]))
           /\ reset'.bad = reset.bad
  <1> DEFINE listed == reset.doomed \cup ({Head(reset.kinds)} \X recs[Head(reset.kinds)])
             shorter == [reset EXCEPT !.kinds = Tail(reset.kinds)]
  <1>1. /\ Tail(reset.kinds) \in KindsLeft /\ reset \in ResetType
        /\ Head(reset.kinds) \in Kind /\ reset.doomed \subseteq Kind \X Company
    BY ResetFields, ListsShrink DEF ListRecords
  <1>2. listed \in SUBSET (Kind \X Company)
    BY <1>1 DEF ResetTypeOK
  <1>3. shorter \in ResetType
    BY <1>1, FieldsOfReset
  <1>4. [shorter EXCEPT !.doomed = listed] \in ResetType
    BY <1>2, <1>3, FieldsOfReset
  <1>5. reset' = [shorter EXCEPT !.doomed = listed]
    BY <1>1 DEF ListRecords, ResetType
  <1>6. QED
    BY <1>1, <1>4, <1>5 DEF Becomes, ResetType, ListRecords

LEMMA DeletesRecord ==
    ASSUME ResetShape, DeleteRecord
    PROVE  \E k \in Kind, c \in Company :
             /\ <<k, c>> \in reset.doomed
             /\ recs' = [recs EXCEPT ![k] = @ \ {c}]
             /\ Becomes("delete", reset.tables, reset.kinds, reset.doomed \ {<<k, c>>})
             /\ reset'.bad = reset.bad
  <1>1. PICK d \in reset.doomed : /\ recs' = [recs EXCEPT ![d[1]] = @ \ {d[2]}]
                                  /\ reset' = [reset EXCEPT !.doomed = @ \ {d}]
    BY DEF DeleteRecord, NextDoomed
  <1>2. PICK k \in Kind, c \in Company : d = <<k, c>>
    BY ResetFields
  <1>3. reset.doomed \ {d} \in SUBSET (Kind \X Company) /\ reset \in ResetType
    BY ResetFields
  <1>4. reset' \in ResetType
    BY <1>1, <1>3, FieldsOfReset
  <1>5. recs' = [recs EXCEPT ![k] = @ \ {c}]
    BY <1>1, <1>2
  <1>6. Becomes("delete", reset.tables, reset.kinds, reset.doomed \ {<<k, c>>}) /\ reset'.bad = reset.bad
    BY <1>1, <1>2, <1>3, <1>4 DEF Becomes, ResetType, DeleteRecord
  <1>7. QED
    BY <1>1, <1>2, <1>5, <1>6

LEMMA FailsBranch ==
    ASSUME ResetShape, BranchFails
    PROVE  reset' \in ResetType /\ reset'.at = "delete" /\ reset'.bad
  <1>1. reset \in ResetType /\ <<>> \in TablesLeft /\ <<>> \in KindsLeft /\ {} \in SUBSET (Kind \X Company)
    BY ResetFields, ListsShrink
  <1> DEFINE stored == [reset EXCEPT !.tables = <<>>]
             listed == [reset EXCEPT !.kinds = <<>>]
             cloud  == [listed EXCEPT !.doomed = {}]
  <1>2. stored \in ResetType /\ listed \in ResetType
    BY <1>1, FieldsOfReset
  <1>3. cloud \in ResetType
    BY <1>1, <1>2, FieldsOfReset
  <1>4. [stored EXCEPT !.bad = TRUE] \in ResetType /\ [cloud EXCEPT !.bad = TRUE] \in ResetType
    BY <1>2, <1>3, FieldsOfReset
  <1>5. reset' = [stored EXCEPT !.bad = TRUE] \/ reset' = [cloud EXCEPT !.bad = TRUE]
    BY <1>1 DEF BranchFails, ResetType
  <1>6. QED
    BY <1>1, <1>4, <1>5 DEF BranchFails, ResetType

LEMMA BeginsCheck ==
    ASSUME ResetShape, BeginCheck
    PROVE  /\ reset'.bad = reset.bad
           /\ reset.bad => Becomes("error", <<>>, <<>>, {})
           /\ ~reset.bad => Becomes("check", Tables, Kinds, {})
  <1>1. reset \in ResetType
    BY ResetFields
  <1>2. CASE reset.bad
    <2>1. reset' = [reset EXCEPT !.at = "error"]
      BY <1>2 DEF BeginCheck
    <2>2. reset' \in ResetType
      BY <1>1, <2>1, FieldsOfReset
    <2>3. Becomes("error", <<>>, <<>>, {}) /\ reset'.bad = reset.bad
      BY <1>1, <2>1, <2>2 DEF Becomes, ResetType, BeginCheck
    <2>4. QED
      BY <1>2, <2>3
  <1>3. CASE ~reset.bad
    <2> DEFINE begun == [reset EXCEPT !.at = "check"]
               full  == [begun EXCEPT !.tables = Tables]
    <2>1. begun \in ResetType
      BY <1>1, FieldsOfReset
    <2>2. full \in ResetType
      BY <2>1, FieldsOfReset, ListsShrink
    <2>3. [full EXCEPT !.kinds = Kinds] \in ResetType
      BY <2>2, FieldsOfReset, ListsShrink
    <2>4. reset' = [full EXCEPT !.kinds = Kinds]
      BY <1>1, <1>3 DEF BeginCheck, ResetType
    <2>5. QED
      BY <1>1, <1>3, <2>3, <2>4 DEF Becomes, ResetType, BeginCheck
  <1>4. QED
    BY <1>2, <1>3

LEMMA ChecksTable ==
    ASSUME ResetShape, CheckTable
    PROVE  /\ Becomes("check", Tail(reset.tables), reset.kinds, reset.doomed)
           /\ reset'.bad <=> reset.bad \/ rows[Head(reset.tables)] # {}
  <1> DEFINE found == reset.bad \/ rows[Head(reset.tables)] # {}
             shorter == [reset EXCEPT !.tables = Tail(reset.tables)]
  <1>1. Tail(reset.tables) \in TablesLeft /\ reset \in ResetType
    BY ResetFields, ListsShrink DEF CheckTable
  <1>2. shorter \in ResetType /\ found \in BOOLEAN
    BY <1>1, FieldsOfReset
  <1>3. reset' = [shorter EXCEPT !.bad = found]
    BY <1>1 DEF CheckTable, ResetType
  <1> HIDE DEF found
  <1>4. reset' \in ResetType
    BY <1>2, <1>3, FieldsOfReset
  <1>5. Becomes("check", Tail(reset.tables), reset.kinds, reset.doomed) /\ reset'.bad = found
    BY <1>1, <1>3, <1>4 DEF CheckTable, Becomes, ResetType
  <1>6. QED
    BY <1>5 DEF found

LEMMA ChecksRecords ==
    ASSUME ResetShape, CheckRecords
    PROVE  /\ Becomes("check", reset.tables, Tail(reset.kinds), reset.doomed)
           /\ reset'.bad <=> reset.bad \/ recs[Head(reset.kinds)] # {}
  <1> DEFINE found == reset.bad \/ recs[Head(reset.kinds)] # {}
             shorter == [reset EXCEPT !.kinds = Tail(reset.kinds)]
  <1>1. Tail(reset.kinds) \in KindsLeft /\ reset \in ResetType
    BY ResetFields, ListsShrink DEF CheckRecords
  <1>2. shorter \in ResetType /\ found \in BOOLEAN
    BY <1>1, FieldsOfReset
  <1>3. reset' = [shorter EXCEPT !.bad = found]
    BY <1>1 DEF CheckRecords, ResetType
  <1> HIDE DEF found
  <1>4. reset' \in ResetType
    BY <1>2, <1>3, FieldsOfReset
  <1>5. Becomes("check", reset.tables, Tail(reset.kinds), reset.doomed) /\ reset'.bad = found
    BY <1>1, <1>3, <1>4 DEF CheckRecords, Becomes, ResetType
  <1>6. QED
    BY <1>5 DEF found

LEMMA AnswersReset ==
    ASSUME ResetShape, AnswerReset
    PROVE  /\ reset' \in ResetType
           /\ reset.bad => reset'.at = "error"
           /\ ~reset.bad => reset'.at = "ok"
  <1>1. NoReset \in ResetType
    BY ResetFields
  <1>2. reset' = [NoReset EXCEPT !.at = "error"] \/ reset' = [NoReset EXCEPT !.at = "ok"]
    BY DEF AnswerReset
  <1>3. QED
    BY <1>1, <1>2, FieldsOfReset DEF AnswerReset, NoReset

ResetInv ==
    /\ ResetShape /\ ResetTypeOK /\ NothingYet /\ OldStays
    /\ Deleting /\ Checking /\ Answered /\ Undisturbed /\ ResetSucceeds

-----------------------------------------------------------------------------
(* The reset: its invariant, step by step. *)

LEMMA ResetInvInit == ResetInit => ResetInv
  <1> SUFFICES ASSUME ResetInit PROVE ResetInv
    OBVIOUS
  <1>1. reset \in ResetType
    BY ListsShrink DEF ResetInit, NoReset, ResetType
  <1>2. ResetShape /\ ResetTypeOK
    BY <1>1 DEF ResetInit, ResetShape, ResetTypeOK, NoReset, Table, Kind
  <1>3. NothingYet /\ OldStays /\ ResetSucceeds
    BY DEF ResetInit, NothingYet, OldStays, Old, OldRow, ResetSucceeds, NoReset
  <1>4. Deleting /\ Checking /\ Answered /\ Undisturbed
    BY DEF ResetInit, Deleting, Checking, Answered, Undisturbed, NoReset
  <1>5. QED
    BY <1>2, <1>3, <1>4 DEF ResetInv

\* What the rest of the node writes: to one company, and not to the request.
LEMMA OtherWrites ==
    ASSUME ResetTypeOK, NEW c \in Company,
           CreateInvite(c) \/ InsertConnection(c) \/ PeerConnects(c) \/ PeerProposes(c)
    PROVE  /\ reset' = reset /\ before' = before /\ Move
           /\ rows' \in [Table -> SUBSET Company] /\ recs' \in [Kind -> SUBSET Company]
           /\ InsertConnection(c) => c \in asked /\ \A t \in Table : rows'[t] = rows[t] \cup {c}
           /\ ~InsertConnection(c) => rows' = rows
           /\ \A k \in Kind : recs'[k] \subseteq recs[k] \cup {c}
           /\ ~CreateInvite(c) => recs'["invites"] = recs["invites"]
           /\ ~PeerConnects(c) => recs'["connections"] = recs["connections"]
           /\ ~PeerProposes(c) => recs'["credentials"] = recs["credentials"]
  <1> USE DEF ResetTypeOK, Table, Kind
  <1>1. CASE InsertConnection(c)
    <2>1. (~CreateInvite(c) /\ ~PeerConnects(c) /\ ~PeerProposes(c)) \/ UNCHANGED recs
      BY <1>1 DEF InsertConnection
    <2>2. QED
      BY <1>1, <2>1 DEF InsertConnection
  <1>2. CASE ~InsertConnection(c)
    BY <1>2 DEF CreateInvite, PeerConnects, PeerProposes
  <1>3. QED
    BY <1>1, <1>2

LEMMA OtherKeeps ==
    ASSUME ResetInv, NEW c \in Company,
           CreateInvite(c) \/ InsertConnection(c) \/ PeerConnects(c) \/ PeerProposes(c)
    PROVE  ResetInv'
  <1> USE DEF ResetInv
  <1>0. Move /\ UNCHANGED <<reset, before>>
    BY OtherWrites
  <1>1. ResetShape'
    BY <1>0 DEF ResetShape, Move, Busy
  <1>Asked. asked' \subseteq asked \cup {c} /\ fresh' \subseteq fresh
    BY DEF CreateInvite, InsertConnection, PeerConnects, PeerProposes
  <1>Once. c \notin fresh' /\ (c \in asked' => c \in fresh \/ (c \in asked /\ ~InsertConnection(c)))
    BY DEF CreateInvite, InsertConnection, PeerConnects, PeerProposes, NothingYet, Kind
  <1>Stored. \A d \in Company, t \in Table : d \in rows'[t] /\ d \notin rows[t] => d = c /\ InsertConnection(c)
    BY OtherWrites
  <1>Dependent. rows'["dependent"] \subseteq rows'["connection"]
    BY OtherWrites DEF ResetTypeOK, Table
  <1>2. ResetTypeOK'
    BY <1>0, <1>Asked, <1>Dependent, OtherWrites DEF ResetTypeOK
  <1>Nothing. NothingYet'
    <2>1. ASSUME NEW d \in fresh'
          PROVE  d \notin asked' /\ (\A t \in Table : d \notin rows'[t]) /\ \A k \in Kind : d \notin recs'[k]
      <3>1. d # c /\ d \in fresh
        BY <1>Asked, <1>Once, <2>1
      <3>2. d \notin asked /\ (\A t \in Table : d \notin rows[t]) /\ \A k \in Kind : d \notin recs[k]
        BY <3>1 DEF NothingYet
      <3>3. QED
        BY <1>Asked, <1>Stored, <3>1, <3>2, OtherWrites DEF ResetTypeOK
    <2>2. ASSUME NEW d \in asked', NEW t \in Table PROVE d \notin rows'[t]
      <3>1. d \in fresh \/ d \in asked
        BY <1>Asked, <1>Once, <2>2
      <3>2. d \notin rows[t] /\ ~(d = c /\ InsertConnection(c))
        BY <1>Once, <2>2, <3>1 DEF NothingYet, InsertConnection
      <3>3. QED
        BY <1>Stored, <2>2, <3>1, <3>2 DEF ResetTypeOK
    <2>3. QED
      BY <2>1, <2>2 DEF NothingYet
  <1>Old. OldStays'
    BY <1>0, <1>Asked, <1>Once DEF OldStays, Old, OldRow
  <1>3. Undisturbed' /\ ResetSucceeds'
    BY <1>0 DEF ResetShape, Undisturbed, ResetSucceeds, Move, Busy
  <1>4. RowsGone => RowsGone'
    BY <1>0, <1>Stored DEF RowsGone, OldStays, OldRow, InsertConnection
  <1>5. Old(c) => ~CreateInvite(c)
    BY DEF OldStays, CreateInvite
  <1>6. Gone("invites") => Gone("invites")'
    BY <1>0, <1>5, OtherWrites DEF Gone, Old, Kind
  <1>7. Gone("invites") /\ Gone("connections") => Gone("connections")'
    BY <1>0, OtherWrites DEF Gone, Old, Kind, PeerConnects
  <1>8. Gone("connections") /\ Gone("credentials") => Gone("credentials")'
    BY <1>0, OtherWrites DEF Gone, Old, Kind, PeerProposes
  <1>9. Deleting'
    BY <1>0, <1>4, <1>5, OtherWrites DEF Deleting, Old, Kind
  <1>10. Checking'
    BY <1>0, <1>4, <1>6, <1>7, <1>8 DEF Checking, ToCome
  <1>11. Answered'
    BY <1>0, <1>4, <1>6, <1>7, <1>8 DEF Answered, Kind
  <1>12. QED
    BY <1>1, <1>2, <1>3, <1>9, <1>10, <1>11, <1>Nothing, <1>Old

\* What holds of a request whatever it is doing, when its step only deletes.
LEMMA ResetDeletes ==
    ASSUME ResetInv, reset' \in ResetType, UNCHANGED <<asked, fresh, before>>, moved' \in BOOLEAN,
           rows' \in [Table -> SUBSET Company], recs' \in [Kind -> SUBSET Company],
           rows'["dependent"] \subseteq rows'["connection"],
           \A t \in Table : rows'[t] \subseteq rows[t], \A k \in Kind : recs'[k] \subseteq recs[k]
    PROVE  /\ ResetShape' /\ ResetTypeOK' /\ NothingYet' /\ OldStays'
           /\ RowsGone => RowsGone'
           /\ \A k \in Kind : Gone(k) => Gone(k)'
  <1> USE DEF ResetInv
  <1>1. ResetShape' /\ ResetTypeOK'
    BY DEF ResetShape, ResetTypeOK, ResetType
  <1>2. NothingYet'
    BY DEF NothingYet
  <1>3. OldStays'
    BY DEF OldStays, Old, OldRow
  <1>4. RowsGone => RowsGone'
    BY DEF RowsGone, OldRow
  <1>5. \A k \in Kind : Gone(k) => Gone(k)'
    BY DEF Gone, Old
  <1>6. QED
    BY <1>1, <1>2, <1>3, <1>4, <1>5

LEMMA BeginKeeps == ASSUME ResetInv, BeginReset PROVE ResetInv'
  <1> USE DEF ResetInv
  <1>1. Becomes("delete", Tables, Kinds, {}) /\ ~reset'.bad
    BY BeginsReset
  <1>2. /\ before' = Rows \cup Recs /\ moved' = FALSE
        /\ UNCHANGED <<rows, recs, asked, fresh>>
    BY DEF BeginReset
  <1>3. ResetShape' /\ ResetTypeOK' /\ NothingYet'
    BY <1>1, <1>2 DEF ResetShape, ResetTypeOK, NothingYet, Becomes, Rows, Recs, ResetType
  <1>4. OldStays'
    BY <1>2 DEF OldStays, Old, OldRow, Rows, Recs, NothingYet, Table, Kind
  <1>5. Deleting' /\ Undisturbed'
    BY <1>1, <1>2, ListsShrink DEF Becomes, Deleting, Undisturbed, Kind
  <1>6. Checking' /\ Answered' /\ ResetSucceeds'
    BY <1>1 DEF Becomes, Checking, Answered, ResetSucceeds
  <1>7. QED
    BY <1>3, <1>4, <1>5, <1>6

LEMMA DeleteTableKeeps == ASSUME ResetInv, DeleteTable PROVE ResetInv'
  <1> USE DEF ResetInv
  <1>1. /\ Becomes("delete", Tail(reset.tables), reset.kinds, reset.doomed)
        /\ reset'.bad = reset.bad
    BY DeletesTable
  <1>2. /\ reset.at = "delete" /\ reset.tables # <<>>
        /\ UNCHANGED <<recs, asked, fresh, before, moved>>
    BY DEF DeleteTable
  <1>3. Head(reset.tables) \in Table /\ (Head(reset.tables) # "connection" => reset.tables # Tables)
    BY <1>2, ResetFields, ListsShrink
  <1>4. /\ rows' \in [Table -> SUBSET Company]
        /\ rows'["dependent"] \subseteq rows'["connection"]
        /\ \A t \in Table : rows'[t] \subseteq rows[t]
        /\ Head(reset.tables) = "connection" => \A t \in Table : rows'[t] = {}
    BY <1>3 DEF DeleteTable, ResetTypeOK, Table
  <1>5. /\ ResetShape' /\ ResetTypeOK' /\ NothingYet' /\ OldStays'
        /\ RowsGone => RowsGone'
    BY <1>1, <1>2, <1>4, ResetDeletes DEF Becomes, ResetShape, ResetTypeOK
  <1>6. Deleting'
    <2>1. ~reset.bad => RowsGone'
      BY <1>2, <1>3, <1>4, <1>5 DEF Deleting, RowsGone
    <2>2. QED
      BY <1>1, <1>2, <2>1 DEF Becomes, Deleting, Old
  <1>7. Undisturbed'
    <2>1. ~moved => \A t \in Table : rows'[t] = {}
      BY <1>2, <1>3, <1>4 DEF Undisturbed
    <2>2. QED
      BY <1>1, <1>2, <2>1 DEF Becomes, Undisturbed
  <1>8. Checking' /\ Answered' /\ ResetSucceeds'
    BY <1>1 DEF Becomes, Checking, Answered, ResetSucceeds
  <1>9. QED
    BY <1>5, <1>6, <1>7, <1>8

LEMMA ListRecordsKeeps == ASSUME ResetInv, ListRecords PROVE ResetInv'
  <1> USE DEF ResetInv
  <1> DEFINE now == Head(reset.kinds)
  <1>1. /\ Becomes("delete", reset.tables, Tail(reset.kinds), reset.doomed \cup ({now} \X recs[now]))
        /\ reset'.bad = reset.bad
    BY ListsRecords
  <1>2. /\ reset.at = "delete" /\ reset.kinds # <<>>
        /\ UNCHANGED <<rows, recs, asked, fresh, before, moved>>
    BY DEF ListRecords
  <1>3. /\ ResetShape' /\ ResetTypeOK' /\ NothingYet' /\ OldStays'
        /\ RowsGone => RowsGone'
    BY <1>1, <1>2, ResetDeletes DEF Becomes, ResetShape, ResetTypeOK
  <1>4. ASSUME NEW k \in Kind, NEW c \in recs[k],
               reset.kinds \in ToCome(k) \/ <<k, c>> \in reset.doomed
        PROVE  reset'.kinds \in ToCome(k) \/ <<k, c>> \in reset'.doomed
    <2>1. reset.kinds \in ToCome(k) => Tail(reset.kinds) \in ToCome(k) \/ k = now
      BY <1>2, ResetFields, ListsShrink
    <2>2. k = now => <<k, c>> \in {now} \X recs[now]
      OBVIOUS
    <2>3. QED
      BY <1>1, <1>4, <2>1, <2>2 DEF Becomes
  <1>5. Deleting'
    BY <1>1, <1>2, <1>3, <1>4 DEF Becomes, Deleting, Old, Kind
  <1>6. Undisturbed'
    BY <1>1, <1>2, <1>4 DEF Becomes, Undisturbed
  <1>7. Checking' /\ Answered' /\ ResetSucceeds'
    BY <1>1 DEF Becomes, Checking, Answered, ResetSucceeds
  <1>8. QED
    BY <1>3, <1>5, <1>6, <1>7

LEMMA DeleteRecordKeeps == ASSUME ResetInv, DeleteRecord PROVE ResetInv'
  <1> USE DEF ResetInv
  <1>1. PICK j \in Kind, d \in Company :
          /\ <<j, d>> \in reset.doomed
          /\ recs' = [recs EXCEPT ![j] = @ \ {d}]
          /\ Becomes("delete", reset.tables, reset.kinds, reset.doomed \ {<<j, d>>})
          /\ reset'.bad = reset.bad
    BY DeletesRecord
  <1>2. reset.at = "delete" /\ UNCHANGED <<rows, asked, fresh, before, moved>>
    BY DEF DeleteRecord
  <1>3. /\ recs' \in [Kind -> SUBSET Company]
        /\ \A k \in Kind : recs'[k] \subseteq recs[k]
        /\ d \notin recs'[j]
    BY <1>1 DEF ResetTypeOK
  <1>4. /\ ResetShape' /\ ResetTypeOK' /\ NothingYet' /\ OldStays'
        /\ RowsGone => RowsGone'
    BY <1>1, <1>2, <1>3, ResetDeletes DEF Becomes, ResetShape, ResetTypeOK
  <1>5. ASSUME NEW k \in Kind, NEW c \in recs'[k],
               reset.kinds \in ToCome(k) \/ <<k, c>> \in reset.doomed
        PROVE  reset'.kinds \in ToCome(k) \/ <<k, c>> \in reset'.doomed
    BY <1>1, <1>3, <1>5 DEF Becomes
  <1>6. Deleting'
    BY <1>1, <1>2, <1>3, <1>4, <1>5 DEF Becomes, Deleting, Old, Kind
  <1>7. Undisturbed'
    BY <1>1, <1>2, <1>3, <1>5 DEF Becomes, Undisturbed
  <1>8. Checking' /\ Answered' /\ ResetSucceeds'
    BY <1>1 DEF Becomes, Checking, Answered, ResetSucceeds
  <1>9. QED
    BY <1>4, <1>6, <1>7, <1>8

LEMMA BranchFailsKeeps == ASSUME ResetInv, BranchFails PROVE ResetInv'
  <1> USE DEF ResetInv
  <1>1. reset' \in ResetType /\ reset'.at = "delete" /\ reset'.bad
    BY FailsBranch
  <1>2. moved' = TRUE /\ UNCHANGED <<rows, recs, asked, fresh, before>>
    BY DEF BranchFails
  <1>3. ResetShape' /\ ResetTypeOK' /\ NothingYet' /\ OldStays'
    BY <1>1, <1>2, ResetDeletes DEF ResetTypeOK
  <1>4. Deleting' /\ Undisturbed' /\ Checking' /\ Answered' /\ ResetSucceeds'
    BY <1>1, <1>2 DEF Deleting, Undisturbed, Checking, Answered, ResetSucceeds
  <1>5. QED
    BY <1>3, <1>4

LEMMA BeginCheckKeeps == ASSUME ResetInv, BeginCheck PROVE ResetInv'
  <1> USE DEF ResetInv
  <1>1. /\ reset'.bad = reset.bad
        /\ reset.bad => Becomes("error", <<>>, <<>>, {})
        /\ ~reset.bad => Becomes("check", Tables, Kinds, {})
    BY BeginsCheck
  <1>2. /\ reset.at = "delete" /\ reset.tables = <<>> /\ reset.kinds = <<>> /\ reset.doomed = {}
        /\ UNCHANGED <<rows, recs, asked, fresh, before, moved>>
    BY DEF BeginCheck
  <1>3. /\ ResetShape' /\ ResetTypeOK' /\ NothingYet' /\ OldStays'
        /\ RowsGone => RowsGone' /\ \A k \in Kind : Gone(k) => Gone(k)'
    BY <1>1, <1>2, ResetDeletes DEF Becomes, ResetShape, ResetTypeOK
  <1>4. reset.tables # Tables /\ \A k \in Kind : reset.kinds \notin ToCome(k)
    BY <1>2, ListsShrink
  <1>5. Undisturbed' /\ ResetSucceeds'
    <2>1. ~moved => /\ ~reset.bad /\ \A t \in Table : rows[t] = {}
                    /\ \A k \in Kind : recs[k] = {}
      BY <1>2, <1>4 DEF Undisturbed
    <2>2. CASE reset.bad
      BY <1>1, <1>2, <2>1, <2>2 DEF Becomes, Undisturbed, ResetSucceeds
    <2>3. CASE ~reset.bad
      BY <1>1, <1>2, <2>1, <2>3 DEF Becomes, Undisturbed, ResetSucceeds
    <2>4. QED
      BY <2>2, <2>3
  <1>6. Checking'
    <2>1. ~reset.bad => RowsGone /\ Gone("invites")
      BY <1>2, <1>4 DEF Deleting, Gone, Kind
    <2>2. \A k \in Kind : Kinds \in ToCome(k)
      BY ListsShrink
    <2>3. QED
      BY <1>1, <1>3, <2>1, <2>2 DEF Becomes, Checking, Kind
  <1>7. Deleting' /\ Answered'
    BY <1>1 DEF Becomes, Deleting, Answered
  <1>8. QED
    BY <1>3, <1>5, <1>6, <1>7

LEMMA CheckTableKeeps == ASSUME ResetInv, CheckTable PROVE ResetInv'
  <1> USE DEF ResetInv
  <1>1. /\ Becomes("check", Tail(reset.tables), reset.kinds, reset.doomed)
        /\ reset'.bad <=> reset.bad \/ rows[Head(reset.tables)] # {}
    BY ChecksTable
  <1>2. /\ reset.at = "check" /\ reset.tables # <<>>
        /\ UNCHANGED <<rows, recs, asked, fresh, before, moved>>
    BY DEF CheckTable
  <1>3. /\ ResetShape' /\ ResetTypeOK' /\ NothingYet' /\ OldStays'
        /\ RowsGone => RowsGone' /\ \A k \in Kind : Gone(k) => Gone(k)'
    BY <1>1, <1>2, ResetDeletes DEF Becomes, ResetShape, ResetTypeOK
  <1>4. Head(reset.tables) \in Table
    BY <1>2, ResetFields, ListsShrink
  <1>5. Undisturbed'
    BY <1>1, <1>2, <1>4 DEF Becomes, Undisturbed
  <1>6. Checking'
    BY <1>1, <1>2, <1>3 DEF Becomes, Checking, Kind
  <1>7. Deleting' /\ Answered' /\ ResetSucceeds'
    BY <1>1 DEF Becomes, Deleting, Answered, ResetSucceeds
  <1>8. QED
    BY <1>3, <1>5, <1>6, <1>7

LEMMA CheckRecordsKeeps == ASSUME ResetInv, CheckRecords PROVE ResetInv'
  <1> USE DEF ResetInv
  <1> DEFINE now == Head(reset.kinds)
  <1>1. /\ Becomes("check", reset.tables, Tail(reset.kinds), reset.doomed)
        /\ reset'.bad <=> reset.bad \/ recs[now] # {}
    BY ChecksRecords
  <1>2. /\ reset.at = "check" /\ reset.kinds # <<>>
        /\ UNCHANGED <<rows, recs, asked, fresh, before, moved>>
    BY DEF CheckRecords
  <1>3. /\ ResetShape' /\ ResetTypeOK' /\ NothingYet' /\ OldStays'
        /\ RowsGone => RowsGone' /\ \A k \in Kind : Gone(k) => Gone(k)'
    BY <1>1, <1>2, ResetDeletes DEF Becomes, ResetShape, ResetTypeOK
  <1>4. now \in Kind
    BY <1>2, ResetFields, ListsShrink
  <1>5. Undisturbed'
    BY <1>1, <1>2, <1>4 DEF Becomes, Undisturbed
  <1>6. Checking'
    <2>1. RowsGone' /\ Gone("invites")'
      BY <1>2, <1>3 DEF Checking, Kind
    <2>2. ASSUME ~reset'.bad, NEW k \in {"connections", "credentials"}, reset'.kinds \notin ToCome(k)
          PROVE  Gone(k)'
      <3>1. ~reset.bad /\ recs[now] = {}
        BY <1>1, <2>2
      <3>2. reset.kinds \notin ToCome(k) \/ k = now
        BY <1>1, <1>2, <2>2, ResetFields, ListsShrink DEF Becomes, Kind
      <3>3. Gone(k)
        BY <1>2, <3>1, <3>2 DEF Checking, Gone
      <3>4. UNCHANGED <<recs, before>>
        BY <1>2
      <3>5. QED
        BY <3>3, <3>4 DEF Gone, Old
    <2>3. QED
      BY <2>1, <2>2 DEF Checking
  <1>7. Deleting' /\ Answered' /\ ResetSucceeds'
    BY <1>1 DEF Becomes, Deleting, Answered, ResetSucceeds
  <1>8. QED
    BY <1>3, <1>5, <1>6, <1>7

LEMMA AnswerKeeps == ASSUME ResetInv, AnswerReset PROVE ResetInv'
  <1> USE DEF ResetInv
  <1>1. /\ reset' \in ResetType
        /\ reset.bad => reset'.at = "error"
        /\ ~reset.bad => reset'.at = "ok"
    BY AnswersReset
  <1>2. /\ reset.at = "check" /\ reset.kinds = <<>>
        /\ UNCHANGED <<rows, recs, asked, fresh, before, moved>>
    BY DEF AnswerReset
  <1>3. /\ ResetShape' /\ ResetTypeOK' /\ NothingYet' /\ OldStays'
        /\ RowsGone => RowsGone' /\ \A k \in Kind : Gone(k) => Gone(k)'
    BY <1>1, <1>2, ResetDeletes DEF ResetShape, ResetTypeOK
  <1>4. Answered'
    <2>1. \A k \in Kind : <<>> \notin ToCome(k)
      BY ListsShrink
    <2>2. ~reset.bad => RowsGone /\ \A k \in Kind : Gone(k)
      BY <1>2, <2>1 DEF Checking, Kind
    <2>3. QED
      BY <1>1, <1>3, <2>2 DEF Answered
  <1>5. ResetSucceeds' /\ Undisturbed'
    BY <1>1, <1>2 DEF ResetSucceeds, Undisturbed
  <1>6. Deleting' /\ Checking'
    BY <1>1 DEF Deleting, Checking
  <1>7. QED
    BY <1>3, <1>4, <1>5, <1>6

LEMMA StopKeeps == ASSUME ResetInv, StopReset PROVE ResetInv'
  <1> USE DEF ResetInv
  <1>1. reset' \in ResetType /\ reset'.at = "idle"
    BY ResetFields DEF StopReset, NoReset
  <1>2. asked' = {} /\ UNCHANGED <<rows, recs, fresh, before, moved>>
    BY DEF StopReset
  <1>3. ResetShape' /\ ResetTypeOK' /\ NothingYet' /\ OldStays'
    BY <1>1, <1>2 DEF ResetShape, ResetTypeOK, NothingYet, OldStays, Old, OldRow, ResetType
  <1>4. Deleting' /\ Undisturbed' /\ Checking' /\ Answered' /\ ResetSucceeds'
    BY <1>1 DEF Deleting, Undisturbed, Checking, Answered, ResetSucceeds
  <1>5. QED
    BY <1>3, <1>4

LEMMA ResetInvStep == ASSUME ResetInv, BeginReset \/ ResetStep \/ OtherStep PROVE ResetInv'
  BY BeginKeeps, DeleteTableKeeps, ListRecordsKeeps, DeleteRecordKeeps, BranchFailsKeeps,
     BeginCheckKeeps, CheckTableKeeps, CheckRecordsKeeps, AnswerKeeps, OtherKeeps
     DEF ResetStep, OtherStep

LEMMA ResetInvNext == ASSUME ResetInv, [LifeNext]_lifeVars PROVE ResetInv'
  <1>1. CASE UNCHANGED resetVars
    BY <1>1 DEF resetVars, ResetInv, ResetShape, ResetTypeOK, NothingYet, OldStays, Deleting, Checking,
       Answered, Undisturbed, ResetSucceeds, Old, OldRow, RowsGone, Gone
  <1>2. CASE StopReset
    BY <1>2, StopKeeps
  <1>3. CASE BeginReset \/ ResetStep \/ OtherStep
    BY <1>3, ResetInvStep
  <1>4. QED
    BY <1>1, <1>2, <1>3 DEF LifeNext, lifeVars

\* A reset that answers 200 leaves nothing that was there when it began, for any
\* number of companies, whatever is created beside it.
THEOREM ResetIsTrueHolds == LifeSpec => []ResetIsTrue
  <1>1. LifeInit => ResetInv
    BY ResetInvInit DEF LifeInit
  <1>2. ResetInv /\ [LifeNext]_lifeVars => ResetInv'
    BY ResetInvNext
  <1>3. ResetInv => ResetIsTrue
    <2> SUFFICES ASSUME ResetInv, reset.at = "ok", NEW b \in before, b \in Rows \cup Recs
                 PROVE  FALSE
      BY DEF ResetIsTrue
    <2>1. RowsGone /\ \A k \in Kind : Gone(k)
      BY DEF ResetInv, Answered
    <2>2. CASE b \in Rows
      <3>1. PICK t \in Table, c \in Company : b = <<t, c>> /\ c \in rows[t]
        BY <2>2 DEF Rows
      <3>2. QED
        BY <2>1, <3>1 DEF RowsGone, OldRow
    <2>3. CASE b \in Recs
      <3>1. PICK k \in Kind, c \in Company : b = <<k, c>> /\ c \in recs[k]
        BY <2>3 DEF Recs
      <3>2. QED
        BY <2>1, <3>1 DEF Gone, Old
    <2>4. QED
      BY <2>2, <2>3
  <1>4. QED
    BY <1>1, <1>2, <1>3, PTL DEF LifeSpec

\* A reset nobody disturbs succeeds, also where an earlier one was cut short.
THEOREM ResetSucceedsHolds == LifeSpec => []ResetSucceeds
  <1>1. LifeInit => ResetInv
    BY ResetInvInit DEF LifeInit
  <1>2. ResetInv /\ [LifeNext]_lifeVars => ResetInv'
    BY ResetInvNext
  <1>3. ResetInv => ResetSucceeds
    BY DEF ResetInv
  <1>4. QED
    BY <1>1, <1>2, <1>3, PTL DEF LifeSpec

-----------------------------------------------------------------------------
(* The start: what its steps do. *)

\* A process before it has all three ids, and after.
GathersUpTo3 ==
    \A p \in Proc :
        /\ proc[p].at \in {"off", "find", "create"} => Len(proc[p].ids) < 3
        /\ proc[p].at \notin {"off", "find", "create"} => Len(proc[p].ids) = 3

\* p is as the step leaves it; the other processes are as they were.
Turns(p, a, ids, m) ==
    /\ proc' \in [Proc -> ProcType]
    /\ \A q \in Proc : q # p => proc'[q] = proc[q]
    /\ proc'[p].at = a /\ proc'[p].ids = ids /\ proc'[p].missing = m

LEMMA Turn ==
    ASSUME StartShape, NEW p \in Proc, NEW r \in ProcType, proc' = [proc EXCEPT ![p] = r]
    PROVE  Turns(p, r.at, r.ids, r.missing)
  BY DEF StartShape, Turns

\* A process, field by field.
LEMMA ProcFields ==
    ASSUME StartShape, NEW p \in Proc
    PROVE  /\ proc[p].at \in ProcAt /\ proc[p].ids \in Seq(IdOf) /\ proc[p].missing \in SUBSET Setting
           /\ Len(proc[p].ids) \in Nat /\ proc[p] \in ProcType
  BY DEF StartShape, ProcType

LEMMA FieldsOfProc ==
    ASSUME NEW r \in ProcType
    PROVE  /\ \A a \in ProcAt : LET s == [r EXCEPT !.at = a] IN
                s \in ProcType /\ s.at = a /\ s.ids = r.ids /\ s.missing = r.missing
           /\ \A ids \in Seq(IdOf) : LET s == [r EXCEPT !.ids = ids] IN
                s \in ProcType /\ s.at = r.at /\ s.ids = ids /\ s.missing = r.missing
           /\ \A m \in SUBSET Setting : LET s == [r EXCEPT !.missing = m] IN
                s \in ProcType /\ s.at = r.at /\ s.ids = r.ids /\ s.missing = m
  BY DEF ProcType

LEMMA OffIsProc == Off \in ProcType /\ Off.at = "off" /\ Off.ids = <<>> /\ Off.missing = {}
  BY DEF Off, ProcType, ProcAt

LEMMA AtTurns ==
    ASSUME StartShape, NEW p \in Proc, NEW a \in ProcAt, proc' = [proc EXCEPT ![p].at = a]
    PROVE  Turns(p, a, proc[p].ids, proc[p].missing)
  <1> DEFINE r == [proc[p] EXCEPT !.at = a]
  <1>1. r \in ProcType /\ r.at = a /\ r.ids = proc[p].ids /\ r.missing = proc[p].missing
    BY ProcFields, FieldsOfProc
  <1>2. proc' = [proc EXCEPT ![p] = r]
    BY DEF StartShape
  <1> HIDE DEF r
  <1>3. QED
    BY <1>1, <1>2, Turn

LEMMA MissingTurns ==
    ASSUME StartShape, NEW p \in Proc, NEW m \in SUBSET Setting, proc' = [proc EXCEPT ![p].missing = m]
    PROVE  Turns(p, proc[p].at, proc[p].ids, m)
  <1> DEFINE r == [proc[p] EXCEPT !.missing = m]
  <1>1. r \in ProcType /\ r.at = proc[p].at /\ r.ids = proc[p].ids /\ r.missing = m
    BY ZenonT(30), ProcFields, FieldsOfProc
  <1>2. proc' = [proc EXCEPT ![p] = r]
    BY DEF StartShape
  <1> HIDE DEF r
  <1>3. QED
    BY <1>1, <1>2, Turn

LEMMA ReadTurns ==
    ASSUME StartShape, NEW p \in Proc, NEW m \in SUBSET Setting,
           proc' = [proc EXCEPT ![p].at = "insert", ![p].missing = m]
    PROVE  Turns(p, "insert", proc[p].ids, m)
  <1> DEFINE r == [proc[p] EXCEPT !.at = "insert"]
             s == [r EXCEPT !.missing = m]
  <1>1. r \in ProcType /\ r.at = "insert" /\ r.ids = proc[p].ids
    BY ProcFields, FieldsOfProc DEF ProcAt
  <1>2. s \in ProcType /\ s.at = "insert" /\ s.ids = proc[p].ids /\ s.missing = m
    BY ZenonT(30), <1>1, FieldsOfProc
  <1>3. proc' = [proc EXCEPT ![p] = s]
    BY DEF StartShape
  <1> HIDE DEF s
  <1>4. QED
    BY <1>2, <1>3, Turn

LEMMA IdsTurns ==
    ASSUME StartShape, NEW p \in Proc, NEW ids \in Seq(IdOf), NEW a \in ProcAt,
           proc' = [proc EXCEPT ![p] = [proc[p] EXCEPT !.ids = ids, !.at = a]]
    PROVE  Turns(p, a, ids, proc[p].missing)
  <1> DEFINE r == [proc[p] EXCEPT !.ids = ids]
             s == [r EXCEPT !.at = a]
  <1>1. r \in ProcType /\ r.ids = ids /\ r.missing = proc[p].missing
    BY ProcFields, FieldsOfProc
  <1>2. s \in ProcType /\ s.at = a /\ s.ids = ids /\ s.missing = proc[p].missing
    BY ZenonT(30), <1>1, FieldsOfProc
  <1>3. proc' = [proc EXCEPT ![p] = s]
    BY DEF StartShape
  <1> HIDE DEF s
  <1>4. QED
    BY <1>2, <1>3, Turn

\* p ends.
LEMMA TurnsOff ==
    ASSUME StartShape, NEW p \in Proc, proc' = [proc EXCEPT ![p] = Off]
    PROVE  Turns(p, "off", <<>>, {})
  BY OffIsProc, Turn

\* What p is turned to where it does not gather an id.
LEMMA OtherTurns ==
    ASSUME StartShape, NEW p \in Proc
    PROVE  /\ Start(p) => Turns(p, "find", <<>>, {})
           /\ MustCreate(p) => Turns(p, "create", proc[p].ids, proc[p].missing)
           /\ NothingFound(p) \/ StartCrash(p) => Turns(p, "off", <<>>, {})
           /\ ReadSettings(p) =>
                Turns(p, "insert", proc[p].ids, {k \in Setting : settings[k] = "absent"})
           /\ Listen(p) => Turns(p, "up", proc[p].ids, proc[p].missing)
           /\ SettingsFail(p) => \E m \in SUBSET Setting : Turns(p, "insert", proc[p].ids, m)
           /\ InsertSetting(p) => \E k \in proc[p].missing :
                /\ settings' = [settings EXCEPT ![k] = IF @ = "absent" THEN "inserted" ELSE @]
                /\ Turns(p, "insert", proc[p].ids, proc[p].missing \ {k})
  <1>1. ASSUME Start(p) PROVE Turns(p, "find", <<>>, {})
    <2> DEFINE r == [Off EXCEPT !.at = "find"]
    <2>1. proc' = [proc EXCEPT ![p] = r]
      BY <1>1 DEF Start
    <2>2. r \in ProcType /\ r.at = "find" /\ r.ids = <<>> /\ r.missing = {}
      BY OffIsProc, FieldsOfProc DEF ProcAt
    <2> HIDE DEF r
    <2>3. QED
      BY <2>1, <2>2, Turn
  <1>2. ASSUME MustCreate(p) PROVE Turns(p, "create", proc[p].ids, proc[p].missing)
    BY <1>2, AtTurns DEF MustCreate, ProcAt
  <1>3. ASSUME NothingFound(p) \/ StartCrash(p) PROVE Turns(p, "off", <<>>, {})
    BY <1>3, TurnsOff DEF NothingFound, StartCrash
  <1>4. ASSUME ReadSettings(p)
        PROVE  Turns(p, "insert", proc[p].ids, {k \in Setting : settings[k] = "absent"})
    <2>1. {k \in Setting : settings[k] = "absent"} \in SUBSET Setting
      OBVIOUS
    <2>2. QED
      BY <1>4, <2>1, ReadTurns DEF ReadSettings
  <1>5. ASSUME Listen(p) PROVE Turns(p, "up", proc[p].ids, proc[p].missing)
    BY <1>5, AtTurns DEF Listen, ProcAt
  <1>6. ASSUME SettingsFail(p) PROVE \E m \in SUBSET Setting : Turns(p, "insert", proc[p].ids, m)
    <2>1. CASE proc' = [proc EXCEPT ![p].at = "insert"]
      BY <2>1, AtTurns, ProcFields DEF ProcAt
    <2>2. CASE /\ proc[p].at = "insert"
               /\ \E k \in proc[p].missing : proc' = [proc EXCEPT ![p].missing = @ \ {k}]
      <3>1. PICK k \in proc[p].missing : proc' = [proc EXCEPT ![p].missing = @ \ {k}]
        BY <2>2
      <3>2. proc[p].missing \ {k} \in SUBSET Setting
        BY ProcFields
      <3>3. Turns(p, "insert", proc[p].ids, proc[p].missing \ {k})
        BY <2>2, <3>1, <3>2, MissingTurns
      <3>4. QED
        BY <3>2, <3>3
    <2>3. QED
      BY <1>6, <2>1, <2>2 DEF SettingsFail
  <1>7. ASSUME InsertSetting(p)
        PROVE  \E k \in proc[p].missing :
                 /\ settings' = [settings EXCEPT ![k] = IF @ = "absent" THEN "inserted" ELSE @]
                 /\ Turns(p, "insert", proc[p].ids, proc[p].missing \ {k})
    <2>1. PICK k \in proc[p].missing :
            /\ settings' = [settings EXCEPT ![k] = IF @ = "absent" THEN "inserted" ELSE @]
            /\ proc' = [proc EXCEPT ![p].missing = @ \ {k}]
      BY <1>7 DEF InsertSetting
    <2>2. proc[p].missing \ {k} \in SUBSET Setting /\ proc[p].at = "insert"
      BY <1>7, ProcFields DEF InsertSetting
    <2>3. Turns(p, "insert", proc[p].ids, proc[p].missing \ {k})
      BY <2>1, <2>2, MissingTurns
    <2>4. QED
      BY <2>1, <2>3
  <1>8. QED
    BY <1>1, <1>2, <1>3, <1>4, <1>5, <1>6, <1>7

\* What p is turned to by one more id.
LEMMA HaveTurns ==
    ASSUME StartShape, NEW p \in Proc, Len(proc[p].ids) < 3, NEW id \in IdOf, Have(p, id)
    PROVE  LET ids == Append(proc[p].ids, id) IN
           /\ ids \in Seq(IdOf) /\ Len(ids) = Len(proc[p].ids) + 1 /\ Len(ids) <= 3
           /\ \/ Len(ids) = 3 /\ Turns(p, "off", <<>>, {})
              \/ Len(ids) = 3 /\ Turns(p, "read", ids, proc[p].missing)
              \/ Len(ids) < 3 /\ Turns(p, "find", ids, proc[p].missing)
           /\ used' = IF Len(ids) = 3 THEN used \cup {ids} ELSE used
  <1> DEFINE ids == Append(proc[p].ids, id)
  <1>1. ids \in Seq(IdOf) /\ Len(ids) = Len(proc[p].ids) + 1 /\ Len(ids) <= 3
    BY ProcFields, AppendProperties
  <1> HIDE DEF ids
  <1>2. CASE Len(ids) = 3 /\ p \in Init1
    <2>1. proc' = [proc EXCEPT ![p] = Off]
      BY <1>2 DEF Have, ids
    <2>2. QED
      BY <1>1, <1>2, <2>1, TurnsOff DEF Have, ids
  <1>3. CASE Len(ids) = 3 /\ p \notin Init1
    <2>1. proc' = [proc EXCEPT ![p] = [proc[p] EXCEPT !.ids = ids, !.at = "read"]]
      BY <1>3 DEF Have, ids
    <2>2. Turns(p, "read", ids, proc[p].missing)
      BY <1>1, <2>1, IdsTurns DEF ProcAt
    <2>3. QED
      BY <1>1, <1>3, <2>2 DEF Have, ids
  <1>4. CASE Len(ids) # 3
    <2>1. proc' = [proc EXCEPT ![p] = [proc[p] EXCEPT !.ids = ids, !.at = "find"]]
      BY <1>4 DEF Have, ids
    <2>2. Turns(p, "find", ids, proc[p].missing)
      BY <1>1, <2>1, IdsTurns DEF ProcAt
    <2>3. QED
      BY <1>1, <1>4, <2>2 DEF Have, ids
  <1>5. QED
    BY <1>2, <1>3, <1>4

-----------------------------------------------------------------------------
(* The start: types, one process that looks, and the settings. *)

StartBase == StartShape /\ GathersUpTo3 /\ OneLooks /\ SettingsKept

LEMMA StartBaseInit == StartInit => StartBase
  <1> SUFFICES ASSUME StartInit PROVE StartBase
    OBVIOUS
  <1>1. \A p \in Proc : proc[p] = Off
    BY DEF StartInit
  <1>2. StartShape
    BY OffIsProc DEF StartInit, StartShape
  <1>3. GathersUpTo3 /\ OneLooks /\ SettingsKept
    BY <1>1, OffIsProc DEF GathersUpTo3, OneLooks, Looking, SettingsKept
  <1>4. QED
    BY <1>2, <1>3 DEF StartBase

\* What a length below three leaves of a division by it.
LEMMA BelowThree == \A n \in Nat : n < 3 => n % 3 = n
  OBVIOUS

\* The type follows from the shape.
LEMMA ShapeIsType ==
    ASSUME StartShape, GathersUpTo3
    PROVE  StartTypeOK
  <1>1. \A r \in made : \A n \in 1..Len(r) : r[n] \in IdOf
    BY DEF StartShape
  <1>2. ASSUME NEW p \in Proc
        PROVE  /\ proc[p].at \in {"off", "find", "create", "read", "insert", "up"}
               /\ Len(proc[p].ids) = IF proc[p].at \in {"off", "find", "create"}
                                     THEN Len(proc[p].ids) % 3 ELSE 3
               /\ proc[p].missing \subseteq Setting
    <2>1. Len(proc[p].ids) \in Nat
      BY ProcFields
    <2>2. QED
      BY <2>1, ProcFields, BelowThree DEF ProcAt, GathersUpTo3
  <1>3. QED
    BY <1>1, <1>2 DEF StartTypeOK, StartShape, IdOf

\* A step that turns p and leaves the records alone.
LEMMA BaseKept ==
    ASSUME StartBase, NEW p \in Proc, NEW a \in ProcAt, NEW ids, NEW m, Turns(p, a, ids, m),
           UNCHANGED <<policy, made, used>>,
           settings' \in [Setting -> {"absent", "inserted", "edited"}],
           a \in {"off", "find", "create"} => Len(ids) < 3,
           a \notin {"off", "find", "create"} => Len(ids) = 3,
           a \in {"find", "create"} => p \in Looking \/ Looking = {}
    PROVE  StartShape' /\ GathersUpTo3' /\ OneLooks'
  <1>1. StartShape'
    BY DEF StartBase, StartShape, Turns
  <1>2. GathersUpTo3'
    BY DEF StartBase, GathersUpTo3, Turns
  <1>3. OneLooks'
    BY DEF StartBase, OneLooks, Looking, Turns
  <1>4. QED
    BY <1>1, <1>2, <1>3

\* A process that is not past its inserts has nothing to say about the settings.
LEMMA SettingsAlone ==
    ASSUME StartBase, NEW p \in Proc, NEW a, NEW ids, NEW m, Turns(p, a, ids, m),
           a \notin {"insert", "up"}, UNCHANGED <<settings, failed>>
    PROVE  SettingsKept'
  BY DEF StartBase, SettingsKept, Turns

\* The steps that gather no id.
LEMMA BaseOther ==
    ASSUME StartBase, NEW p \in Proc,
           \/ Start(p) \/ MustCreate(p) \/ NothingFound(p) \/ StartCrash(p) \/ ReadSettings(p)
           \/ InsertSetting(p) \/ SettingsFail(p) \/ Listen(p)
    PROVE  StartBase'
  <1> USE DEF StartBase
  <1>1. CASE Start(p)
    <2>1. Turns(p, "find", <<>>, {}) /\ Looking = {} /\ UNCHANGED <<policy, made, settings, used, failed>>
      BY <1>1, OtherTurns DEF Start
    <2>2. StartShape' /\ GathersUpTo3' /\ OneLooks'
      BY <2>1, BaseKept DEF ProcAt, StartShape
    <2>3. SettingsKept'
      BY <2>1, SettingsAlone
    <2>4. QED
      BY <2>2, <2>3
  <1>2. CASE MustCreate(p)
    <2>1. /\ Turns(p, "create", proc[p].ids, proc[p].missing) /\ proc[p].at = "find"
          /\ UNCHANGED <<policy, made, settings, used, failed>>
      BY <1>2, OtherTurns DEF MustCreate
    <2>2. p \in Looking /\ Len(proc[p].ids) < 3
      BY <2>1 DEF Looking, GathersUpTo3
    <2>3. StartShape' /\ GathersUpTo3' /\ OneLooks'
      BY <2>1, <2>2, BaseKept DEF ProcAt, StartShape
    <2>4. SettingsKept'
      BY <2>1, SettingsAlone
    <2>5. QED
      BY <2>3, <2>4
  <1>3. CASE NothingFound(p) \/ StartCrash(p)
    <2>1. Turns(p, "off", <<>>, {}) /\ UNCHANGED <<policy, made, settings, used, failed>>
      BY <1>3, OtherTurns DEF NothingFound, StartCrash
    <2>2. StartShape' /\ GathersUpTo3' /\ OneLooks'
      BY <2>1, BaseKept DEF ProcAt, StartShape
    <2>3. SettingsKept'
      BY <2>1, SettingsAlone
    <2>4. QED
      BY <2>2, <2>3
  <1>4. CASE ReadSettings(p)
    <2>1. /\ Turns(p, "insert", proc[p].ids, {k \in Setting : settings[k] = "absent"})
          /\ proc[p].at = "read" /\ UNCHANGED <<policy, made, settings, used, failed>>
      BY <1>4, OtherTurns DEF ReadSettings
    <2>2. Len(proc[p].ids) = 3
      BY <2>1 DEF GathersUpTo3
    <2>3. StartShape' /\ GathersUpTo3' /\ OneLooks'
      BY <2>1, <2>2, BaseKept DEF ProcAt, StartShape
    <2>4. SettingsKept'
      BY <2>1 DEF SettingsKept, Turns
    <2>5. QED
      BY <2>3, <2>4
  <1>5. CASE InsertSetting(p)
    <2>1. PICK k \in proc[p].missing :
            /\ settings' = [settings EXCEPT ![k] = IF @ = "absent" THEN "inserted" ELSE @]
            /\ Turns(p, "insert", proc[p].ids, proc[p].missing \ {k})
      BY <1>5, OtherTurns
    <2>2. proc[p].at = "insert" /\ UNCHANGED <<policy, made, used, failed>> /\ k \in Setting
      BY <1>5, ProcFields DEF InsertSetting
    <2>3. Len(proc[p].ids) = 3
      BY <2>2 DEF GathersUpTo3
    <2>4. /\ settings' \in [Setting -> {"absent", "inserted", "edited"}]
          /\ settings'[k] # "absent"
          /\ \A j \in Setting : settings[j] # "absent" => settings'[j] # "absent"
      BY <2>1, <2>2 DEF StartShape
    <2>5. StartShape' /\ GathersUpTo3' /\ OneLooks'
      BY <2>1, <2>2, <2>3, <2>4, BaseKept DEF ProcAt
    <2>6. SettingsKept'
      BY <2>1, <2>2, <2>4 DEF SettingsKept, Turns
    <2>7. QED
      BY <2>5, <2>6
  <1>6. CASE SettingsFail(p)
    <2>1. PICK m \in SUBSET Setting : Turns(p, "insert", proc[p].ids, m)
      BY <1>6, OtherTurns
    <2>2. proc[p].at \in {"read", "insert"} /\ failed' = TRUE /\ UNCHANGED <<policy, made, settings, used>>
      BY <1>6 DEF SettingsFail
    <2>3. Len(proc[p].ids) = 3
      BY <2>2 DEF GathersUpTo3
    <2>4. StartShape' /\ GathersUpTo3' /\ OneLooks'
      BY <2>1, <2>2, <2>3, BaseKept DEF ProcAt, StartShape
    <2>5. SettingsKept'
      BY <2>2 DEF SettingsKept
    <2>6. QED
      BY <2>4, <2>5
  <1>7. CASE Listen(p)
    <2>1. /\ Turns(p, "up", proc[p].ids, proc[p].missing)
          /\ proc[p].at = "insert" /\ proc[p].missing = {}
          /\ UNCHANGED <<policy, made, settings, used, failed>>
      BY <1>7, OtherTurns DEF Listen
    <2>2. Len(proc[p].ids) = 3
      BY <2>1 DEF GathersUpTo3
    <2>3. StartShape' /\ GathersUpTo3' /\ OneLooks'
      BY <2>1, <2>2, BaseKept DEF ProcAt, StartShape
    <2>4. SettingsKept'
      BY <2>1 DEF SettingsKept, Turns
    <2>5. QED
      BY <2>3, <2>4
  <1>8. QED
    BY <1>1, <1>2, <1>3, <1>4, <1>5, <1>6, <1>7

\* The steps that gather one: what they put together, and where from.
Gathers(p, id) ==
    /\ id \in IdOf /\ proc[p].at \in {"find", "create"} /\ Have(p, id)
    /\ made' \in {made, made \cup {Append(proc[p].ids, id)}}
    /\ UNCHANGED <<policy, settings, failed>>

LEMMA GatheringSteps ==
    ASSUME StartBase, NEW p \in Proc, TakeGiven(p) \/ FindExisting(p) \/ Create(p)
    PROVE  \E id : Gathers(p, id)
  <1>1. CASE TakeGiven(p)
    BY <1>1 DEF TakeGiven, Gathers, IdOf
  <1>2. CASE FindExisting(p)
    <2>1. PICK r \in Found(p) : Have(p, r[Len(r)])
      BY <1>2 DEF FindExisting
    <2>2. r \in made /\ Len(r) \in 1..3
      BY <2>1 DEF Found, StartBase, StartShape
    <2>3. r[Len(r)] \in IdOf
      <3>1. r \in Seq(IdOf)
        BY <2>2 DEF StartBase, StartShape
      <3>2. QED
        BY SMTT(20), <2>2, <3>1
    <2>4. QED
      BY <1>2, <2>1, <2>3 DEF FindExisting, Gathers
  <1>3. CASE Create(p)
    BY <1>3 DEF Create, Gathers, IdOf
  <1>4. QED
    BY <1>1, <1>2, <1>3

LEMMA BaseGathers ==
    ASSUME StartBase, NEW p \in Proc, NEW id, Gathers(p, id)
    PROVE  StartBase'
  <1> USE DEF StartBase
  <1> DEFINE ids == Append(proc[p].ids, id)
  <1>1. Len(proc[p].ids) < 3 /\ p \in Looking /\ id \in IdOf /\ Have(p, id)
    BY DEF Gathers, GathersUpTo3, Looking
  <1>2. /\ ids \in Seq(IdOf) /\ Len(ids) = Len(proc[p].ids) + 1 /\ Len(ids) <= 3
        /\ \/ Len(ids) = 3 /\ Turns(p, "off", <<>>, {})
           \/ Len(ids) = 3 /\ Turns(p, "read", ids, proc[p].missing)
           \/ Len(ids) < 3 /\ Turns(p, "find", ids, proc[p].missing)
        /\ used' = IF Len(ids) = 3 THEN used \cup {ids} ELSE used
    BY <1>1, HaveTurns
  <1>3. PICK a, i, m :
          /\ a \in {"off", "read", "find"}
          /\ Turns(p, a, i, m)
          /\ a \in {"off", "find"} => Len(i) < 3
          /\ a = "read" => Len(i) = 3
    <2> HIDE DEF ids
    <2>1. Len(<<>>) < 3
      OBVIOUS
    <2>2. CASE Len(ids) = 3 /\ Turns(p, "off", <<>>, {})
      BY <2>1, <2>2
    <2>3. CASE Len(ids) = 3 /\ Turns(p, "read", ids, proc[p].missing)
      BY <2>3
    <2>4. CASE Len(ids) < 3 /\ Turns(p, "find", ids, proc[p].missing)
      BY <2>4
    <2>5. QED
      BY <1>2, <2>2, <2>3, <2>4
  <1>4. made' \in {made, made \cup {ids}} /\ UNCHANGED <<policy, settings, failed>>
    BY DEF Gathers
  <1>5. Len(ids) \in 1..3
    BY <1>1, <1>2, ProcFields
  <1> HIDE DEF ids
  <1>6. StartShape'
    BY <1>2, <1>3, <1>4, <1>5 DEF StartShape, Turns
  <1>7. GathersUpTo3'
    BY <1>3 DEF GathersUpTo3, Turns
  <1>8. OneLooks'
    BY <1>1, <1>3 DEF OneLooks, Looking, Turns
  <1>9. SettingsKept'
    BY <1>3, <1>4, SettingsAlone
  <1>10. QED
    BY <1>6, <1>7, <1>8, <1>9

\* An admin's edit.
LEMMA BaseUpdates ==
    ASSUME StartBase, NEW j \in Setting, UpdateSettings(j)
    PROVE  StartBase'
  <1>1. /\ settings' \in [Setting -> {"absent", "inserted", "edited"}]
        /\ \A k \in Setting : settings[k] # "absent" => settings'[k] # "absent"
    BY DEF UpdateSettings, StartBase, StartShape
  <1>2. QED
    BY <1>1 DEF UpdateSettings, StartBase, StartShape, GathersUpTo3, OneLooks, Looking, SettingsKept

LEMMA BaseNext == ASSUME StartBase, [LifeNext]_lifeVars PROVE StartBase'
  <1>1. CASE UNCHANGED startVars
    BY <1>1 DEF startVars, StartBase, StartShape, GathersUpTo3, OneLooks, Looking, SettingsKept
  <1>2. ASSUME NEW p \in Proc, Start(p) \/ StartStep(p) \/ StartCrash(p) PROVE StartBase'
    BY <1>2, BaseOther, BaseGathers, GatheringSteps DEF StartStep
  <1>3. QED
    BY <1>1, <1>2, BaseUpdates DEF LifeNext, lifeVars

\* Every variable of a node's processes and of its reset keeps its type.
THEOREM LifeTypes == LifeSpec => []LifeTypeOK
  <1>1. LifeInit => StartBase /\ ResetInv
    BY StartBaseInit, ResetInvInit DEF LifeInit
  <1>2. StartBase /\ ResetInv /\ [LifeNext]_lifeVars => (StartBase /\ ResetInv)'
    BY BaseNext, ResetInvNext
  <1>3. StartBase /\ ResetInv => LifeTypeOK
    BY ShapeIsType DEF StartBase, ResetInv, LifeTypeOK
  <1>4. QED
    BY <1>1, <1>2, <1>3, PTL DEF LifeSpec

\* A process that is up has every setting, for any number of processes that
\* insert them side by side.
THEOREM SettingsThereHolds == LifeSpec => []SettingsThere
  <1>1. LifeInit => StartBase
    BY StartBaseInit DEF LifeInit
  <1>2. StartBase /\ [LifeNext]_lifeVars => StartBase'
    BY BaseNext
  <1>3. StartBase => SettingsThere
    BY DEF StartBase, SettingsKept, SettingsThere, Up, Proc
  <1>4. QED
    BY <1>1, <1>2, <1>3, PTL DEF LifeSpec

\* What an admin has set is never overwritten, whichever step any process takes.
THEOREM EditsStayHolds == LifeSpec => EditsStay
  <1> DEFINE Stays == \A k \in Setting : settings[k] = "edited" => settings'[k] = "edited"
  <1>1. LifeInit => StartBase
    BY StartBaseInit DEF LifeInit
  <1>2. StartBase /\ [LifeNext]_lifeVars => StartBase'
    BY BaseNext
  <1>3. StartBase /\ [LifeNext]_lifeVars => [Stays]_lifeVars
    <2> SUFFICES ASSUME StartBase, LifeNext PROVE Stays
      OBVIOUS
    <2>1. settings \in [Setting -> {"absent", "inserted", "edited"}]
      BY DEF StartBase, StartShape
    <2>2. ASSUME NEW p \in Proc, Start(p) \/ StartStep(p) \/ StartCrash(p) PROVE Stays
      <3>1. CASE InsertSetting(p)
        BY <2>1, <3>1 DEF InsertSetting
      <3>2. CASE TakeGiven(p) \/ FindExisting(p) \/ Create(p)
        BY <3>2 DEF TakeGiven, FindExisting, Create
      <3>3. CASE Start(p) \/ MustCreate(p) \/ NothingFound(p) \/ ReadSettings(p) \/ SettingsFail(p)
                 \/ Listen(p) \/ StartCrash(p)
        BY <3>3 DEF Start, MustCreate, NothingFound, ReadSettings, SettingsFail, Listen, StartCrash
      <3>4. QED
        BY <2>2, <3>1, <3>2, <3>3 DEF StartStep
    <2>3. ASSUME NEW j \in Setting, UpdateSettings(j) PROVE Stays
      BY <2>1, <2>3 DEF UpdateSettings
    <2>4. CASE UNCHANGED startVars
      BY <2>4 DEF startVars
    <2>5. QED
      BY <2>2, <2>3, <2>4 DEF LifeNext
  <1>4. QED
    BY <1>1, <1>2, <1>3, PTL DEF LifeSpec, EditsStay

-----------------------------------------------------------------------------
(* The start: one record. *)

LEMMA KnownIsSeq ==
    ASSUME StartShape
    PROVE  /\ \A r \in Known : r \in Seq(IdOf) /\ Len(r) \in Nat
           /\ \A r \in made : Len(r) \in Nat
  BY ProcFields DEF StartShape, Known

LEMMA AgreeBothWays ==
    ASSUME NEW r \in Seq(IdOf), NEW s \in Seq(IdOf), Agree(r, s)
    PROVE  Agree(s, r)
  BY DEF Agree

\* Sequences of a length that agree are one; and so are a record and the ids a
\* process has, with the one it finds after them.
LEMMA AgreeIsEqual ==
    ASSUME NEW r \in Seq(IdOf), NEW s \in Seq(IdOf), Len(r) = Len(s), Agree(r, s)
    PROVE  r = s
  BY SeqEqual DEF Agree

LEMMA Beginning ==
    ASSUME NEW r \in Seq(IdOf), NEW b \in Seq(IdOf), Len(b) <= Len(r)
    PROVE  SubSeq(r, 1, Len(b)) = b <=> Agree(b, r)
  <1> DEFINE s == SubSeq(r, 1, Len(b))
  <1>1. \A n \in 1..Len(b) : r[n] \in IdOf
    OBVIOUS
  <1>2. Len(b) \in Nat /\ 1 \in Int /\ Len(b) \in Int
    OBVIOUS
  <1>3. /\ s \in Seq(IdOf)
        /\ Len(s) = IF 1 <= Len(b) THEN Len(b) - 1 + 1 ELSE 0
        /\ \A n \in 1..(Len(b) - 1 + 1) : s[n] = r[1 + n - 1]
    BY <1>1, <1>2, SubSeqProperties
  <1>4. Len(s) = Len(b) /\ \A n \in 1..Len(b) : s[n] = r[n]
    BY <1>2, <1>3
  <1> HIDE DEF s
  <1>5. s = b => Agree(b, r)
    BY <1>4 DEF Agree
  <1>6. ASSUME Agree(b, r) PROVE s = b
    <2>1. \A n \in 1..Len(s) : s[n] = b[n]
      BY <1>4, <1>6 DEF Agree
    <2>2. QED
      BY <1>3, <1>4, <2>1, SeqEqual
  <1>7. QED
    BY <1>5, <1>6 DEF s

RecordsOK == NoNewRecords => CreatesMissing /\ OneRecord

\* What a step may add to what is known without there being two records.
Fits(ids) ==
    /\ \A r \in Known : Agree(r, ids)
    /\ \A n \in 1..Len(ids) : IF policy[n] = "given" THEN ids[n] = GivenId ELSE MadeTo(made', ids, n)

\* An id of the environment fits.
LEMMA GivenFits ==
    ASSUME StartBase, OneRecord, NEW p \in Proc, TakeGiven(p)
    PROVE  Fits(Append(proc[p].ids, GivenId))
  <1> DEFINE b == proc[p].ids
             ids == Append(b, GivenId)
  <1>1. b \in Known /\ b \in Seq(IdOf) /\ GivenId \in IdOf
    BY ProcFields DEF StartBase, Known, IdOf
  <1>2. /\ ids \in Seq(IdOf) /\ Len(ids) = Len(b) + 1 /\ Len(b) \in Nat
        /\ \A n \in 1..Len(b) : ids[n] = b[n]
        /\ ids[Len(b) + 1] = GivenId
    BY <1>1, AppendProperties
  <1>3. policy[Len(b) + 1] = "given" /\ made' = made
    BY DEF TakeGiven, PolicyOf
  <1> HIDE DEF ids, b
  <1>4. ASSUME NEW r \in Known PROVE Agree(r, ids)
    <2>1. r \in Seq(IdOf) /\ Len(r) \in Nat /\ Agree(r, b)
      BY <1>1, KnownIsSeq DEF StartBase, OneRecord
    <2>2. Len(b) + 1 \in 1..Len(r) => r[Len(b) + 1] = GivenId
      BY <1>3 DEF OneRecord
    <2>3. QED
      BY <1>2, <2>1, <2>2 DEF Agree
  <1>5. ASSUME NEW n \in 1..Len(ids)
        PROVE  IF policy[n] = "given" THEN ids[n] = GivenId ELSE MadeTo(made', ids, n)
    <2>1. CASE n = Len(b) + 1
      BY <1>2, <1>3, <2>1
    <2>2. CASE n \in 1..Len(b)
      <3>1. IF policy[n] = "given" THEN b[n] = GivenId ELSE MadeTo(made, b, n)
        BY <1>1, <2>2 DEF OneRecord
      <3>2. MadeTo(made, b, n) => MadeTo(made', ids, n)
        BY <1>2, <1>3, <2>2 DEF MadeTo, Agree
      <3>3. QED
        BY <1>2, <2>2, <3>1, <3>2
    <2>3. QED
      BY <1>2, <2>1, <2>2
  <1>6. Fits(ids)
    BY <1>4, <1>5 DEF Fits
  <1>7. QED
    BY <1>6 DEF ids, b

\* What is found fits: it is known.
LEMMA FoundFits ==
    ASSUME StartBase, OneRecord, NEW p \in Proc, NEW r \in Found(p), made' = made
    PROVE  Fits(Append(proc[p].ids, r[Len(r)]))
  <1> DEFINE b == proc[p].ids
             ids == Append(b, r[Len(r)])
  <1>1. r \in made /\ r \in Known /\ r \in Seq(IdOf) /\ Len(r) \in 1..3
    BY DEF StartBase, StartShape, Found, Known
  <1>2. b \in Seq(IdOf) /\ Len(b) \in Nat /\ Len(r) = Len(b) + 1 /\ SubSeq(r, 1, Len(b)) = b
    BY ProcFields DEF StartBase, Found
  <1>3. r[Len(r)] \in IdOf
    BY SMTT(20), <1>1
  <1>4. /\ ids \in Seq(IdOf) /\ Len(ids) = Len(b) + 1
        /\ \A n \in 1..Len(b) : ids[n] = b[n]
        /\ ids[Len(b) + 1] = r[Len(r)]
    BY <1>2, <1>3, AppendProperties
  <1>5. Agree(b, r)
    BY <1>1, <1>2, Beginning
  <1>6. Agree(ids, r)
    BY <1>2, <1>4, <1>5 DEF Agree
  <1>7. ids = r
    BY <1>1, <1>2, <1>4, <1>6, AgreeIsEqual
  <1> HIDE DEF ids
  <1>8. Fits(ids)
    BY <1>1, <1>7 DEF Fits, OneRecord, MadeTo
  <1>9. QED
    BY <1>8 DEF ids

\* What is created fits: nobody knows of a record as long as it.
LEMMA CreatedFits ==
    ASSUME StartBase, OneRecord, CreatesMissing, NEW p \in Proc, proc[p].at = "create", NEW id \in IdOf,
           made' = made \cup {Append(proc[p].ids, id)}
    PROVE  Fits(Append(proc[p].ids, id))
  <1> DEFINE b == proc[p].ids
             ids == Append(b, id)
  <1>1. b \in Known /\ b \in Seq(IdOf) /\ Len(b) \in Nat
    BY ProcFields DEF StartBase, Known
  <1>2. /\ ids \in Seq(IdOf) /\ Len(ids) = Len(b) + 1
        /\ \A n \in 1..Len(b) : ids[n] = b[n]
    BY <1>1, AppendProperties
  <1>3. Found(p) = {} /\ policy[Len(b) + 1] = "EXISTING_OR_NEW"
    BY DEF CreatesMissing, PolicyOf
  <1>4. made' = made \cup {ids}
    OBVIOUS
  <1> HIDE DEF ids, b
  <1>5. ASSUME NEW r \in Known, Len(r) > Len(b) PROVE FALSE
    <2>1. Len(b) + 1 \in 1..Len(r)
      BY <1>1, <1>5, KnownIsSeq DEF StartBase
    <2>2. PICK m \in made : Len(m) = Len(b) + 1 /\ Agree(m, r)
      BY <1>3, <2>1 DEF OneRecord, MadeTo
    <2>3. m \in Known /\ m \in Seq(IdOf)
      BY <2>2 DEF Known, StartBase, StartShape
    <2>4. Agree(b, m)
      BY <1>1, <2>3 DEF OneRecord
    <2>5. SubSeq(m, 1, Len(b)) = b
      BY <1>1, <2>2, <2>3, <2>4, Beginning
    <2>6. m \in Found(p)
      BY <2>2, <2>5 DEF Found, b
    <2>7. QED
      BY <1>3, <2>6
  <1>6. ASSUME NEW r \in Known PROVE Agree(r, ids)
    <2>1. Len(r) \in Nat /\ Len(r) <= Len(b) /\ Agree(r, b)
      BY <1>1, <1>5, KnownIsSeq DEF StartBase, OneRecord
    <2>2. QED
      BY <1>2, <2>1 DEF Agree
  <1>7. ASSUME NEW n \in 1..Len(ids)
        PROVE  IF policy[n] = "given" THEN ids[n] = GivenId ELSE MadeTo(made', ids, n)
    <2>1. CASE n = Len(b) + 1
      <3>1. ids \in made' /\ Len(ids) = n /\ Agree(ids, ids)
        BY <1>2, <1>4, <2>1 DEF Agree
      <3>2. QED
        BY <1>3, <2>1, <3>1 DEF MadeTo
    <2>2. CASE n \in 1..Len(b)
      <3>1. IF policy[n] = "given" THEN b[n] = GivenId ELSE MadeTo(made, b, n)
        BY <1>1, <2>2 DEF OneRecord
      <3>2. MadeTo(made, b, n) => MadeTo(made', ids, n)
        BY <1>2, <1>4, <2>2 DEF MadeTo, Agree
      <3>3. QED
        BY <1>2, <2>2, <3>1, <3>2
    <2>3. QED
      BY <1>1, <1>2, <2>1, <2>2
  <1>8. Fits(ids)
    BY <1>6, <1>7 DEF Fits
  <1>9. QED
    BY <1>8 DEF ids, b

\* With what fits there is still one record.
LEMMA OneMore ==
    ASSUME StartShape, OneRecord, NEW ids \in Seq(IdOf), Fits(ids), policy' = policy, made \subseteq made',
           Known' \subseteq Known \cup {ids, <<>>}
    PROVE  OneRecord'
  <1>1. \A r, s \in Known \cup {ids, <<>>} : Agree(r, s)
    <2>1. \A r \in Known : Agree(r, ids) /\ Agree(ids, r)
      BY KnownIsSeq, AgreeBothWays DEF Fits
    <2>2. \A r, s \in Known : Agree(r, s)
      BY DEF OneRecord
    <2>3. Agree(ids, ids)
      BY DEF Agree
    <2>4. \A r : (Len(r) \in Nat => Agree(r, <<>>)) /\ Agree(<<>>, r)
      BY DEF Agree
    <2>5. \A r \in Known \cup {ids, <<>>} : Len(r) \in Nat
      BY KnownIsSeq
    <2>6. QED
      BY <2>1, <2>2, <2>3, <2>4, <2>5
  <1>2. ASSUME NEW r \in Known', NEW n \in 1..Len(r)
        PROVE  IF policy'[n] = "given" THEN r[n] = GivenId ELSE MadeTo(made', r, n)
    <2>1. CASE r = ids
      BY <1>2, <2>1 DEF Fits
    <2>2. CASE r \in Known
      <3>1. IF policy[n] = "given" THEN r[n] = GivenId ELSE MadeTo(made, r, n)
        BY <2>2 DEF OneRecord
      <3>2. MadeTo(made, r, n) => MadeTo(made', r, n)
        BY DEF MadeTo, Agree
      <3>3. QED
        BY <3>1, <3>2
    <2>3. CASE r = <<>>
      BY <2>3
    <2>4. QED
      BY <2>1, <2>2, <2>3
  <1>3. QED
    BY <1>1, <1>2 DEF OneRecord

LEMMA RecordsGather ==
    ASSUME StartBase, NoNewRecords, CreatesMissing, OneRecord, NEW p \in Proc,
           TakeGiven(p) \/ FindExisting(p) \/ Create(p)
    PROVE  CreatesMissing' /\ OneRecord'
  <1>1. PICK id : Gathers(p, id) /\ Fits(Append(proc[p].ids, id))
    <2>1. CASE TakeGiven(p)
      <3>1. Gathers(p, GivenId)
        BY <2>1, GatheringSteps DEF TakeGiven, Gathers, IdOf
      <3>2. QED
        BY <2>1, <3>1, GivenFits
    <2>2. CASE FindExisting(p)
      <3>1. PICK r \in Found(p) : Have(p, r[Len(r)])
        BY <2>2 DEF FindExisting
      <3>2. r \in Seq(IdOf) /\ Len(r) \in 1..3
        BY <3>1 DEF Found, StartBase, StartShape
      <3>3. r[Len(r)] \in IdOf
        BY <3>2
      <3>4. Gathers(p, r[Len(r)])
        BY <2>2, <3>1, <3>3 DEF FindExisting, Gathers
      <3>5. made' = made
        BY <2>2 DEF FindExisting
      <3>6. QED
        BY <3>1, <3>4, <3>5, FoundFits
    <2>3. CASE Create(p)
      <3>1. PICK id \in Id : made' = made \cup {Append(proc[p].ids, id)} /\ Have(p, id)
        BY <2>3 DEF Create
      <3>2. Gathers(p, id)
        BY <2>3, <3>1 DEF Create, Gathers, IdOf
      <3>3. id \in IdOf /\ proc[p].at = "create"
        BY <2>3, <3>1 DEF Create, IdOf
      <3>4. QED
        BY <3>1, <3>2, <3>3, CreatedFits
    <2>4. QED
      BY <2>1, <2>2, <2>3
  <1> DEFINE ids == Append(proc[p].ids, id)
  <1>2. Len(proc[p].ids) < 3 /\ p \in Looking /\ id \in IdOf /\ Have(p, id)
    BY <1>1 DEF Gathers, StartBase, GathersUpTo3, Looking
  <1>3. /\ ids \in Seq(IdOf)
        /\ \/ Turns(p, "off", <<>>, {})
           \/ Turns(p, "read", ids, proc[p].missing)
           \/ Turns(p, "find", ids, proc[p].missing)
        /\ used' \subseteq used \cup {ids}
    BY <1>2, HaveTurns DEF StartBase
  <1>4. made' \in {made, made \cup {ids}} /\ policy' = policy
    BY <1>1 DEF Gathers
  <1>5. Fits(ids)
    BY <1>1
  <1> HIDE DEF ids
  <1>6. Known' \subseteq Known \cup {ids, <<>>}
    <2>1. \A q \in Proc : proc'[q].ids \in Known \cup {ids, <<>>}
      BY <1>3 DEF Turns, Known
    <2>2. QED
      BY <1>3, <1>4, <2>1 DEF Known
  <1>7. OneRecord'
    BY <1>3, <1>4, <1>5, <1>6, OneMore DEF StartBase
  <1>8. \A q \in Proc : proc'[q].at # "create"
    BY <1>2, <1>3 DEF StartBase, OneLooks, Looking, Turns
  <1>9. QED
    BY <1>7, <1>8 DEF CreatesMissing

LEMMA RecordsOther ==
    ASSUME StartBase, NoNewRecords, CreatesMissing, OneRecord, NEW p \in Proc,
           \/ Start(p) \/ MustCreate(p) \/ NothingFound(p) \/ StartCrash(p) \/ ReadSettings(p)
           \/ InsertSetting(p) \/ SettingsFail(p) \/ Listen(p)
    PROVE  CreatesMissing' /\ OneRecord'
  <1>1. /\ \A q \in Proc : q # p => proc'[q] = proc[q]
        /\ proc'[p].ids \in {<<>>, proc[p].ids}
        /\ proc'[p].at = "create" => proc'[p].ids = proc[p].ids
    BY OtherTurns DEF StartBase, Turns
  <1>Creates. proc'[p].at = "create" => MustCreate(p)
    BY OtherTurns DEF StartBase, Turns
  <1>2. UNCHANGED <<policy, made, used>>
    BY DEF Start, MustCreate, NothingFound, StartCrash, ReadSettings, InsertSetting, SettingsFail, Listen
  <1>3. Known' \subseteq Known \cup {<<>>}
    <2>1. \A q \in Proc : proc'[q].ids \in Known \cup {<<>>}
      BY <1>1 DEF Known
    <2>2. QED
      BY <1>2, <2>1 DEF Known
  <1>4. Fits(<<>>)
    <2>1. \A r \in Known : Agree(r, <<>>)
      BY KnownIsSeq DEF Agree, StartBase
    <2>2. QED
      BY <2>1 DEF Fits
  <1>5. OneRecord'
    <2>1. <<>> \in Seq(IdOf) /\ Known' \subseteq Known \cup {<<>>, <<>>} /\ made \subseteq made'
      BY <1>2, <1>3
    <2>2. QED
      BY <1>2, <1>4, <2>1, OneMore DEF StartBase
  <1>6. ASSUME NEW q \in Proc, proc'[q].at = "create"
        PROVE  Found(q)' = {} /\ PolicyOf(q)' = "EXISTING_OR_NEW"
    <2>1. proc'[q].ids = proc[q].ids
      BY <1>1, <1>6
    <2>2. Found(q)' = Found(q) /\ PolicyOf(q)' = PolicyOf(q)
      BY <1>2, <2>1 DEF Found, PolicyOf
    <2>3. Found(q) = {} /\ PolicyOf(q) = "EXISTING_OR_NEW"
      <3>1. CASE q # p
        BY <1>1, <1>6, <3>1 DEF CreatesMissing
      <3>2. CASE q = p
        <4>1. MustCreate(p)
          BY <1>6, <1>Creates, <3>2
        <4>2. Len(proc[p].ids) + 1 \in 1..3
          BY <4>1, ProcFields DEF MustCreate, StartBase, GathersUpTo3
        <4>3. PolicyOf(p) # "CREATE_NEW"
          BY <4>2 DEF NoNewRecords, PolicyOf
        <4>4. QED
          BY <3>2, <4>1, <4>3 DEF MustCreate
      <3>3. QED
        BY <3>1, <3>2
    <2>4. QED
      BY <2>2, <2>3
  <1>7. QED
    BY <1>5, <1>6 DEF CreatesMissing

LEMMA RecordsNext ==
    ASSUME StartBase, RecordsOK, [LifeNext]_lifeVars
    PROVE  RecordsOK'
  <1>1. CASE UNCHANGED <<policy, made, proc, used>>
    <2>1. \A p \in Proc : Found(p)' = Found(p) /\ PolicyOf(p)' = PolicyOf(p)
      BY <1>1 DEF Found, PolicyOf
    <2>2. QED
      BY <1>1, <2>1 DEF RecordsOK, NoNewRecords, CreatesMissing, OneRecord, Known, MadeTo, Agree
  <1>2. ASSUME NEW p \in Proc, Start(p) \/ StartStep(p) \/ StartCrash(p) PROVE RecordsOK'
    <2>1. policy' = policy
      BY <1>2 DEF StartStep, Start, MustCreate, NothingFound, StartCrash, ReadSettings, InsertSetting,
         SettingsFail, Listen, TakeGiven, FindExisting, Create
    <2>2. NoNewRecords => CreatesMissing' /\ OneRecord'
      BY <1>2, RecordsGather, RecordsOther DEF RecordsOK, StartStep
    <2>3. QED
      BY <2>1, <2>2 DEF RecordsOK, NoNewRecords
  <1>3. QED
    BY <1>1, <1>2 DEF LifeNext, lifeVars, startVars, UpdateSettings

\* Restarts, also in the middle of a start, find what earlier starts created,
\* unless a policy asks for new records: for any number of processes, ids and
\* starts, and any policies.
THEOREM SameRecordsHolds == LifeSpec => []SameRecords
  <1>1. LifeInit => StartBase /\ RecordsOK
    <2> SUFFICES ASSUME LifeInit PROVE StartBase /\ RecordsOK
      OBVIOUS
    <2>1. made = {} /\ used = {} /\ \A p \in Proc : proc[p].ids = <<>> /\ proc[p].at = "off"
      BY OffIsProc DEF LifeInit, StartInit
    <2>2. \A r \in Known : r = <<>>
      BY <2>1 DEF Known
    <2>3. OneRecord
      BY <2>2 DEF OneRecord, Agree
    <2>4. CreatesMissing
      BY <2>1 DEF CreatesMissing
    <2>5. QED
      BY <2>3, <2>4, StartBaseInit DEF LifeInit, RecordsOK
  <1>2. StartBase /\ RecordsOK /\ [LifeNext]_lifeVars => (StartBase /\ RecordsOK)'
    BY BaseNext, RecordsNext
  <1>3. StartBase /\ RecordsOK => SameRecords
    <2> SUFFICES ASSUME StartBase, RecordsOK, NoNewRecords PROVE Cardinality(used) <= 1
      BY DEF SameRecords, NoNewRecords
    <2>1. \A r, s \in used : r = s
      <3> TAKE r, s \in used
      <3>1. r \in Seq(IdOf) /\ s \in Seq(IdOf) /\ Len(r) = 3 /\ Len(s) = 3
        BY DEF StartBase, StartShape
      <3>2. Agree(r, s)
        BY DEF RecordsOK, OneRecord, Known
      <3>3. QED
        BY <3>1, <3>2, AgreeIsEqual
    <2>2. CASE used = {}
      BY <2>2, FS_EmptySet
    <2>3. CASE used # {}
      <3>1. PICK r : used = {r}
        BY <2>1, <2>3
      <3>2. QED
        BY <3>1, FS_Singleton
    <2>4. QED
      BY <2>2, <2>3
  <1>4. QED
    BY <1>1, <1>2, <1>3, PTL DEF LifeSpec
=============================================================================
