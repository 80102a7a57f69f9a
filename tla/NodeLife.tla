------------------------------ MODULE NodeLife ------------------------------
(***************************************************************************)
(* The processes of a node from start to crash, and the reset they serve.  *)
(***************************************************************************)
EXTENDS StartUp, Reset

lifeVars == <<startVars, resetVars>>

LifeInit == StartInit /\ ResetInit

\* Bound: a reset, and what it competes with, happens while no process starts.
\* The two share no variable, only the process they run in.
Settled == \A p \in Proc : proc[p].at \in {"off", "up"}

\* Requests are served, and the node's own rows written, by a process that is
\* up; the peers go on without it.  The end of the last one ends its requests.
LifeNext ==
    \/ /\ ~Busy /\ \E p \in Proc : Start(p) \/ StartStep(p)
       /\ UNCHANGED resetVars
    \/ /\ \E k \in Setting : UpdateSettings(k)
       /\ UNCHANGED resetVars
    \/ /\ \E p \in Proc : /\ StartCrash(p)
                          /\ IF Up = {p} THEN StopReset ELSE UNCHANGED resetVars
    \/ /\ Up # {} /\ Settled /\ (BeginReset \/ ResetStep \/ OtherStep)
       /\ UNCHANGED startVars

LifeSpec == LifeInit /\ [][LifeNext]_lifeVars

LifeTypeOK == StartTypeOK /\ ResetTypeOK

-----------------------------------------------------------------------------
(* Properties. *)

\* Restarts, also in the middle of a start, find what earlier starts created,
\* unless a policy asks for new records.
SameRecords ==
    (\A n \in 1..3 : policy[n] # "CREATE_NEW") => Cardinality(used) <= 1

\* A process that is up has every setting, although two may insert them at
\* once and the failure of an insert is only logged.
SettingsThere == Up # {} /\ ~failed => \A k \in Setting : settings[k] # "absent"

\* What an admin has set is never overwritten by the default of a process that
\* found the row missing earlier.
EditsStay ==
    [][\A k \in Setting : settings[k] = "edited" => settings'[k] = "edited"]_lifeVars

\* A reset that answers 200 leaves nothing that was there when it began.
ResetIsTrue == reset.at = "ok" => before \cap (Rows \cup Recs) = {}

\* A reset nobody disturbs succeeds, also where an earlier one was cut short.
ResetSucceeds == reset.at = "error" => moved
=============================================================================
