----------------------------- MODULE PinExchange -----------------------------
(***************************************************************************)
(* The page that submits a PIN and polls its own database for the outcome, *)
(* while the answer travels from the peer's handler to ours: two nodes,    *)
(* one connection, several pages.                                          *)
(***************************************************************************)
EXTENDS Integers, FiniteSets

CONSTANTS
    Page,      \* browser tabs that submit a PIN
    Cred,      \* credential exchanges, one per submission
    NoCred,
    PinLimit,  \* INVITATION_PIN_ATTEMPT_LIMIT of the peer
    PinTries,  \* the 5 that counts are subtracted from in a problem report
    NoTries    \* pin_tries_remaining_count = null

ASSUME PinNullsAreNotValues == NoCred \notin Cred /\ NoTries \notin Int
ASSUME PinLimitsAreNat == PinLimit \in Nat /\ PinTries \in Nat
ASSUME CredsAreFinite == IsFiniteSet(Cred)

VARIABLES
    page,      \* what a page has read, submitted and shown
    cred,      \* an exchange: the PIN, the peer's count and answer
    tries,     \* our row's pin_tries_remaining_count
    verified,  \* our row's status says verified_us or verified_both
    attempts,  \* the peer's row: pin_attempt_count
    locked,    \* the peer's invitations: too_many_attempts
    passed     \* the peer's row: this side is verified, proposals are ignored

pinVars == <<page, cred, tries, verified, attempts, locked, passed>>

Closed == [at |-> "closed", cred |-> NoCred, initial |-> NoTries, alone |-> FALSE,
           shown |-> "nothing"]
Outcome == {"nothing", "success", "form", "error", "timeout", "failed", "unreadable"}
Unused == [pin |-> "right", at |-> "none", count |-> 0, report |-> NoTries]

\* Counts and reports are within what one proposal per exchange can make of them.
Count == 0..Cardinality(Cred)
Report == (PinTries - Cardinality(Cred))..PinTries \cup {0, NoTries}

PinTypeOK ==
    /\ page \in [Page -> [at : {"closed", "read", "polling", "shown"}, cred : Cred \cup {NoCred},
                          initial : Report, alone : BOOLEAN, shown : Outcome]]
    /\ cred \in [Cred -> [pin : {"right", "wrong"}, count : Count, report : Report,
                          at : {"none", "proposed", "counted", "reported", "offered",
                                "heard", "ended"}]]
    /\ tries \in Report
    /\ verified \in BOOLEAN /\ locked \in BOOLEAN /\ passed \in BOOLEAN
    /\ attempts \in Count

PinInit ==
    /\ page = [p \in Page |-> Closed]
    /\ cred = [k \in Cred |-> Unused]
    /\ tries = NoTries /\ verified = FALSE
    /\ attempts = 0 /\ locked = FALSE /\ passed = FALSE

\* Exchanges whose outcome our row does not show yet.
Open == {k \in Cred : cred[k].at \in {"proposed", "counted", "reported", "offered"}}

-----------------------------------------------------------------------------
(* Our page. *)

\* models/db/types.ts: a row with a negative count is not parsed, by any query.
Readable == tries = NoTries \/ tries >= 0

Show(p, what) ==
    page' = [page EXCEPT ![p].at = "shown", ![p].shown = what, ![p].initial = NoTries]

\* submitPinCode reads the row, for the count and the agent's connection.
ReadRow(p) ==
    /\ page[p].at \in {"closed", "shown"}
    /\ page' = [page EXCEPT ![p] =
          IF Readable THEN [Closed EXCEPT !.at = "read", !.initial = tries,
                                          !.alone = Open = {}]
                      ELSE [Closed EXCEPT !.at = "shown", !.shown = "unreadable"]]
    /\ UNCHANGED <<cred, tries, verified, attempts, locked, passed>>

\* ... and proposes a credential with the PIN; whoever else has a submission
\* under way is no longer alone.
Propose(p, k, pin) ==
    /\ page[p].at = "read" /\ cred[k].at = "none"
    /\ cred' = [cred EXCEPT ![k].at = "proposed", ![k].pin = pin]
    /\ page' = [q \in Page |->
                  IF q = p THEN [page[p] EXCEPT !.at = "polling", !.cred = k,
                                                !.alone = @ /\ Open = {} /\ ~verified]
                  ELSE [page[q] EXCEPT !.alone = FALSE]]
    /\ UNCHANGED <<tries, verified, attempts, locked, passed>>

\* The call to the cloudagent rejects.
ProposeFails(p) ==
    /\ page[p].at = "read"
    /\ Show(p, "failed")
    /\ UNCHANGED <<cred, tries, verified, attempts, locked, passed>>

\* Seeded bug: a count is taken for news, whether or not it has changed.
CheckDbAnyCount(initial) ==
    CASE verified        -> "success"
      [] tries = 0       -> "error"
      [] tries # NoTries -> "form"
      [] OTHER           -> "nothing"

\* checkDb: what the row says of a submission that found initial tries left.
\* Counts that grow or disappear are an internal error.
CheckDb(initial) ==
    CASE ~Readable                        -> "unreadable"
      [] Readable /\ verified             -> "success"
      [] Readable /\ ~verified /\ tries = 0 -> "error"
      [] Readable /\ ~verified /\ tries # 0 ->
           CASE tries = initial                    -> "nothing"
             [] tries # initial /\ initial = NoTries -> "form"
             [] tries # initial /\ initial # NoTries ->
                  IF tries # NoTries /\ tries < initial THEN "form" ELSE "failed"

\* One turn of waitForCondition that finds the condition true.
Poll(p) ==
    /\ page[p].at = "polling"
    /\ CheckDb(page[p].initial) # "nothing"
    /\ Show(p, CheckDb(page[p].initial))
    /\ UNCHANGED <<cred, tries, verified, attempts, locked, passed>>

\* Seeded bug: the poll has no deadline while the peer has not answered.
PollForEver(p) ==
    /\ page[p].at = "polling" /\ page[p].cred \notin Open
    /\ Show(p, "timeout")
    /\ UNCHANGED <<cred, tries, verified, attempts, locked, passed>>

\* Four seconds have passed: the exchange goes on without the page.
TimesOut(p) ==
    /\ page[p].at = "polling"
    /\ Show(p, "timeout")
    /\ UNCHANGED <<cred, tries, verified, attempts, locked, passed>>

-----------------------------------------------------------------------------
(* The peer's handler. *)

\* Seeded bug: the same proposal is counted on every run of its handler.
CountEveryRun(k) ==
    /\ cred[k].at \in {"proposed", "counted"}
    /\ attempts' = attempts + 1
    /\ cred' = [cred EXCEPT ![k].at = "counted", ![k].count = attempts']
    /\ UNCHANGED <<page, tries, verified, locked, passed>>

\* The proposal is ignored, or counted.
CountAttempt(k) ==
    /\ cred[k].at = "proposed"
    /\ IF passed
       THEN cred' = [cred EXCEPT ![k].at = "ended"] /\ UNCHANGED attempts
       ELSE /\ attempts' = attempts + 1
            /\ cred' = [cred EXCEPT ![k].at = "counted", ![k].count = attempts']
    /\ UNCHANGED <<page, tries, verified, locked, passed>>

Tell(k, n) ==
    cred' = [cred EXCEPT ![k].at = "reported", ![k].count = 0, ![k].report = n]

\* Over the limit: the invitations are locked and the count starts again.
RefuseAttempt(k) ==
    /\ cred[k].at = "counted" /\ cred[k].count >= PinLimit
    /\ locked' = TRUE /\ attempts' = 0
    /\ Tell(k, PinTries - cred[k].count)
    /\ UNCHANGED <<page, tries, verified, passed>>

\* Seeded bug: the tries that remain after the next one are reported.
RejectOneMore(k) ==
    /\ cred[k].at = "counted" /\ cred[k].count < PinLimit
    /\ locked \/ cred[k].pin = "wrong"
    /\ Tell(k, IF locked THEN 0 ELSE PinTries - cred[k].count - 1)
    /\ UNCHANGED <<page, tries, verified, attempts, locked, passed>>

\* A wrong PIN, or no invitation left to compare it with.
RejectPin(k) ==
    /\ cred[k].at = "counted" /\ cred[k].count < PinLimit
    /\ locked \/ cred[k].pin = "wrong"
    /\ Tell(k, IF locked THEN 0 ELSE PinTries - cred[k].count)
    /\ UNCHANGED <<page, tries, verified, attempts, locked, passed>>

AcceptPin(k) ==
    /\ cred[k].at = "counted" /\ cred[k].count < PinLimit
    /\ ~locked /\ cred[k].pin = "right"
    /\ cred' = [cred EXCEPT ![k].at = "offered", ![k].count = 0]
    /\ UNCHANGED <<page, tries, verified, attempts, locked, passed>>

-----------------------------------------------------------------------------
(* The answers. *)

\* Our handler of the problem report.
ReportHandled(k) ==
    /\ cred[k].at = "reported"
    /\ tries' = cred[k].report
    /\ cred' = [cred EXCEPT ![k].at = "ended", ![k].report = NoTries]
    /\ UNCHANGED <<page, verified, attempts, locked, passed>>

\* The credential is issued and our handleDone has written the status ...
DoneHere(k) ==
    /\ cred[k].at = "offered"
    /\ verified' = TRUE
    /\ cred' = [cred EXCEPT ![k].at = "heard"]
    /\ UNCHANGED <<page, tries, attempts, locked, passed>>

\* ... and the peer's, later.
DoneThere(k) ==
    /\ cred[k].at = "heard"
    /\ passed' = TRUE
    /\ cred' = [cred EXCEPT ![k].at = "ended"]
    /\ UNCHANGED <<page, tries, verified, attempts, locked>>

PageStep(p) == ProposeFails(p) \/ Poll(p) \/ TimesOut(p)
               \/ \E k \in Cred, pin \in {"right", "wrong"} : Propose(p, k, pin)
PeerStep(k) == CountAttempt(k) \/ RefuseAttempt(k) \/ RejectPin(k) \/ AcceptPin(k)
OurStep(k)  == ReportHandled(k) \/ DoneHere(k)

PinNext ==
    \/ \E p \in Page : ReadRow(p) \/ PageStep(p)
    \/ \E k \in Cred : PeerStep(k) \/ OurStep(k) \/ DoneThere(k)

PinSpec == PinInit /\ [][PinNext]_pinVars

\* A page that has begun goes on; the peer need not answer.
PinFairSpec == PinSpec /\ \A p \in Page : WF_pinVars(PageStep(p))

-----------------------------------------------------------------------------
(* Properties. *)

\* A page shows the outcome of its own submission, where no other submission
\* was under way and nothing verified yet: a count that was stored before is not taken for an answer.
OutcomeIsOwn ==
    \A p \in Page : page[p].alone /\ page[p].at = "shown" /\ page[p].cred # NoCred =>
        CASE page[p].shown = "success" -> cred[page[p].cred].pin = "right"
          [] page[p].shown = "form"    -> cred[page[p].cred].pin = "wrong"
          [] page[p].shown = "failed"  -> FALSE
          [] OTHER -> TRUE

\* "Maximum number of pin attempts has been reached" is shown only when the
\* peer has locked its invitations, whatever overlaps.
MaximumIsReached ==
    \A p \in Page : page[p].shown = "error" => locked

\* Every submitted form is answered, by an outcome or by the deadline.
FormsAreAnswered == \A p \in Page : page[p].at = "read" ~> page[p].at = "shown"
=============================================================================
