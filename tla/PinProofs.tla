------------------------------ MODULE PinProofs ------------------------------
(***************************************************************************)
(* What a page says of a PIN, for any number of pages and submissions, and *)
(* how the limit of attempts and the number that remaining tries are       *)
(* counted from have to agree for it.                                      *)
(***************************************************************************)
EXTENDS PinExchange, FiniteSetTheorems, TLAPS

\* The exchanges the peer has looked at.
Counted == {k \in Cred : cred[k].at \notin {"none", "proposed"}}

\* Every exchange is counted once at most.
CountsOK == attempts <= Cardinality(Counted)

\* A credential is offered for the right PIN only, and the peer's row is
\* verified after ours.
OffersOK ==
    /\ \A k \in Cred : /\ cred[k].at \in {"offered", "heard"} => cred[k].pin = "right"
                       /\ cred[k].at = "heard" => verified
                       /\ cred[k].at = "reported" => cred[k].report # NoTries
    /\ passed => verified

\* Until the peer locks its invitations its count only grows: no count on its
\* way to our row, and none that has arrived, is ahead of it.
BehindOK ==
    ~locked =>
        /\ tries # NoTries => tries >= PinTries - attempts
        /\ \A k \in Cred :
             /\ cred[k].at = "counted" => cred[k].count <= attempts
             /\ cred[k].at = "reported" => cred[k].report >= PinTries - attempts

\* No tries remain only where the invitations are locked.
ZeroIsLocked ==
    ~locked => /\ tries # NoTries => tries > 0
               /\ \A k \in Cred : cred[k].at = "reported" => cred[k].report > 0

\* A count that p, whose PIN was wrong, may take for the outcome of its own
\* submission, or one with which no outcome is shown.
News(p, n) ==
    /\ n # NoTries
    /\ n <= 0 \/ /\ cred[page[p].cred].pin = "wrong"
                 /\ page[p].initial = NoTries \/ n < page[p].initial

\* What is known of a page that reads the row alone ...
ReadsAlone(p) ==
    /\ Open = {} /\ page[p].cred = NoCred
    /\ page[p].initial = tries /\ Readable

\* ... and of one that polls alone: only its own exchange is under way, and the
\* row is as it was read until that exchange ends.
PollsAlone(p) ==
    LET k == page[p].cred
        initial == page[p].initial
    IN  /\ k \in Cred /\ cred[k].at # "none" /\ Open \subseteq {k}
        /\ initial = NoTries \/ initial >= 0
        /\ verified => cred[k].pin = "right"
        /\ k \in Open => ~verified /\ tries = initial
        /\ cred[k].at = "counted" =>
             locked \/ initial = NoTries \/ PinTries - cred[k].count < initial
        /\ cred[k].at = "reported" => News(p, cred[k].report)
        /\ ~verified => tries = initial \/ News(p, tries)

AloneOK ==
    \A p \in Page : page[p].alone =>
        /\ page[p].at = "read" => ReadsAlone(p)
        /\ page[p].at = "polling" => PollsAlone(p)

-----------------------------------------------------------------------------
(* Types. *)

PageType == [at : {"closed", "read", "polling", "shown"}, cred : Cred \cup {NoCred},
             initial : Report, alone : BOOLEAN, shown : Outcome]
CredStep == {"none", "proposed", "counted", "reported", "offered", "heard", "ended"}
CredType == [pin : {"right", "wrong"}, count : Count, report : Report, at : CredStep]

\* What a handler may write to an exchange.
LEMMA FieldsOfCred ==
    ASSUME NEW rec \in CredType
    PROVE  /\ \A a \in CredStep : [rec EXCEPT !.at = a] \in CredType
           /\ \A n \in Count : [rec EXCEPT !.count = n] \in CredType
           /\ \A n \in Report : [rec EXCEPT !.report = n] \in CredType
           /\ \A pin \in {"right", "wrong"} : [rec EXCEPT !.pin = pin] \in CredType
  BY DEF CredType


\* What one exchange adds to the number of those the peer has looked at.
LEMMA CountedGrows ==
    ASSUME PinTypeOK, NEW k \in Cred, cred[k].at = "proposed",
           NEW rec, cred' = [cred EXCEPT ![k] = rec], rec.at \notin {"none", "proposed"}
    PROVE  /\ Cardinality(Counted) \in Nat
           /\ Cardinality(Counted') = Cardinality(Counted) + 1
           /\ Cardinality(Counted') <= Cardinality(Cred)
  <1>1. Counted' = Counted \cup {k} /\ k \notin Counted
    BY DEF Counted, PinTypeOK
  <1>2. Counted \subseteq Cred /\ Counted' \subseteq Cred
    BY DEF Counted
  <1>3. IsFiniteSet(Counted)
    BY <1>2, CredsAreFinite, FS_Subset
  <1>4. Cardinality(Counted) \in Nat
    BY <1>3, FS_CardinalityType
  <1>5. Cardinality(Counted \cup {k}) = Cardinality(Counted) + 1
    BY <1>1, <1>3, FS_AddElement
  <1>6. Cardinality(Counted') <= Cardinality(Cred)
    BY <1>2, CredsAreFinite, FS_Subset
  <1>7. QED
    BY <1>1, <1>4, <1>5, <1>6

LEMMA CredsAreCounted == Cardinality(Cred) \in Nat
  BY CredsAreFinite, FS_CardinalityType

\* The peer's count stays within the number of exchanges.
LEMMA CountedIsEnough ==
    ASSUME CountsOK, PinTypeOK
    PROVE  Cardinality(Counted) <= Cardinality(Cred) /\ Cardinality(Counted) \in Nat
  <1>1. Counted \subseteq Cred
    BY DEF Counted
  <1>2. QED
    BY <1>1, CredsAreFinite, FS_Subset, FS_CardinalityType

\* An exchange changes, and stays an exchange: what a handler writes to it.
LEMMA CredMoves ==
    ASSUME PinTypeOK, NEW k \in Cred, NEW rec \in CredType, cred' = [cred EXCEPT ![k] = rec]
    PROVE  cred' \in [Cred -> CredType]
  BY DEF PinTypeOK, CredType, CredStep

\* An exchange after a step is what the step says of it, and its type follows.
LEMMA CredTyped ==
    ASSUME PinTypeOK
    PROVE  cred \in [Cred -> CredType]
  BY DEF PinTypeOK, CredType, CredStep

\* What a page may show, and what becomes of the others.
LEMMA FieldsOfPage ==
    ASSUME NEW rec \in PageType
    PROVE  /\ \A a \in {"closed", "read", "polling", "shown"} : [rec EXCEPT !.at = a] \in PageType
           /\ \A k \in Cred \cup {NoCred} : [rec EXCEPT !.cred = k] \in PageType
           /\ \A n \in Report : [rec EXCEPT !.initial = n] \in PageType
           /\ \A b \in BOOLEAN : [rec EXCEPT !.alone = b] \in PageType
           /\ \A what \in Outcome : [rec EXCEPT !.shown = what] \in PageType
  BY DEF PageType

\* A page before anything is submitted.
LEMMA ClosedPage == Closed \in PageType /\ NoTries \in Report
  BY DEF PageType, Closed, Report, Outcome

\* One page changes.
LEMMA PagesOK ==
    ASSUME PinTypeOK, NEW p \in Page
    PROVE  /\ page \in [Page -> PageType]
           /\ \A rec \in PageType : [page EXCEPT ![p] = rec] \in [Page -> PageType]
  BY DEF PinTypeOK, PageType

LEMMA ReadRowType ==
    ASSUME PinTypeOK, NEW p \in Page, ReadRow(p)
    PROVE  page' \in [Page -> PageType]
  <1> DEFINE reads    == [Closed EXCEPT !.at = "read"]
             known    == [reads EXCEPT !.initial = tries]
             begun    == [known EXCEPT !.alone = Open = {}]
             shows    == [Closed EXCEPT !.at = "shown"]
             unreadable == [shows EXCEPT !.shown = "unreadable"]
  <1>1. reads \in PageType /\ shows \in PageType
    BY ClosedPage, FieldsOfPage
  <1>2. known \in PageType /\ unreadable \in PageType
    BY <1>1, FieldsOfPage DEF PinTypeOK, Outcome
  <1>3. begun \in PageType
    BY <1>2, FieldsOfPage
  <1>4. page' = [page EXCEPT ![p] = IF Readable THEN begun ELSE unreadable]
    BY DEF ReadRow
  <1>5. QED
    BY <1>2, <1>3, <1>4, PagesOK

LEMMA ShowType ==
    ASSUME PinTypeOK, NEW p \in Page, NEW what \in Outcome, Show(p, what)
    PROVE  page' \in [Page -> PageType]
  <1> DEFINE shows   == [page[p] EXCEPT !.at = "shown"]
             outcome == [shows EXCEPT !.shown = what]
             final   == [outcome EXCEPT !.initial = NoTries]
  <1>1. page[p] \in PageType
    BY PagesOK
  <1>2. shows \in PageType
    BY <1>1, FieldsOfPage
  <1>3. outcome \in PageType
    BY <1>2, FieldsOfPage
  <1>4. final \in PageType
    BY <1>3, FieldsOfPage, ClosedPage
  <1>5. page' = [page EXCEPT ![p] = final]
    BY PagesOK DEF Show
  <1>6. QED
    BY <1>4, <1>5, PagesOK

LEMMA ProposeType ==
    ASSUME PinTypeOK, NEW p \in Page, NEW k \in Cred, NEW pin \in {"right", "wrong"},
           Propose(p, k, pin)
    PROVE  page' \in [Page -> PageType] /\ cred' \in [Cred -> CredType]
  <1> DEFINE polls   == [page[p] EXCEPT !.at = "polling"]
             its     == [polls EXCEPT !.cred = k]
             begun   == [its EXCEPT !.alone = page[p].alone /\ Open = {} /\ ~verified]
             other(q) == [page[q] EXCEPT !.alone = FALSE]
  <1>1. \A q \in Page : page[q] \in PageType
    BY PagesOK
  <1>2. polls \in PageType
    BY <1>1, FieldsOfPage
  <1>3. its \in PageType
    BY <1>2, FieldsOfPage
  <1>4. begun \in PageType
    BY <1>3, FieldsOfPage
  <1>5. \A q \in Page : other(q) \in PageType
    BY <1>1, FieldsOfPage
  <1>6. page' = [q \in Page |-> IF q = p THEN begun ELSE other(q)]
    BY DEF Propose
  <1>7. page' \in [Page -> PageType]
    BY <1>4, <1>5, <1>6
  <1>8. 0 \in Count /\ NoTries \in Report
    BY CredsAreCounted DEF Count, Report
  <1> DEFINE proposed == [cred[k] EXCEPT !.at = "proposed"]
  <1>9. cred' \in [Cred -> CredType]
    <2>1. proposed \in CredType
      BY CredTyped, FieldsOfCred DEF CredStep
    <2>2. [proposed EXCEPT !.pin = pin] \in CredType
      BY <2>1, FieldsOfCred
    <2>3. cred' = [cred EXCEPT ![k] = [proposed EXCEPT !.pin = pin]]
      BY CredTyped DEF Propose
    <2>4. QED
      BY <2>2, <2>3, CredMoves
  <1>10. QED
    BY <1>7, <1>9

LEMMA PinTypeInit == PinInit => PinTypeOK /\ CountsOK
  <1> SUFFICES ASSUME PinInit PROVE PinTypeOK /\ CountsOK
    OBVIOUS
  <1>1. 0 \in Count /\ NoTries \in Report
    BY CredsAreCounted DEF Count, Report
  <1>2. Unused \in CredType
    BY <1>1 DEF Unused, CredType, CredStep
  <1>3. PinTypeOK
    BY <1>1, <1>2, ClosedPage DEF PinInit, PinTypeOK, PageType, CredType, CredStep
  <1>4. CountsOK
    <2>1. Counted = {}
      BY DEF PinInit, Counted, Unused
    <2>2. QED
      BY <2>1, FS_EmptySet DEF PinInit, CountsOK
  <1>5. QED
    BY <1>3, <1>4

\* A step that starts no count, and lets the peer's count only fall.
LEMMA CountsKept ==
    ASSUME CountsOK, Counted' = Counted, attempts' = attempts \/ attempts' = 0, PinTypeOK
    PROVE  CountsOK'
  BY CountedIsEnough DEF CountsOK

\* What checkDb says is one of the outcomes.
LEMMA CheckDbOutcome == \A initial : CheckDb(initial) \in Outcome
  BY DEF CheckDb, Outcome

\* The steps of a page.
LEMMA PinTypePage ==
    ASSUME PinTypeOK, CountsOK, NEW p \in Page, ReadRow(p) \/ PageStep(p)
    PROVE  PinTypeOK' /\ CountsOK'
  <1> USE DEF PinTypeOK
  <1>1. CASE ReadRow(p)
    <2>1. Counted' = Counted
      BY <1>1 DEF ReadRow, Counted
    <2>2. CountsOK'
      BY <1>1, <2>1, CountsKept DEF ReadRow
    <2>3. QED
      BY <1>1, <2>2, ReadRowType DEF ReadRow, PageType
  <1>2. CASE ProposeFails(p) \/ Poll(p) \/ TimesOut(p)
    <2>1. Counted' = Counted
      BY <1>2 DEF ProposeFails, Poll, TimesOut, Counted
    <2>2. CountsOK'
      BY <1>2, <2>1, CountsKept DEF ProposeFails, Poll, TimesOut
    <2>3. PICK what \in Outcome : Show(p, what)
      BY <1>2, CheckDbOutcome DEF ProposeFails, Poll, TimesOut, Outcome
    <2>4. QED
      BY <1>2, <2>2, <2>3, ShowType DEF ProposeFails, Poll, TimesOut, PageType
  <1>3. CASE \E k \in Cred, pin \in {"right", "wrong"} : Propose(p, k, pin)
    <2>1. PICK k \in Cred, pin \in {"right", "wrong"} : Propose(p, k, pin)
      BY <1>3
    <2>2. Counted' = Counted
      BY <2>1 DEF Propose, Counted
    <2>3. CountsOK'
      BY <2>1, <2>2, CountsKept DEF Propose
    <2>4. page' \in [Page -> PageType] /\ cred' \in [Cred -> CredType]
      BY <2>1, ProposeType
    <2>5. UNCHANGED <<tries, verified, attempts, locked, passed>>
      BY <2>1 DEF Propose
    <2>6. QED
      BY <2>3, <2>4, <2>5 DEF PageType, CredType, CredStep
  <1>4. QED
    BY <1>1, <1>2, <1>3 DEF PageStep

\* The steps of the two nodes' handlers.
LEMMA PinTypeHandlers ==
    ASSUME PinTypeOK, CountsOK, NEW k \in Cred, PeerStep(k) \/ OurStep(k) \/ DoneThere(k)
    PROVE  PinTypeOK' /\ CountsOK'
  <1>1. 0 \in Count /\ 0 \in Report /\ NoTries \in Report
    BY CredsAreCounted, PinLimitsAreNat DEF Count, Report
  <1>2. cred[k].count \in Count /\ cred[k].report \in Report
    BY DEF PinTypeOK
  <1>3. PinTries - cred[k].count \in Report
    BY <1>2, CredsAreCounted, PinLimitsAreNat DEF Count, Report
  <1> DEFINE moved(a) == [cred[k] EXCEPT !.at = a]
             reset(a) == [moved(a) EXCEPT !.count = 0]
  <1>Moved. \A a \in CredStep : moved(a) \in CredType
    BY CredTyped, FieldsOfCred
  <1>Reset. \A a \in CredStep : reset(a) \in CredType
    BY <1>1, <1>Moved, FieldsOfCred
  <1>4. CASE CountAttempt(k)
    <2> DEFINE after == IF passed THEN moved("ended") ELSE [moved("counted") EXCEPT !.count = attempts']
    <2>0. cred' = [cred EXCEPT ![k] = after] /\ after.at \notin {"none", "proposed"}
      <3>1. cred' = [cred EXCEPT ![k] = after]
        BY <1>4 DEF CountAttempt
      <3>2. moved("ended").at = "ended" /\ moved("counted").at = "counted"
        BY CredTyped DEF CredType
      <3>3. after.at \notin {"none", "proposed"}
        <4>1. CASE passed
          BY <3>2, <4>1
        <4>2. CASE ~passed
          <5>1. after = [moved("counted") EXCEPT !.count = attempts']
            BY <4>2
          <5>2. moved("counted") \in CredType
            BY <1>Moved DEF CredStep
          <5>3. after.at = moved("counted").at
            BY <5>1, <5>2 DEF CredType
          <5>4. QED
            BY <3>2, <5>3
        <4>3. QED
          BY <4>1, <4>2
      <3>4. QED
        BY <3>1, <3>3
    <2>1. /\ Cardinality(Counted) \in Nat
          /\ Cardinality(Counted') = Cardinality(Counted) + 1
          /\ Cardinality(Counted') <= Cardinality(Cred)
      BY <1>4, <2>0, CountedGrows DEF CountAttempt
    <2>2. attempts \in Nat /\ attempts <= Cardinality(Counted)
      BY CredsAreCounted DEF PinTypeOK, CountsOK, Count
    <2>3. CountsOK' /\ attempts' \in Count
      BY <1>4, <2>1, <2>2, CredsAreCounted DEF CountAttempt, CountsOK, Count
    <2>4. cred' \in [Cred -> CredType]
      <3>1. moved("counted") \in CredType /\ moved("ended") \in CredType
        BY <1>Moved DEF CredStep
      <3>2. after \in CredType
        BY <3>1, <2>3, FieldsOfCred
      <3>3. QED
        BY <2>0, <3>2, CredMoves
    <2>5. QED
      BY <1>4, <2>3, <2>4 DEF CountAttempt, PinTypeOK, CredType, CredStep
  <1>5. CASE RefuseAttempt(k) \/ RejectPin(k)
    <2>1. Counted' = Counted
      BY <1>5 DEF RefuseAttempt, RejectPin, Tell, Counted, PinTypeOK
    <2>2. CountsOK'
      BY <1>5, <2>1, CountsKept DEF RefuseAttempt, RejectPin
    <2>3. cred' \in [Cred -> CredType]
      <3>1. PICK n \in Report : Tell(k, n)
        BY <1>1, <1>3, <1>5 DEF RefuseAttempt, RejectPin
      <3>2. reset("reported") \in CredType
        BY <1>Reset DEF CredStep
      <3>3. [reset("reported") EXCEPT !.report = n] \in CredType
        BY <3>2, FieldsOfCred
      <3>4. cred' = [cred EXCEPT ![k] = [reset("reported") EXCEPT !.report = n]]
        BY <3>1, CredTyped DEF Tell
      <3>5. QED
        BY <3>3, <3>4, CredMoves
    <2>4. QED
      BY <1>1, <1>5, <2>2, <2>3 DEF RefuseAttempt, RejectPin, PinTypeOK, CredType, CredStep
  <1>6. CASE AcceptPin(k) \/ ReportHandled(k) \/ DoneHere(k) \/ DoneThere(k)
    <2>1. Counted' = Counted
      BY <1>6 DEF AcceptPin, ReportHandled, DoneHere, DoneThere, Counted, PinTypeOK
    <2>2. CountsOK'
      BY <1>6, <2>1, CountsKept DEF AcceptPin, ReportHandled, DoneHere, DoneThere
    <2>3. cred' \in [Cred -> CredType]
      <3> DEFINE told == [moved("ended") EXCEPT !.report = NoTries]
      <3>1. /\ moved("ended") \in CredType /\ moved("heard") \in CredType
            /\ reset("offered") \in CredType
        BY <1>Moved, <1>Reset DEF CredStep
      <3>2. told \in CredType
        BY <3>1, <1>1, FieldsOfCred
      <3>3. \/ cred' = [cred EXCEPT ![k] = moved("ended")]
            \/ cred' = [cred EXCEPT ![k] = moved("heard")]
            \/ cred' = [cred EXCEPT ![k] = reset("offered")]
            \/ cred' = [cred EXCEPT ![k] = told]
        BY <1>6, CredTyped DEF AcceptPin, ReportHandled, DoneHere, DoneThere
      <3>4. QED
        BY <3>1, <3>2, <3>3, CredMoves
    <2>4. QED
      BY <1>2, <1>6, <2>2, <2>3
         DEF AcceptPin, ReportHandled, DoneHere, DoneThere, PinTypeOK, CredType, CredStep
  <1>7. QED
    BY <1>4, <1>5, <1>6 DEF PeerStep, OurStep

LEMMA PinTypeNext ==
    PinTypeOK /\ CountsOK /\ [PinNext]_pinVars => PinTypeOK' /\ CountsOK'
  <1> SUFFICES ASSUME PinTypeOK, CountsOK, [PinNext]_pinVars
               PROVE  PinTypeOK' /\ CountsOK'
    OBVIOUS
  <1>1. CASE UNCHANGED pinVars
    BY <1>1 DEF pinVars, PinTypeOK, CountsOK, Counted
  <1>2. CASE PinNext
    BY <1>2, PinTypePage, PinTypeHandlers DEF PinNext
  <1>3. QED
    BY <1>1, <1>2

\* Every variable keeps its type, for any number of pages and submissions: in
\* particular no exchange is counted twice, although handlers overlap.
THEOREM PinTypes == PinSpec => []PinTypeOK
  <1>1. PinTypeOK /\ CountsOK => PinTypeOK
    OBVIOUS
  <1>2. QED
    BY <1>1, PinTypeInit, PinTypeNext, PTL DEF PinSpec

-----------------------------------------------------------------------------
(* "Maximum number of attempts" (hypothesis: the limit is not above the      *)
(* number that remaining tries are counted from, as with the default of 5).  *)

\* A page's own steps: what is shown is what the row says, or no error.
LEMMA MaximumPage ==
    ASSUME PinTypeOK, ZeroIsLocked, MaximumIsReached, NEW p \in Page, ReadRow(p) \/ PageStep(p)
    PROVE  ZeroIsLocked' /\ MaximumIsReached'
  <1>1. CASE ReadRow(p)
    BY <1>1 DEF ReadRow, PinTypeOK, ZeroIsLocked, MaximumIsReached, Closed
  <1>2. CASE ProposeFails(p) \/ TimesOut(p)
    BY SMTT(20), <1>2 DEF ProposeFails, TimesOut, Show, PinTypeOK, ZeroIsLocked, MaximumIsReached
  <1>3. CASE Poll(p)
    <2>1. CheckDb(page[p].initial) = "error" => tries = 0
      BY DEF CheckDb
    <2>2. tries = 0 => locked
      BY PinNullsAreNotValues DEF ZeroIsLocked
    <2>3. ZeroIsLocked'
      BY <1>3 DEF Poll, ZeroIsLocked
    <2>4. ASSUME NEW q \in Page, page'[q].shown = "error" PROVE locked'
      BY <1>3, <2>1, <2>2, <2>4 DEF Poll, Show, PinTypeOK, MaximumIsReached
    <2>5. QED
      BY <2>3, <2>4 DEF MaximumIsReached
  <1>4. CASE \E k \in Cred, pin \in {"right", "wrong"} : Propose(p, k, pin)
    <2>1. PICK k \in Cred, pin \in {"right", "wrong"} : Propose(p, k, pin)
      BY <1>4
    <2>2. \A j \in Cred : cred'[j].at = "reported" =>
             cred[j].at = "reported" /\ cred'[j].report = cred[j].report
      BY <2>1, CredTyped DEF CredType, Propose
    <2>3. \A q \in Page : page'[q].shown = page[q].shown
      <3> DEFINE b == page[p].alone /\ Open = {} /\ ~verified
      <3>1. page' = [q \in Page |->
                       IF q = p THEN [page[p] EXCEPT !.at = "polling", !.cred = k, !.alone = b]
                       ELSE [page[q] EXCEPT !.alone = FALSE]]
        BY <2>1 DEF Propose
      <3> HIDE DEF b
      <3>2. QED
        BY <3>1, PagesOK DEF PageType
    <2>4. UNCHANGED <<tries, locked>>
      BY <2>1 DEF Propose
    <2>5. QED
      BY <2>2, <2>3, <2>4 DEF ZeroIsLocked, MaximumIsReached
  <1>5. QED
    BY <1>1, <1>2, <1>3, <1>4 DEF PageStep

\* The handlers: a count below the limit leaves tries over.
LEMMA MaximumHandlers ==
    ASSUME PinLimit <= PinTries, PinTypeOK, ZeroIsLocked, MaximumIsReached, NEW k \in Cred,
           PeerStep(k) \/ OurStep(k) \/ DoneThere(k)
    PROVE  ZeroIsLocked' /\ MaximumIsReached'
  <1>1. MaximumIsReached'
    BY DEF PeerStep, OurStep, CountAttempt, RefuseAttempt, RejectPin, AcceptPin, ReportHandled,
           DoneHere, DoneThere, MaximumIsReached
  <1>2. CASE CountAttempt(k) \/ AcceptPin(k) \/ DoneHere(k) \/ DoneThere(k)
    <2>1. \A j \in Cred : cred'[j].at = "reported" =>
             cred[j].at = "reported" /\ cred'[j].report = cred[j].report
      BY <1>2, CredTyped DEF CredType, CountAttempt, AcceptPin, DoneHere, DoneThere
    <2>2. UNCHANGED <<tries, locked>>
      BY <1>2 DEF CountAttempt, AcceptPin, DoneHere, DoneThere
    <2>3. QED
      BY <1>1, <2>1, <2>2 DEF ZeroIsLocked
  <1>3. CASE RefuseAttempt(k)
    <2>1. locked'
      BY <1>3 DEF RefuseAttempt
    <2>2. QED
      BY <1>1, <2>1 DEF ZeroIsLocked
  <1>4. CASE RejectPin(k)
    <2>1. ~locked => PinTries - cred[k].count > 0
      BY <1>4, CredsAreCounted, PinLimitsAreNat DEF RejectPin, PinTypeOK, Count
    <2>2. UNCHANGED <<tries, locked>>
      BY <1>4 DEF RejectPin
    <2>3. ~locked => \A j \in Cred : cred'[j].at = "reported" =>
             \/ cred[j].at = "reported" /\ cred'[j].report = cred[j].report
             \/ cred'[j].report = PinTries - cred[k].count
      BY <1>4, CredTyped DEF CredType, RejectPin, Tell
    <2>4. QED
      BY <1>1, <2>1, <2>2, <2>3 DEF ZeroIsLocked
  <1>5. CASE ReportHandled(k)
    <2>1. /\ cred[k].at = "reported" /\ tries' = cred[k].report /\ locked' = locked
      BY <1>5 DEF ReportHandled
    <2>2. \A j \in Cred : cred'[j].at = "reported" =>
             cred[j].at = "reported" /\ cred'[j].report = cred[j].report
      BY <1>5, CredTyped DEF CredType, ReportHandled
    <2>3. QED
      BY <1>1, <2>1, <2>2 DEF ZeroIsLocked
  <1>6. QED
    BY <1>1, <1>2, <1>3, <1>4, <1>5 DEF PeerStep, OurStep

\* "Maximum number of pin attempts has been reached" is shown only when the peer
\* has locked its invitations, for any number of pages and submissions, where
\* INVITATION_PIN_ATTEMPT_LIMIT is at most the 5 of the problem reports.
THEOREM MaximumIsReachedHolds ==
    ASSUME PinLimit <= PinTries
    PROVE  PinSpec => []MaximumIsReached
  <1> DEFINE Inv == PinTypeOK /\ CountsOK /\ ZeroIsLocked /\ MaximumIsReached
  <1>1. PinInit => Inv
    <2>1. PinInit => ZeroIsLocked /\ MaximumIsReached
      BY DEF PinInit, ZeroIsLocked, MaximumIsReached, Unused, Closed
    <2>2. QED
      BY <2>1, PinTypeInit
  <1>2. Inv /\ [PinNext]_pinVars => Inv'
    <2> SUFFICES ASSUME Inv, [PinNext]_pinVars PROVE Inv'
      OBVIOUS
    <2>1. PinTypeOK' /\ CountsOK'
      BY PinTypeNext
    <2>2. CASE PinNext
      BY <2>1, <2>2, MaximumPage, MaximumHandlers DEF PinNext
    <2>3. CASE UNCHANGED pinVars
      BY <2>1, <2>3 DEF pinVars, ZeroIsLocked, MaximumIsReached
    <2>4. QED
      BY <2>2, <2>3
  <1>3. Inv => MaximumIsReached
    OBVIOUS
  <1>4. QED
    BY <1>1, <1>2, <1>3, PTL DEF PinSpec

-----------------------------------------------------------------------------
(* A submission's own outcome (hypothesis: remaining tries are not counted   *)
(* from more than the limit, as with the default of 5).                      *)

\* A handler's step is about one exchange, and leaves its PIN alone.
LEMMA HandlerFrame ==
    ASSUME PinTypeOK, NEW k \in Cred, PeerStep(k) \/ OurStep(k) \/ DoneThere(k)
    PROVE  /\ page' = page
           /\ \A j \in Cred : j # k => cred'[j] = cred[j]
           /\ cred'[k].pin = cred[k].pin /\ cred'[k].at # "none" /\ cred[k].at # "none"
  <1> USE CredTyped DEF CredType
  <1>1. CASE CountAttempt(k)
    BY <1>1 DEF CountAttempt
  <1>2. CASE RefuseAttempt(k) \/ RejectPin(k) \/ AcceptPin(k)
    BY <1>2 DEF RefuseAttempt, RejectPin, AcceptPin, Tell
  <1>3. CASE ReportHandled(k) \/ DoneHere(k) \/ DoneThere(k)
    BY <1>3 DEF ReportHandled, DoneHere, DoneThere
  <1>4. QED
    BY <1>1, <1>2, <1>3 DEF PeerStep, OurStep

\* What each handler makes of the exchange and of the two rows.
LEMMA HandlerEffect ==
    ASSUME PinTypeOK, NEW k \in Cred
    PROVE  /\ CountAttempt(k) =>
                /\ cred[k].at = "proposed"
                /\ passed => cred'[k].at = "ended" /\ attempts' = attempts
                /\ ~passed => /\ cred'[k].at = "counted" /\ attempts' = attempts + 1
                              /\ cred'[k].count = attempts + 1
                /\ UNCHANGED <<tries, verified, locked, passed>>
           /\ RefuseAttempt(k) =>
                /\ cred[k].at = "counted" /\ cred[k].count >= PinLimit
                /\ cred'[k].at = "reported" /\ cred'[k].report = PinTries - cred[k].count
                /\ locked' /\ UNCHANGED <<tries, verified, passed>>
           /\ RejectPin(k) =>
                /\ cred[k].at = "counted" /\ (locked \/ cred[k].pin = "wrong")
                /\ cred'[k].at = "reported"
                /\ locked => cred'[k].report = 0
                /\ ~locked => cred'[k].report = PinTries - cred[k].count
                /\ UNCHANGED <<tries, verified, attempts, locked, passed>>
           /\ AcceptPin(k) =>
                /\ cred[k].at = "counted" /\ cred[k].pin = "right" /\ cred'[k].at = "offered"
                /\ UNCHANGED <<tries, verified, attempts, locked, passed>>
           /\ ReportHandled(k) =>
                /\ cred[k].at = "reported" /\ cred'[k].at = "ended" /\ tries' = cred[k].report
                /\ UNCHANGED <<verified, attempts, locked, passed>>
           /\ DoneHere(k) =>
                /\ cred[k].at = "offered" /\ cred'[k].at = "heard" /\ verified'
                /\ UNCHANGED <<tries, attempts, locked, passed>>
           /\ DoneThere(k) =>
                /\ cred[k].at = "heard" /\ cred'[k].at = "ended" /\ passed'
                /\ UNCHANGED <<tries, verified, attempts, locked>>
  <1> USE CredTyped DEF CredType
  <1>1. ASSUME CountAttempt(k)
        PROVE  /\ cred[k].at = "proposed"
               /\ passed => cred'[k].at = "ended" /\ attempts' = attempts
               /\ ~passed => /\ cred'[k].at = "counted" /\ attempts' = attempts + 1
                             /\ cred'[k].count = attempts + 1
               /\ UNCHANGED <<tries, verified, locked, passed>>
    BY <1>1 DEF CountAttempt
  <1>2. QED
    BY <1>1 DEF RefuseAttempt, RejectPin, AcceptPin, Tell, ReportHandled, DoneHere, DoneThere

\* What a page's step leaves alone.
LEMMA PageFrame ==
    ASSUME PinTypeOK, NEW p \in Page, ReadRow(p) \/ PageStep(p)
    PROVE  /\ UNCHANGED <<tries, verified, attempts, locked, passed>>
           /\ \A j \in Cred : cred'[j].at # "proposed" => cred'[j] = cred[j]
           /\ \A q \in Page : q # p =>
                page'[q] = page[q] \/ (page'[q].at = page[q].at /\ page'[q].alone = FALSE)
  <1> USE CredTyped DEF CredType
  <1>1. CASE ReadRow(p)
    <2>1. \E rec : page' = [page EXCEPT ![p] = rec]
      BY <1>1 DEF ReadRow
    <2>2. \A q \in Page : q # p => page'[q] = page[q]
      BY <2>1, PagesOK
    <2>3. UNCHANGED <<cred, tries, verified, attempts, locked, passed>>
      BY <1>1 DEF ReadRow
    <2>4. QED
      BY <2>2, <2>3
  <1>2. CASE ProposeFails(p) \/ Poll(p) \/ TimesOut(p)
    <2>1. PICK what : Show(p, what)
      BY <1>2 DEF ProposeFails, Poll, TimesOut
    <2>2. \A q \in Page : q # p => page'[q] = page[q]
      BY <2>1, PagesOK DEF Show
    <2>3. UNCHANGED <<cred, tries, verified, attempts, locked, passed>>
      BY <1>2 DEF ProposeFails, Poll, TimesOut
    <2>4. QED
      BY <2>2, <2>3
  <1>3. CASE \E k \in Cred, pin \in {"right", "wrong"} : Propose(p, k, pin)
    <2>1. PICK k \in Cred, pin \in {"right", "wrong"} : Propose(p, k, pin)
      BY <1>3
    <2>2. UNCHANGED <<tries, verified, attempts, locked, passed>>
      BY <2>1 DEF Propose
    <2>3. \A j \in Cred : cred'[j].at # "proposed" => cred'[j] = cred[j]
      BY <2>1, CredTyped DEF Propose, CredType
    <2>4. \A q \in Page : q # p => page'[q] = [page[q] EXCEPT !.alone = FALSE]
      BY <2>1 DEF Propose
    <2>5. ASSUME NEW q \in Page, q # p
          PROVE  page'[q].at = page[q].at /\ page'[q].alone = FALSE
      <3>1. page[q] \in PageType
        BY PagesOK
      <3>2. QED
        BY <2>4, <2>5, <3>1 DEF PageType
    <2>6. QED
      BY <2>2, <2>3, <2>5
  <1>4. QED
    BY <1>1, <1>2, <1>3 DEF PageStep

\* Numbers are not the null.
LEMMA TriesAreNumbers ==
    ASSUME PinTypeOK
    PROVE  /\ attempts \in Nat /\ tries \in Int \cup {NoTries}
           /\ \A k \in Cred : cred[k].count \in Nat /\ cred[k].report \in Int \cup {NoTries}
           /\ \A p \in Page : page[p].initial \in Int \cup {NoTries}
           /\ \A n \in Int : n # NoTries
  BY CredsAreCounted, PinNullsAreNotValues, PinLimitsAreNat DEF PinTypeOK, Count, Report

\* Offers and the peer's count: the steps of a page.
LEMMA BehindPage ==
    ASSUME PinTypeOK, OffersOK, BehindOK, NEW p \in Page, ReadRow(p) \/ PageStep(p)
    PROVE  OffersOK' /\ BehindOK'
  BY PageFrame DEF OffersOK, BehindOK

\* ... and of the handlers.
LEMMA BehindHandlers ==
    ASSUME PinTypeOK, OffersOK, BehindOK, NEW k \in Cred, PeerStep(k) \/ OurStep(k) \/ DoneThere(k)
    PROVE  OffersOK' /\ BehindOK'
  <1> USE HandlerFrame, HandlerEffect, TriesAreNumbers, PinLimitsAreNat DEF OffersOK, BehindOK
  <1>1. CASE CountAttempt(k)
    BY <1>1
  <1>2. CASE RefuseAttempt(k)
    BY <1>2
  <1>3. CASE RejectPin(k)
    <2>1. cred'[k].report # NoTries /\ (~locked => cred'[k].report >= PinTries - attempts)
      <3>1. CASE locked
        <4>1. cred'[k].report = 0
          BY <1>3, <3>1
        <4>2. QED
          BY <3>1, <4>1
      <3>2. CASE ~locked
        BY <1>3, <3>2
      <3>3. QED
        BY <3>1, <3>2
    <2>2. UNCHANGED <<tries, verified, attempts, locked, passed>> /\ cred'[k].at = "reported"
      BY <1>3
    <2>3. OffersOK'
      BY <2>1, <2>2
    <2>4. BehindOK'
      BY <2>1, <2>2
    <2>5. QED
      BY <2>3, <2>4
  <1>4. CASE AcceptPin(k)
    BY <1>4
  <1>5. CASE ReportHandled(k)
    BY <1>5
  <1>6. CASE DoneHere(k) \/ DoneThere(k)
    BY <1>6
  <1>7. QED
    BY <1>1, <1>2, <1>3, <1>4, <1>5, <1>6 DEF PeerStep, OurStep

\* A page that reads or polls alone, while a handler runs for one exchange.
LEMMA AloneHandlers ==
    ASSUME PinTries <= PinLimit, PinTypeOK, OffersOK, BehindOK, NEW k \in Cred,
           PeerStep(k) \/ OurStep(k) \/ DoneThere(k), AloneOK
    PROVE  AloneOK'
  <1> SUFFICES ASSUME NEW p \in Page, page'[p].alone
               PROVE  /\ page'[p].at = "read" => ReadsAlone(p)'
                      /\ page'[p].at = "polling" => PollsAlone(p)'
    BY DEF AloneOK
  <1> USE HandlerFrame, HandlerEffect
  <1>1. page' = page /\ page[p].alone
    OBVIOUS
  <1>2. k \in Open \/ (DoneThere(k) /\ k \notin Open)
    BY DEF PeerStep, OurStep, Open
  <1>3. Open' \subseteq Open
    BY <1>2 DEF Open, PeerStep, OurStep
  <1>4. ASSUME page[p].at = "read" PROVE ReadsAlone(p)'
    <2>1. ReadsAlone(p)
      BY <1>1, <1>4 DEF AloneOK
    <2>2. DoneThere(k)
      BY <1>2, <2>1 DEF ReadsAlone
    <2>3. QED
      BY <1>1, <1>3, <2>1, <2>2 DEF ReadsAlone, Readable
  <1>5. ASSUME page[p].at = "polling" PROVE PollsAlone(p)'
    <2> DEFINE c == page[p].cred
    <2>1. PollsAlone(p)
      BY <1>1, <1>5 DEF AloneOK
    <2>2. c \in Cred /\ cred[c].at # "none" /\ Open \subseteq {c}
      BY <2>1 DEF PollsAlone
    <2>3. cred'[c].at # "none" /\ cred'[c].pin = cred[c].pin /\ Open' \subseteq {c}
      BY <1>3, <2>2
    <2>4. CASE k # c
      <3>1. DoneThere(k)
        BY <1>2, <2>2, <2>4
      <3>2. cred'[c] = cred[c] /\ UNCHANGED <<tries, verified, locked>>
        BY <2>2, <2>4, <3>1
      <3>3. c \in Open' <=> c \in Open
        BY <3>2 DEF Open
      <3>4. QED
        BY <1>1, <2>1, <2>2, <2>3, <3>2, <3>3 DEF PollsAlone, News
    <2>5. CASE k = c
      <3>1. c \in Open <=> ~DoneThere(c)
        BY <2>5, <1>2 DEF Open
      <3> USE <1>1, <2>1, <2>2, <2>3, <2>5, <3>1, TriesAreNumbers, PinLimitsAreNat
      <3>2. CASE CountAttempt(c)
        <4>1. ~passed /\ ~verified
          BY <3>2 DEF PollsAlone, OffersOK, Open
        <4>2. cred'[c].at = "counted" /\ cred'[c].count = attempts + 1 /\ UNCHANGED <<tries, verified, locked>>
          BY <3>2, <4>1
        <4>3. locked \/ tries = NoTries \/ PinTries - cred'[c].count < tries
          BY <4>2 DEF BehindOK
        <4>4. c \in Open /\ tries = page[p].initial
          BY <3>2 DEF PollsAlone, Open
        <4>5. QED
          BY <4>1, <4>2, <4>3, <4>4 DEF PollsAlone
      <3>3. CASE RefuseAttempt(c)
        <4>1. News(p, cred'[c].report)
          BY <3>3 DEF News
        <4>2. QED
          BY <3>3, <4>1 DEF PollsAlone, News, Open
      <3>4. CASE RejectPin(c)
        <4>1. News(p, cred'[c].report)
          BY <3>4 DEF News, PollsAlone
        <4>2. QED
          BY <3>4, <4>1 DEF PollsAlone, News, Open
      <3>5. CASE AcceptPin(c)
        BY <3>5 DEF PollsAlone, Open
      <3>6. CASE ReportHandled(c)
        BY <3>6 DEF PollsAlone, News, Open
      <3>7. CASE DoneHere(c)
        BY <3>7 DEF PollsAlone, OffersOK, Open
      <3>8. CASE DoneThere(c)
        BY <3>8 DEF PollsAlone, News, Open
      <3>9. QED
        BY <3>2, <3>3, <3>4, <3>5, <3>6, <3>7, <3>8 DEF PeerStep, OurStep
    <2>6. QED
      BY <2>4, <2>5
  <1>6. QED
    BY <1>1, <1>4, <1>5

\* A page's own steps.
LEMMA AlonePage ==
    ASSUME PinTypeOK, AloneOK, NEW p \in Page, ReadRow(p) \/ PageStep(p)
    PROVE  AloneOK'
  <1> SUFFICES ASSUME NEW q \in Page, page'[q].alone
               PROVE  /\ page'[q].at = "read" => ReadsAlone(q)'
                      /\ page'[q].at = "polling" => PollsAlone(q)'
    BY DEF AloneOK
  <1>1. CASE q # p
    <2>1. page'[q] = page[q] /\ UNCHANGED <<tries, verified, attempts, locked, passed>>
      BY <1>1, PageFrame
    <2>2. UNCHANGED cred
      <3>1. ASSUME NEW k \in Cred, NEW pin \in {"right", "wrong"}, Propose(p, k, pin) PROVE FALSE
        <4>1. page'[q] = [page[q] EXCEPT !.alone = FALSE] /\ page[q] \in PageType
          BY <1>1, <3>1, PagesOK DEF Propose
        <4>2. QED
          BY <4>1 DEF PageType
      <3>2. ReadRow(p) \/ ProposeFails(p) \/ Poll(p) \/ TimesOut(p)
        BY <3>1 DEF PageStep
      <3>3. QED
        BY <3>2 DEF ReadRow, ProposeFails, Poll, TimesOut
    <2>3. QED
      BY <2>1, <2>2 DEF AloneOK, ReadsAlone, PollsAlone, News, Open, Readable
  <1>2. CASE q = p /\ ReadRow(p)
    <2>1. page'[p].at = "read" => /\ Open = {} /\ page'[p].cred = NoCred
                                  /\ page'[p].initial = tries /\ Readable
      BY <1>2, PagesOK DEF ReadRow, Closed
    <2>2. page'[p].at # "polling"
      BY <1>2, PagesOK DEF ReadRow, Closed
    <2>3. QED
      BY <1>2, <2>1, <2>2 DEF ReadsAlone, Open, Readable, ReadRow
  <1>3. CASE q = p /\ (ProposeFails(p) \/ Poll(p) \/ TimesOut(p))
    <2>1. page'[p].at = "shown"
      BY <1>3, PagesOK DEF PageType, ProposeFails, Poll, TimesOut, Show
    <2>2. QED
      BY <1>3, <2>1
  <1>4. CASE q = p /\ \E k \in Cred, pin \in {"right", "wrong"} : Propose(p, k, pin)
    <2>1. PICK k \in Cred, pin \in {"right", "wrong"} : Propose(p, k, pin)
      BY <1>4
    <2> DEFINE b == page[p].alone /\ Open = {} /\ ~verified
    <2>2. page' = [r \in Page |->
                     IF r = p THEN [page[p] EXCEPT !.at = "polling", !.cred = k, !.alone = b]
                     ELSE [page[r] EXCEPT !.alone = FALSE]]
      BY <2>1 DEF Propose
    <2>3. page[p].at = "read" /\ UNCHANGED <<tries, verified>>
      BY <2>1 DEF Propose
    <2>4. /\ page'[p].at = "polling" /\ page'[p].cred = k /\ page'[p].alone = b
          /\ page'[p].initial = page[p].initial
      <3> HIDE DEF b
      <3>1. page[p] \in PageType
        BY PagesOK
      <3>2. QED
        BY <2>2, <3>1 DEF PageType
    <2>5. b
      BY <1>4, <2>4
    <2>6. ReadsAlone(p)
      BY <2>3, <2>5 DEF AloneOK
    <2>7. cred'[k].at = "proposed" /\ \A j \in Cred : j # k => cred'[j] = cred[j]
      BY <2>1, CredTyped DEF Propose, CredType
    <2>8. Open' = {k}
      BY <2>5, <2>7 DEF Open
    <2>9. PollsAlone(p)'
      BY <2>3, <2>4, <2>5, <2>6, <2>7, <2>8, TriesAreNumbers DEF PollsAlone, ReadsAlone, Readable
    <2>10. QED
      BY <1>4, <2>4, <2>9
  <1>5. QED
    BY <1>1, <1>2, <1>3, <1>4 DEF PageStep

\* What a page that polled alone shows is about its own PIN.
LEMMA OutcomePage ==
    ASSUME PinTypeOK, AloneOK, OutcomeIsOwn, NEW p \in Page, ReadRow(p) \/ PageStep(p)
    PROVE  OutcomeIsOwn'
  <1> DEFINE Own(q) == CASE page[q].shown = "success" -> cred[page[q].cred].pin = "right"
                         [] page[q].shown = "form"    -> cred[page[q].cred].pin = "wrong"
                         [] page[q].shown = "failed"  -> FALSE
                         [] OTHER -> TRUE
  <1> SUFFICES ASSUME NEW q \in Page, page'[q].alone, page'[q].at = "shown", page'[q].cred # NoCred
               PROVE  Own(q)'
    BY DEF OutcomeIsOwn
  <1>1. CASE q # p \/ \E k \in Cred, pin \in {"right", "wrong"} : Propose(p, k, pin)
    <2>1. ASSUME NEW k \in Cred, NEW pin \in {"right", "wrong"}, Propose(p, k, pin) PROVE FALSE
      <3> DEFINE b == page[p].alone /\ Open = {} /\ ~verified
      <3>1. page' = [r \in Page |->
                       IF r = p THEN [page[p] EXCEPT !.at = "polling", !.cred = k, !.alone = b]
                       ELSE [page[r] EXCEPT !.alone = FALSE]]
        BY <2>1 DEF Propose
      <3> HIDE DEF b
      <3>2. page[q] \in PageType /\ page[p] \in PageType
        BY PagesOK
      <3>3. QED
        BY <3>1, <3>2 DEF PageType
    <2>2. ReadRow(p) \/ ProposeFails(p) \/ Poll(p) \/ TimesOut(p)
      BY <2>1 DEF PageStep
    <2>3. q # p /\ page'[q] = page[q]
      BY <1>1, <2>1, PageFrame
    <2>4. UNCHANGED cred
      BY <2>2 DEF ReadRow, ProposeFails, Poll, TimesOut
    <2>5. QED
      BY <2>3, <2>4 DEF OutcomeIsOwn
  <1>2. CASE q = p /\ ReadRow(p)
    BY <1>2, PagesOK DEF ReadRow, Closed
  <1>3. CASE q = p /\ (ProposeFails(p) \/ Poll(p) \/ TimesOut(p))
    <2>1. PICK what : Show(p, what) /\ (what \in {"failed", "timeout"} \/ Poll(p))
      BY <1>3 DEF ProposeFails, Poll, TimesOut
    <2>2. /\ page'[p].shown = what /\ page'[p].cred = page[p].cred
          /\ page'[p].alone = page[p].alone /\ cred' = cred
      BY <1>3, <2>1, PagesOK DEF Show, PageType, ProposeFails, Poll, TimesOut
    <2>3. CASE ProposeFails(p)
      BY <1>3, <2>2, <2>3 DEF ProposeFails, AloneOK, ReadsAlone
    <2>4. CASE TimesOut(p)
      <3>1. page'[p].shown = "timeout"
        BY <2>4, PagesOK DEF TimesOut, Show, PageType
      <3>2. QED
        BY <1>3, <3>1
    <2>5. CASE Poll(p)
      <3>1. page'[p].shown = CheckDb(page[p].initial)
        BY <2>5, PagesOK DEF Poll, Show, PageType
      <3>2. PollsAlone(p)
        BY <1>3, <2>2, <2>5 DEF AloneOK, Poll
      <3>3. CASE verified
        <4>1. CheckDb(page[p].initial) \in {"success", "unreadable"}
          BY <3>3 DEF CheckDb
        <4>2. QED
          BY <1>3, <2>2, <3>1, <3>2, <3>3, <4>1 DEF PollsAlone
      <3>4. CASE ~verified
        <4>1. tries = page[p].initial \/ News(p, tries)
          BY <3>2, <3>4 DEF PollsAlone
        <4>2. CheckDb(page[p].initial) \notin {"success", "failed"}
          BY <3>4, <4>1, TriesAreNumbers DEF CheckDb, News, Readable
        <4>3. CheckDb(page[p].initial) = "form" => cred[page[p].cred].pin = "wrong"
          BY <3>4, <4>1, TriesAreNumbers DEF CheckDb, News, Readable
        <4>4. QED
          BY <1>3, <2>2, <3>1, <4>2, <4>3
      <3>5. QED
        BY <3>3, <3>4
    <2>6. QED
      BY <1>3, <2>3, <2>4, <2>5
  <1>4. QED
    BY <1>1, <1>2, <1>3 DEF PageStep

\* A page shows the outcome of its own submission, where no other submission was
\* under way: for any number of pages and submissions, where the 5 of the problem
\* reports is at most INVITATION_PIN_ATTEMPT_LIMIT.
THEOREM OutcomeIsOwnHolds ==
    ASSUME PinTries <= PinLimit
    PROVE  PinSpec => []OutcomeIsOwn
  <1> DEFINE Inv == /\ PinTypeOK /\ CountsOK /\ OffersOK /\ BehindOK /\ AloneOK
                    /\ OutcomeIsOwn
  <1>1. PinInit => Inv
    <2> SUFFICES ASSUME PinInit PROVE Inv
      OBVIOUS
    <2>1. PinTypeOK /\ CountsOK
      BY PinTypeInit
    <2>2. OffersOK /\ BehindOK
      BY DEF PinInit, OffersOK, BehindOK, Unused
    <2>3. AloneOK /\ OutcomeIsOwn
      BY DEF PinInit, AloneOK, OutcomeIsOwn, Closed
    <2>4. QED
      BY <2>1, <2>2, <2>3
  <1>2. Inv /\ [PinNext]_pinVars => Inv'
    <2> SUFFICES ASSUME Inv, [PinNext]_pinVars PROVE Inv'
      OBVIOUS
    <2>1. PinTypeOK' /\ CountsOK'
      BY PinTypeNext
    <2>2. ASSUME NEW p \in Page, ReadRow(p) \/ PageStep(p) PROVE Inv'
      BY <2>1, <2>2, BehindPage, AlonePage, OutcomePage
    <2>3. ASSUME NEW k \in Cred, PeerStep(k) \/ OurStep(k) \/ DoneThere(k) PROVE Inv'
      <3>1. OffersOK' /\ BehindOK'
        BY <2>3, BehindHandlers
      <3>2. AloneOK'
        BY <2>3, AloneHandlers
      <3>3. page' = page /\ \A j \in Cred : cred'[j].pin = cred[j].pin
        BY <2>3, HandlerFrame
      <3>4. \A q \in Page : page[q].cred # NoCred => page[q].cred \in Cred
        BY PagesOK DEF PageType
      <3>5. OutcomeIsOwn'
        BY <3>3, <3>4 DEF OutcomeIsOwn
      <3>6. QED
        BY <2>1, <3>1, <3>2, <3>5
    <2>4. CASE UNCHANGED pinVars
      BY <2>1, <2>4 DEF pinVars, OffersOK, BehindOK, AloneOK, OutcomeIsOwn, ReadsAlone, PollsAlone,
                        News, Open, Readable
    <2>5. QED
      BY <2>2, <2>3, <2>4 DEF PinNext
  <1>3. Inv => OutcomeIsOwn
    OBVIOUS
  <1>4. QED
    BY <1>1, <1>2, <1>3, PTL DEF PinSpec
=============================================================================
