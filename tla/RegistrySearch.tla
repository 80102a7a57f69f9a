--------------------------- MODULE RegistrySearch ---------------------------
(***************************************************************************)
(* The search for a company: by its number in a chosen registry, for a new *)
(* invitation, or in every registry of a country, for one received.        *)
(***************************************************************************)
CONSTANT Searcher  \* forms that search, one request at a time each

VARIABLE search

\* getConfiguredRegistries.
Registry == {"company_house", "open_corporates", "ny_state"}
Serves(r) ==
    CASE r = "company_house"   -> {"GB"}
      [] r = "open_corporates" -> {"GB", "NL", "JP"}
      [] r = "ny_state"        -> {"US"}
ThirdParty(r) == r = "open_corporates"

\* Countries with two registries, with one, with a third party's only, without.
Country == {"GB", "US", "NL", "FR"}

\* How a number is written: as Companies House does, or as New York State does.
Number == {"gb", "ny"}

\* What a registry holds on the number that is searched.
Record == {"active", "compliance", "dissolved", "disputed", "absent", "garbled"}

Answer == {"found", "dispute", "inactive", "missing"}
Outcome == {"none", "form", "error", "failed", "accepted"}

NoSearch == [at |-> "none", kind |-> "lookup", country |-> "GB", number |-> "gb", todo |-> {},
             heard |-> [r \in Registry |-> "nothing"], outcome |-> "none"]

SearchTypeOK ==
    \A s \in Searcher :
        search[s] \in [at : {"none", "asking", "answered"}, kind : {"lookup", "decode"},
                       country : Country, number : Number, todo : SUBSET Registry,
                       heard : [Registry -> Answer \cup {"nothing", "failure"}],
                       outcome : Outcome]

SearchInit == search = [s \in Searcher |-> NoSearch]

-----------------------------------------------------------------------------
(* What a registry's record is taken for. *)

\* The schemas: a number or a status they do not know is a company not found,
\* and so is a 404 or an empty list.
Understood(r, number, rec) ==
    CASE r = "company_house"   -> number = "gb" /\ rec \in {"active", "dissolved", "disputed"}
      [] r = "open_corporates" -> number = "gb" /\ rec \in {"active", "compliance"}
      [] r = "ny_state"        -> rec \notin {"absent", "garbled"}

\* lookupCompany: what is wrong with a company that was found.  New York State
\* knows no status, Open Corporates no disputes and a status 'Active/Compliance'.
Judged(r, number, rec) ==
    CASE ~Understood(r, number, rec) -> "missing"
      [] Understood(r, number, rec) /\ r = "company_house" /\ rec = "disputed" -> "dispute"
      [] Understood(r, number, rec) /\ r # "ny_state" /\ rec \in {"dissolved", "compliance"}
           -> "inactive"
      [] OTHER -> "found"

\* decodeInvite: the registries of a country.
Available(country) == {r \in Registry : country \in Serves(r)}

\* Seeded bug: third parties are asked first.
ThirdPartyFirst(todo) ==
    CHOOSE r \in todo : ~ThirdParty(r) => \A q \in todo : ~ThirdParty(q)

\* A country's own registries are asked before those of third parties.
Ordered(todo) == CHOOSE r \in todo : ThirdParty(r) => \A q \in todo : ThirdParty(q)

-----------------------------------------------------------------------------
(* Requests. *)

Begin(s, kind, country, number, todo) ==
    search' = [search EXCEPT ![s] =
        [NoSearch EXCEPT !.at = "asking", !.kind = kind, !.country = country,
                         !.number = number, !.todo = todo]]

End(s, kind, country, number, outcome) ==
    search' = [search EXCEPT ![s] =
        [NoSearch EXCEPT !.at = "answered", !.kind = kind, !.country = country,
                         !.number = number, !.outcome = outcome]]

\* resolveOrganisationRegistry: a registry that does not serve the country is
\* an internal error.
BeginLookup(s, country, number, r) ==
    IF country \in Serves(r) THEN Begin(s, "lookup", country, number, {r})
    ELSE End(s, "lookup", country, number, "failed")

\* verifyCompanyForm: a British number is checked before it is searched.
VerifyCompany(s, country, r, number) ==
    IF country = "GB" /\ number # "gb" THEN End(s, "lookup", country, number, "form")
    ELSE BeginLookup(s, country, number, r)

\* submitNewInvite searches again at every stage of the form.
SubmitCompany(s, country, r, number) == BeginLookup(s, country, number, r)

\* decodeInvite: the text is not an invitation, the number is not one of the
\* country's, or no registry serves it.
RejectInvite(s, country, number) == End(s, "decode", country, number, "error")

DecodeInvite(s, country, number) ==
    IF number # (IF country = "GB" THEN "gb" ELSE "ny") \/ Available(country) = {}
    THEN RejectInvite(s, country, number)
    ELSE Begin(s, "decode", country, number, Available(country))

BeginSearch(s) ==
    \E country \in Country, number \in Number :
        \/ \E r \in Registry : VerifyCompany(s, country, r, number) \/ SubmitCompany(s, country, r, number)
        \/ DecodeInvite(s, country, number)
        \/ RejectInvite(s, country, number)

-----------------------------------------------------------------------------
(* Answers. *)

\* What a registry said, and what is left to do.
Hear(s, answer, todo, outcome) ==
    LET r == Ordered(search[s].todo) IN
    search' = [search EXCEPT ![s] =
        [@ EXCEPT !.heard[r] = answer, !.todo = todo, !.outcome = outcome,
                  !.at = IF todo = {} THEN "answered" ELSE "asking"]]

Asking(s) == search[s].at = "asking"

\* The company is found, active and undisputed: the search is over.
CompanyFound(s, rec) ==
    /\ Asking(s)
    /\ Judged(Ordered(search[s].todo), search[s].number, rec) = "found"
    /\ Hear(s, "found", {}, "accepted")

\* The next registry is asked; after the last one the search ends in error.
GoOn(s, answer) ==
    LET rest == search[s].todo \ {Ordered(search[s].todo)} IN
    Hear(s, answer, rest, IF rest = {} THEN "error" ELSE "none")

CompanyRefused(s, rec) ==
    LET answer == Judged(Ordered(search[s].todo), search[s].number, rec) IN
    /\ Asking(s) /\ answer # "found"
    /\ GoOn(s, answer)

\* Seeded bug: a registry that cannot be reached ends the search.
FailureEndsSearch(s) == /\ Asking(s) /\ Hear(s, "failure", {}, "error")

\* A call that fails is passed over for an invitation, and is the answer to a
\* lookup.
RegistryFails(s) ==
    /\ Asking(s)
    /\ IF search[s].kind = "decode" THEN GoOn(s, "failure")
       ELSE Hear(s, "failure", {}, "failed")

SearchStep(s) ==
    \/ \E rec \in Record : CompanyFound(s, rec) \/ CompanyRefused(s, rec)
    \/ RegistryFails(s)

-----------------------------------------------------------------------------
(* Properties. *)

Decoded(s) == search[s].kind = "decode" /\ search[s].at = "answered"
Asked(s, r) == search[s].heard[r] # "nothing"

\* An invitation with a number of its country is turned away only after each
\* registry of the country was asked: one that is down, or that answers with
\* what its schema does not know, does not hide the next.
EveryRegistryIsAsked ==
    \A s \in Searcher :
        (Decoded(s) /\ search[s].outcome = "error" /\ \E r \in Registry : Asked(s, r))
        => \A n \in Registry : search[s].country \in Serves(n) =>
               Asked(s, n) /\ search[s].heard[n] # "found"

\* The word of a third party is taken only where a registry of the country
\* itself, if there is one, did not find the company in order.
NationalFirst ==
    \A s \in Searcher, r \in Registry :
        Decoded(s) /\ search[s].outcome = "accepted" /\ search[s].heard[r] = "found" /\ ThirdParty(r)
        => \A n \in Registry : search[s].country \in Serves(n) /\ ~ThirdParty(n) => Asked(s, n)
=============================================================================
