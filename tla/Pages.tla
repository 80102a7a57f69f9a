-------------------------------- MODULE Pages --------------------------------
(***************************************************************************)
(* The pages of a node as a browser meets them: every request passes the   *)
(* login, and a form that is served searches the registries.               *)
(***************************************************************************)
EXTENDS Login, RegistrySearch

ASSUME SearchersAreTabs == Searcher \subseteq Tab

pageVars == <<loginVars, search>>

PagesTypeOK == LoginTypeOK /\ SearchTypeOK

PagesInit == LoginInit /\ SearchInit

Searching(t) == t \in Searcher /\ search[t].at = "asking"

\* A script's request that is served is the form's.
FormServed(t) ==
    /\ tab[t].at = "shown" /\ tab[t].hx /\ search[t] = NoSearch
    /\ BeginSearch(t)
    /\ UNCHANGED loginVars

\* The user's next request comes after the answer to the last.
NextRequest(t) ==
    /\ ~Searching(t)
    /\ UserOpens(t)
    /\ search' = [s \in Searcher |-> IF s = t THEN NoSearch ELSE search[s]]

PagesNext ==
    \/ \E t \in Tab : NextRequest(t) \/ (RequestStep(t) /\ UNCHANGED search)
    \/ \E t \in Searcher : FormServed(t) \/ (SearchStep(t) /\ UNCHANGED loginVars)
    \/ Trouble /\ UNCHANGED search

PagesSpec == PagesInit /\ [][PagesNext]_pageVars

\* A request once made is carried on by the browser, the node and the identity
\* provider; a search by the registries, which answer or fail.
PagesFairSpec ==
    /\ PagesSpec
    /\ \A t \in Tab : WF_pageVars(RequestStep(t) /\ UNCHANGED search)
    /\ \A t \in Searcher : WF_pageVars(SearchStep(t) /\ UNCHANGED loginVars)
=============================================================================
