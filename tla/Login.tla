-------------------------------- MODULE Login --------------------------------
(***************************************************************************)
(* Browser tabs of one user in front of a node: requests, the refresh of   *)
(* an access token, and the round trip through the identity provider when  *)
(* there is nothing to refresh.                                            *)
(***************************************************************************)
EXTENDS Naturals

CONSTANTS
    Tab,
    Path,         \* pages of the site
    Root,         \* PUBLIC_URL itself
    NoPath,
    RedirectPath, \* /auth/redirect
    MaxRound,     \* bound: cookie suffixes in use at a time
    MaxMishaps    \* bound: errors, expiries and reloads

ASSUME PathAssumption ==
    Root \in Path /\ {NoPath, RedirectPath} \cap Path = {} /\ NoPath # RedirectPath
ASSUME LoginBoundsAreNat == MaxRound \in Nat \ {0} /\ MaxMishaps \in Nat

VARIABLES
    tab,      \* a tab: where its request is, and the page its user wants
    nonce,    \* VERITABLE_NONCE.<suffix>: the round it was made for, 0 without cookie
    target,   \* VERITABLE_REDIRECT.<suffix>
    access,   \* the cookie VERITABLE_ACCESS_TOKEN is a token that is still valid
    refresh,  \* there is a cookie VERITABLE_REFRESH_TOKEN
    mishaps

jar == <<nonce, target>>
tokens == <<access, refresh>>
loginVars == <<tab, nonce, target, access, refresh, mishaps>>

Round == 1..MaxRound
NewTab == [at |-> "idle", want |-> Root, url |-> Root, hx |-> FALSE, round |-> 0,
           code |-> FALSE, lost |-> FALSE]
TabAt == {"idle", "get", "refreshing", "login", "idp", "callback", "redirect",
          "exchanging", "shown", "refused"}

LoginTypeOK ==
    /\ tab \in [Tab -> [at : TabAt, want : Path, url : Path \cup {RedirectPath}, hx : BOOLEAN,
                        round : 0..MaxRound, code : BOOLEAN, lost : BOOLEAN]]
    /\ nonce \in [Round -> 0..MaxRound]
    /\ target \in [Round -> Path \cup {NoPath}]
    /\ access \in BOOLEAN /\ refresh \in BOOLEAN /\ mishaps \in 0..MaxMishaps

LoginInit ==
    /\ tab = [t \in Tab |-> NewTab]
    /\ nonce = [r \in Round |-> 0] /\ target = [r \in Round |-> NoPath]
    /\ access = FALSE /\ refresh = FALSE /\ mishaps = 0

Mishap == mishaps < MaxMishaps /\ mishaps' = mishaps + 1

Ended(t) == tab[t].at \in {"idle", "shown", "refused"}

-----------------------------------------------------------------------------
(* Requests. *)

\* A page is opened, or a script of a page asks for a part of one (hx).
Open(t, p, hx) ==
    /\ Ended(t)
    /\ tab' = [tab EXCEPT ![t] = [@ EXCEPT !.at = "get", !.want = p, !.url = p, !.hx = hx,
                                           !.lost = FALSE]]
    /\ UNCHANGED <<jar, tokens, mishaps>>

\* /auth/login is opened by its own address, with any path for its query.
OpenLogin(t, p) ==
    /\ Ended(t)
    /\ tab' = [tab EXCEPT ![t] = [@ EXCEPT !.at = "login", !.url = p, !.hx = FALSE, !.lost = FALSE,
                                           !.want = IF p = RedirectPath THEN Root ELSE p]]
    /\ UNCHANGED <<jar, tokens, mishaps>>

\* The user goes back to the /auth/redirect of an earlier round.
Reload(t) ==
    /\ Mishap
    /\ Ended(t) /\ tab[t].round # 0
    /\ tab' = [tab EXCEPT ![t].at = "redirect", ![t].lost = TRUE]
    /\ UNCHANGED <<jar, tokens>>

\* errorHandler on a ForbiddenError: a script is told 401, a page is sent to
\* /auth/login to come back to path.
Refuse(t, path) ==
    tab' = [tab EXCEPT ![t].at = IF tab[t].hx THEN "refused" ELSE "login",
                       ![t].url = path]

\* expressAuthentication: a valid token, a token to refresh, or neither.
Serve(t) ==
    /\ tab[t].at = "get"
    /\ CASE access             -> tab' = [tab EXCEPT ![t].at = "shown"]
         [] ~access /\ refresh -> tab' = [tab EXCEPT ![t].at = "refreshing"]
         [] OTHER              -> Refuse(t, tab[t].url)
    /\ UNCHANGED <<jar, tokens, mishaps>>

\* tryRefreshTokens: both cookies are replaced and the request is served.
Refreshed(t) ==
    /\ tab[t].at = "refreshing"
    /\ tab' = [tab EXCEPT ![t].at = "shown"]
    /\ access' = TRUE /\ refresh' = TRUE
    /\ UNCHANGED <<jar, mishaps>>

\* ... or the identity provider refuses, or its answer is not understood.
RefreshFails(t) ==
    /\ Mishap
    /\ tab[t].at = "refreshing"
    /\ Refuse(t, tab[t].url)
    /\ UNCHANGED <<jar, tokens>>

-----------------------------------------------------------------------------
(* The login. *)

\* Seeded bug: one cookie for all the tabs of a browser.
OneCookie(r) == 1

\* Every round has cookies of its own.
CookieOf(r) == r

\* Seeded bug: a login begun for /auth/redirect comes back to it.
AnyTarget(path) == path

\* Where a login ends, /auth/redirect being no place to end.
Target(path) == IF path = RedirectPath THEN Root ELSE path

\* The random suffix is one that neither the cookies nor a tab's history know.
Fresh(r) == nonce[r] = 0 /\ \A t \in Tab : tab[t].round # r

\* AuthController.login.
StartLogin(t) ==
    /\ tab[t].at = "login"
    /\ \E r \in Round :
         /\ Fresh(r) /\ \A s \in Round : Fresh(s) => r <= s
         /\ nonce' = [nonce EXCEPT ![CookieOf(r)] = r]
         /\ target' = [target EXCEPT ![CookieOf(r)] = Target(tab[t].url)]
         /\ tab' = [tab EXCEPT ![t] = [@ EXCEPT !.at = "idp", !.round = r, !.url = Root]]
    /\ UNCHANGED <<tokens, mishaps>>

\* The identity provider sends the browser back with a code, or an error.
IdpAnswers(t) ==
    /\ tab[t].at = "idp"
    /\ tab' = [tab EXCEPT ![t].at = "callback", ![t].code = TRUE]
    /\ UNCHANGED <<jar, tokens, mishaps>>

IdpRefuses(t) ==
    /\ Mishap
    /\ tab[t].at = "idp"
    /\ tab' = [tab EXCEPT ![t].at = "callback", ![t].code = FALSE]
    /\ UNCHANGED <<jar, tokens>>

\* AuthController.callback: a page that refreshes itself to /auth/redirect.
Callback(t) ==
    /\ tab[t].at = "callback"
    /\ tab' = [tab EXCEPT ![t].at = "redirect"]
    /\ UNCHANGED <<jar, tokens, mishaps>>

\* The cookie's target, or the root of the site without one.
Former(r) == IF target[CookieOf(r)] = NoPath THEN Root ELSE target[CookieOf(r)]

\* Seeded bug: a refused login tries its own /auth/redirect again.
RetryHere(t) == tab' = [tab EXCEPT ![t].at = "redirect"]

\* An error, or no code: the wanted page, to begin again.
RetryThere(t) == tab' = [tab EXCEPT ![t].at = "get", ![t].url = Former(tab[t].round)]

\* AuthController.redirect, up to the exchange of the code.
Redirect(t) ==
    /\ tab[t].at = "redirect"
    /\ LET r == tab[t].round IN
         IF nonce[CookieOf(r)] # r THEN Refuse(t, Former(r))
         ELSE IF ~tab[t].code THEN RetryThere(t)
         ELSE tab' = [tab EXCEPT ![t].at = "exchanging", ![t].url = Former(r)]
    /\ UNCHANGED <<jar, tokens, mishaps>>

\* The code is exchanged: the round's cookies go, the tokens are stored.
Exchanged(t) ==
    /\ tab[t].at = "exchanging"
    /\ nonce' = [nonce EXCEPT ![CookieOf(tab[t].round)] = 0]
    /\ target' = [target EXCEPT ![CookieOf(tab[t].round)] = NoPath]
    /\ access' = TRUE /\ refresh' = TRUE
    /\ tab' = [tab EXCEPT ![t].at = "get"]
    /\ UNCHANGED mishaps

\* The exchange is refused: getRedirectUrl finds the target that came with the
\* request.
ExchangeFails(t) ==
    /\ Mishap
    /\ tab[t].at = "exchanging"
    /\ Refuse(t, tab[t].url)
    /\ UNCHANGED <<jar, tokens>>

-----------------------------------------------------------------------------
(* Time. *)

CookiesExpire(r) ==
    /\ Mishap
    /\ nonce[r] # 0
    /\ nonce' = [nonce EXCEPT ![r] = 0] /\ target' = [target EXCEPT ![r] = NoPath]
    /\ tab' = [t \in Tab |-> IF tab[t].round = r THEN [tab[t] EXCEPT !.lost = TRUE] ELSE tab[t]]
    /\ UNCHANGED tokens

AccessExpires ==
    /\ Mishap
    /\ access
    /\ access' = FALSE
    /\ UNCHANGED <<tab, jar, refresh>>

RefreshExpires ==
    /\ Mishap
    /\ refresh
    /\ refresh' = FALSE
    /\ UNCHANGED <<tab, jar, access>>

\* What goes on by itself once a request is made.
RequestStep(t) ==
    \/ Serve(t) \/ Refreshed(t)
    \/ StartLogin(t) \/ IdpAnswers(t) \/ Callback(t) \/ Redirect(t) \/ Exchanged(t)

UserOpens(t) ==
    \/ \E p \in Path, hx \in BOOLEAN : Open(t, p, hx)
    \/ \E p \in Path \cup {RedirectPath} : OpenLogin(t, p)
    \/ Reload(t)

Trouble ==
    \/ \E t \in Tab : RefreshFails(t) \/ IdpRefuses(t) \/ ExchangeFails(t)
    \/ \E r \in Round : CookiesExpire(r)
    \/ AccessExpires \/ RefreshExpires

-----------------------------------------------------------------------------
(* Properties. *)

\* A tab that is shown a page is shown the one its user asked for, whatever
\* other tabs log in at the same time and whatever failed on the way; only a
\* tab whose cookies were gone ends at the root.
EndsWhereItBegan ==
    \A t \in Tab : tab[t].at = "shown" /\ ~tab[t].lost => tab[t].url = tab[t].want

\* No request goes round between /auth/login, the identity provider and
\* /auth/redirect for ever.
EveryRequestEnds == \A t \in Tab : tab[t].at = "get" ~> Ended(t)
=============================================================================
