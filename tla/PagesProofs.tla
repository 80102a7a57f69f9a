----------------------------- MODULE PagesProofs -----------------------------
(***************************************************************************)
(* What holds of the login and of the search for a company whatever the    *)
(* number of tabs, cookies and mishaps.                                     *)
(***************************************************************************)
EXTENDS Pages, TLAPS

(* A cookie is named after the round it was made for, and no two tabs are, or
   were, on the same round. *)
OwnCookies ==
    /\ \A r \in Round : nonce[r] # 0 => nonce[r] = r
    /\ \A t, u \in Tab : t # u /\ tab[t].round # 0 => tab[u].round # tab[t].round

Away == {"idp", "callback", "redirect", "exchanging"}
AtHome == {"get", "refreshing", "exchanging", "shown"}

(* A tab on the way through the identity provider has a round, whose cookies
   are there and know the page it wants; at the site itself it asks for that
   page, or logs in for it. *)
KnowsItsWay(x) ==
    /\ x.at \in Away => x.round # 0
    /\ x.at \in Away /\ ~x.lost => nonce[x.round] = x.round /\ target[x.round] = x.want
    /\ x.at \in AtHome /\ ~x.lost => x.url = x.want
    /\ x.at = "login" /\ ~x.lost => Target(x.url) = x.want

LoginInv == OwnCookies /\ \A t \in Tab : KnowsItsWay(tab[t])

TabRecord == [at : TabAt, want : Path, url : Path \cup {RedirectPath}, hx : BOOLEAN,
              round : 0..MaxRound, code : BOOLEAN, lost : BOOLEAN]

-----------------------------------------------------------------------------
(* The login: what one step of one tab does. *)

(* A step of one tab that stays on its round and leaves the cookies. *)
LEMMA TabMoves ==
  ASSUME LoginTypeOK, LoginInv, NEW t \in Tab, NEW x \in TabRecord,
         tab' = [tab EXCEPT ![t] = x], UNCHANGED jar,
         x.round = tab[t].round, KnowsItsWay(x)
  PROVE  LoginInv' /\ tab' \in [Tab -> TabRecord]
<1>1. /\ tab \in [Tab -> TabRecord] /\ tab' \in [Tab -> TabRecord]
      /\ \A u \in Tab : tab'[u] = (IF u = t THEN x ELSE tab[u]) /\ tab'[u].round = tab[u].round
      /\ nonce' = nonce /\ target' = target
  BY DEF LoginTypeOK, TabRecord, jar
<1>2. OwnCookies'
  BY <1>1 DEF LoginInv, OwnCookies
<1>3. ASSUME NEW u \in Tab PROVE KnowsItsWay(tab[u])'
  BY <1>1 DEF LoginInv, KnowsItsWay
<1> QED BY <1>1, <1>2, <1>3 DEF LoginInv

(* The page that a login ends at is a page of the site. *)
LEMMA TargetIsAPath == \A p \in Path \cup {RedirectPath} : Target(p) \in Path
BY PathAssumption DEF Target

LEMMA FormerIsAPath ==
  ASSUME LoginTypeOK, NEW r \in Round PROVE Former(r) \in Path
BY PathAssumption DEF LoginTypeOK, Former, CookieOf

(* Requests by the user: a new page, a login, an old page once more. *)
LEMMA UserKeepsLogin ==
  ASSUME LoginTypeOK, LoginInv, NEW t \in Tab, UserOpens(t)
  PROVE  LoginTypeOK' /\ LoginInv'
<1> tab \in [Tab -> TabRecord] /\ tab[t] \in TabRecord
  BY DEF LoginTypeOK, TabRecord
<1>1. ASSUME NEW p \in Path, NEW hx \in BOOLEAN, Open(t, p, hx) PROVE LoginTypeOK' /\ LoginInv'
  <2> DEFINE x == [tab[t] EXCEPT !.at = "get", !.want = p, !.url = p, !.hx = hx, !.lost = FALSE]
  <2>1. /\ x \in TabRecord /\ x.round = tab[t].round
        /\ x.at = "get" /\ x.want = p /\ x.url = p
    BY DEF TabRecord, TabAt
  <2>2. tab' = [tab EXCEPT ![t] = x] /\ UNCHANGED jar /\ UNCHANGED tokens /\ UNCHANGED mishaps
    BY <1>1 DEF Open
  <2>3. KnowsItsWay(x)
    BY <2>1 DEF KnowsItsWay, Away, AtHome
  <2> HIDE DEF x
  <2> QED BY <2>1, <2>2, <2>3, TabMoves DEF LoginTypeOK, TabRecord, jar, tokens
<1>2. ASSUME NEW p \in Path \cup {RedirectPath}, OpenLogin(t, p) PROVE LoginTypeOK' /\ LoginInv'
  <2> DEFINE x == [tab[t] EXCEPT !.at = "login", !.url = p, !.hx = FALSE, !.lost = FALSE,
                                 !.want = IF p = RedirectPath THEN Root ELSE p]
  <2>1. /\ x \in TabRecord /\ x.round = tab[t].round
        /\ x.at = "login" /\ x.want = Target(p) /\ x.url = p
    BY PathAssumption DEF TabRecord, TabAt, Target
  <2>2. tab' = [tab EXCEPT ![t] = x] /\ UNCHANGED jar /\ UNCHANGED tokens /\ UNCHANGED mishaps
    BY <1>2 DEF OpenLogin
  <2>3. KnowsItsWay(x)
    BY <2>1 DEF KnowsItsWay, Away, AtHome
  <2> HIDE DEF x
  <2> QED BY <2>1, <2>2, <2>3, TabMoves DEF LoginTypeOK, TabRecord, jar, tokens
<1>3. CASE Reload(t)
  <2> DEFINE x == [tab[t] EXCEPT !.at = "redirect", !.lost = TRUE]
  <2>1. /\ x \in TabRecord /\ x.round = tab[t].round
        /\ x.at = "redirect" /\ x.lost
    BY DEF TabRecord, TabAt
  <2>2. tab' = [tab EXCEPT ![t] = x] /\ UNCHANGED jar /\ UNCHANGED tokens /\ tab[t].round # 0
    BY <1>3 DEF Reload
  <2>3. KnowsItsWay(x)
    BY <2>1, <2>2 DEF KnowsItsWay, Away, AtHome
  <2>4. mishaps' \in 0..MaxMishaps
    BY <1>3, LoginBoundsAreNat DEF Reload, Mishap, LoginTypeOK
  <2> HIDE DEF x
  <2> QED BY <2>1, <2>2, <2>3, <2>4, TabMoves DEF LoginTypeOK, TabRecord, jar, tokens
<1> QED BY <1>1, <1>2, <1>3 DEF UserOpens

(* A page that is refused leaves for the login, to come back to path. *)
LEMMA RefusalKeepsLogin ==
  ASSUME LoginTypeOK, LoginInv, NEW t \in Tab, NEW path \in Path \cup {RedirectPath},
         Refuse(t, path), UNCHANGED jar,
         ~tab[t].lost => Target(path) = tab[t].want
  PROVE  LoginInv' /\ tab' \in [Tab -> TabRecord]
<1> DEFINE x == [tab[t] EXCEPT !.at = IF tab[t].hx THEN "refused" ELSE "login", !.url = path]
<1> tab \in [Tab -> TabRecord] /\ tab[t] \in TabRecord
  BY DEF LoginTypeOK, TabRecord
<1>1. /\ x \in TabRecord /\ x.round = tab[t].round
      /\ x.at \in {"refused", "login"} /\ x.want = tab[t].want /\ x.lost = tab[t].lost
      /\ x.url = path
  BY DEF TabRecord, TabAt
<1>2. tab' = [tab EXCEPT ![t] = x]
  BY DEF Refuse
<1>3. KnowsItsWay(x)
  BY <1>1 DEF KnowsItsWay, Away, AtHome
<1> HIDE DEF x
<1> QED BY <1>1, <1>2, <1>3, TabMoves

(* A tab goes on, with or without a code. *)
LEMMA GoingOnKeepsLogin ==
  ASSUME LoginTypeOK, LoginInv, NEW t \in Tab, NEW at \in TabAt \ {"login"}, NEW code \in BOOLEAN,
         tab' = [tab EXCEPT ![t].at = at, ![t].code = code], UNCHANGED jar,
         at \in Away => tab[t].at \in Away,
         at \in AtHome => tab[t].at \in AtHome
  PROVE  LoginInv' /\ tab' \in [Tab -> TabRecord]
<1> DEFINE x == [tab[t] EXCEPT !.at = at, !.code = code]
<1> tab \in [Tab -> TabRecord] /\ tab[t] \in TabRecord
  BY DEF LoginTypeOK, TabRecord
<1>1. /\ x \in TabRecord /\ x.round = tab[t].round /\ x.url = tab[t].url
      /\ x.at = at /\ x.want = tab[t].want /\ x.lost = tab[t].lost
  BY DEF TabRecord
<1>2. tab' = [tab EXCEPT ![t] = x]
  OBVIOUS
<1>3. KnowsItsWay(x)
  BY <1>1 DEF KnowsItsWay, LoginInv
<1> HIDE DEF x
<1> QED BY <1>1, <1>2, <1>3, TabMoves

(* ... to the page that its cookies know, or the one it has asked for. *)
LEMMA AddressKeepsLogin ==
  ASSUME LoginTypeOK, LoginInv, NEW t \in Tab, NEW at \in {"get", "exchanging"},
         NEW url \in Path,
         tab' = [tab EXCEPT ![t].at = at, ![t].url = url], UNCHANGED jar,
         tab[t].at \in Away, ~tab[t].lost => url = tab[t].want
  PROVE  LoginInv' /\ tab' \in [Tab -> TabRecord]
<1> DEFINE x == [tab[t] EXCEPT !.at = at, !.url = url]
<1> tab \in [Tab -> TabRecord] /\ tab[t] \in TabRecord
  BY DEF LoginTypeOK, TabRecord
<1>1. /\ x \in TabRecord /\ x.round = tab[t].round /\ x.url = url
      /\ x.at = at /\ x.want = tab[t].want /\ x.lost = tab[t].lost
  BY DEF TabRecord, TabAt
<1>2. tab' = [tab EXCEPT ![t] = x]
  OBVIOUS
<1>3. KnowsItsWay(x)
  BY <1>1 DEF KnowsItsWay, LoginInv, Away, AtHome
<1> HIDE DEF x
<1> QED BY <1>1, <1>2, <1>3, TabMoves

(* The page a tab of the site asks for is one that a login comes back to. *)
LEMMA HomeIsTarget ==
  ASSUME LoginTypeOK, LoginInv, NEW t \in Tab, tab[t].at \in AtHome, ~tab[t].lost
  PROVE  Target(tab[t].url) = tab[t].want
BY PathAssumption DEF LoginInv, KnowsItsWay, Target, LoginTypeOK

(* Serve, and the refresh of a token. *)
LEMMA ServeKeepsLogin ==
  ASSUME LoginTypeOK, LoginInv, NEW t \in Tab, Serve(t) \/ Refreshed(t) \/ RefreshFails(t)
  PROVE  LoginTypeOK' /\ LoginInv'
<1> tab \in [Tab -> TabRecord] /\ tab[t] \in TabRecord
  BY DEF LoginTypeOK, TabRecord
<1>0. tab[t].at \in {"get", "refreshing"} /\ tab[t].at \in AtHome /\ UNCHANGED jar
  BY DEF Serve, Refreshed, RefreshFails, AtHome
<1>1. /\ access' \in BOOLEAN /\ refresh' \in BOOLEAN /\ mishaps' \in 0..MaxMishaps
  <2>1. (access' = access /\ refresh' = refresh) \/ (access' = TRUE /\ refresh' = TRUE)
    BY DEF Serve, Refreshed, RefreshFails, tokens
  <2>2. access' \in BOOLEAN /\ refresh' \in BOOLEAN
    BY <2>1, Zenon DEF LoginTypeOK
  <2>3. mishaps' \in 0..MaxMishaps
    BY LoginBoundsAreNat DEF Serve, Refreshed, RefreshFails, Mishap, LoginTypeOK
  <2> QED BY <2>2, <2>3
<1>2. \/ Refuse(t, tab[t].url)
      \/ \E at \in {"shown", "refreshing"} : tab' = [tab EXCEPT ![t].at = at]
  BY DEF Serve, Refreshed, RefreshFails, LoginTypeOK
<1>3. CASE Refuse(t, tab[t].url)
  <2>1. tab[t].url \in Path \cup {RedirectPath}
    BY DEF TabRecord
  <2> QED BY <1>0, <1>1, <1>3, <2>1, HomeIsTarget, RefusalKeepsLogin
          DEF LoginTypeOK, TabRecord, jar
<1>4. ASSUME NEW at \in {"shown", "refreshing"}, tab' = [tab EXCEPT ![t].at = at]
      PROVE  LoginTypeOK' /\ LoginInv'
  <2>1. tab' = [tab EXCEPT ![t].at = at, ![t].code = tab[t].code] /\ tab[t].code \in BOOLEAN
    BY <1>4 DEF TabRecord
  <2>2. at \in TabAt \ {"login"} /\ at \notin Away
    BY DEF TabAt, Away
  <2> QED BY <1>0, <1>1, <2>1, <2>2, GoingOnKeepsLogin DEF LoginTypeOK, TabRecord, jar
<1> QED BY <1>2, <1>3, <1>4

(* A login takes a round that no tab and no cookie knows. *)
LEMMA StartKeepsLogin ==
  ASSUME LoginTypeOK, LoginInv, NEW t \in Tab, StartLogin(t)
  PROVE  LoginTypeOK' /\ LoginInv'
<1> tab \in [Tab -> TabRecord] /\ tab[t] \in TabRecord
  BY DEF LoginTypeOK, TabRecord
<1>1. PICK r \in Round :
         /\ Fresh(r)
         /\ nonce' = [nonce EXCEPT ![r] = r]
         /\ target' = [target EXCEPT ![r] = Target(tab[t].url)]
         /\ tab' = [tab EXCEPT ![t] = [@ EXCEPT !.at = "idp", !.round = r, !.url = Root]]
  BY DEF StartLogin, CookieOf
<1>0. r \in 0..MaxRound /\ r # 0 /\ Root \in Path
  BY PathAssumption, LoginBoundsAreNat DEF Round
<1> DEFINE x == [tab[t] EXCEPT !.at = "idp", !.round = r, !.url = Root]
<1>2. /\ x \in TabRecord /\ x.round = r /\ x.at = "idp"
      /\ x.want = tab[t].want /\ x.lost = tab[t].lost
  BY <1>0 DEF TabRecord, TabAt
<1>3. tab' = [tab EXCEPT ![t] = x] /\ tab[t].at = "login" /\ UNCHANGED <<tokens, mishaps>>
  BY <1>1 DEF StartLogin
<1> HIDE DEF x
<1>4. /\ Target(tab[t].url) \in Path
      /\ ~tab[t].lost => Target(tab[t].url) = tab[t].want
  <2>1. tab[t].url \in Path \cup {RedirectPath}
    BY DEF TabRecord
  <2> QED BY <1>3, <2>1, TargetIsAPath DEF LoginInv, KnowsItsWay
<1>5. /\ nonce[r] = 0 /\ \A u \in Tab : tab[u].round # r
  BY <1>1 DEF Fresh
<1>6. /\ tab' \in [Tab -> TabRecord]
      /\ \A u \in Tab : tab'[u] = IF u = t THEN x ELSE tab[u]
  BY <1>2, <1>3
<1>7. /\ nonce' \in [Round -> 0..MaxRound] /\ target' \in [Round -> Path \cup {NoPath}]
      /\ nonce'[r] = r /\ target'[r] = Target(tab[t].url)
      /\ \A q \in Round : q # r => nonce'[q] = nonce[q] /\ target'[q] = target[q]
  BY <1>0, <1>1, <1>4 DEF LoginTypeOK
<1>8. LoginTypeOK'
  BY <1>0, <1>3, <1>6, <1>7 DEF LoginTypeOK, TabRecord, tokens
<1>9. OwnCookies'
  BY <1>0, <1>2, <1>5, <1>6, <1>7 DEF LoginInv, OwnCookies
<1>10. ASSUME NEW u \in Tab PROVE KnowsItsWay(tab[u])'
  <2>1. CASE u = t
    BY <1>0, <1>2, <1>4, <1>6, <1>7, <2>1 DEF KnowsItsWay, AtHome
  <2>2. CASE u # t
    <3>1. tab'[u] = tab[u] /\ tab[u].round # r /\ tab[u].round \in 0..MaxRound
      BY <1>5, <1>6, <2>2 DEF TabRecord
    <3>2. tab[u].round # 0 => /\ nonce'[tab[u].round] = nonce[tab[u].round]
                              /\ target'[tab[u].round] = target[tab[u].round]
      BY <1>7, <3>1, LoginBoundsAreNat DEF Round
    <3> QED BY <3>1, <3>2 DEF LoginInv, KnowsItsWay
  <2> QED BY <2>1, <2>2
<1> QED BY <1>8, <1>9, <1>10 DEF LoginInv

(* The identity provider sends the tab back, to the callback's page. *)
LEMMA CallbackKeepsLogin ==
  ASSUME LoginTypeOK, LoginInv, NEW t \in Tab, IdpAnswers(t) \/ IdpRefuses(t) \/ Callback(t)
  PROVE  LoginTypeOK' /\ LoginInv'
<1> tab \in [Tab -> TabRecord] /\ tab[t] \in TabRecord
  BY DEF LoginTypeOK, TabRecord
<1>1. /\ tab[t].at \in Away /\ UNCHANGED jar /\ UNCHANGED tokens
      /\ \E at \in {"callback", "redirect"}, code \in BOOLEAN :
            tab' = [tab EXCEPT ![t].at = at, ![t].code = code]
  <2>1. CASE IdpAnswers(t)
    BY <2>1 DEF IdpAnswers, Away
  <2>2. CASE IdpRefuses(t)
    BY <2>2 DEF IdpRefuses, Away
  <2>3. CASE Callback(t)
    <3>1. tab' = [tab EXCEPT ![t].at = "redirect", ![t].code = tab[t].code]
          /\ tab[t].code \in BOOLEAN
      BY <2>3 DEF Callback, TabRecord
    <3> QED BY <2>3, <3>1 DEF Callback, Away
  <2> QED BY <2>1, <2>2, <2>3
<1>2. mishaps' \in 0..MaxMishaps
  BY LoginBoundsAreNat DEF IdpAnswers, IdpRefuses, Callback, Mishap, LoginTypeOK
<1>3. PICK at \in {"callback", "redirect"}, code \in BOOLEAN :
        tab' = [tab EXCEPT ![t].at = at, ![t].code = code]
  BY <1>1
<1>4. at \in TabAt \ {"login"} /\ at \notin AtHome
  BY DEF TabAt, AtHome
<1> QED BY <1>1, <1>2, <1>3, <1>4, GoingOnKeepsLogin DEF LoginTypeOK, TabRecord, jar, tokens

(* What the cookies of a round know. *)
LEMMA CookiesOfTheRound ==
  ASSUME LoginTypeOK, LoginInv, NEW t \in Tab, tab[t].at \in Away
  PROVE  /\ tab[t].round \in Round
         /\ Former(tab[t].round) \in Path
         /\ Target(Former(tab[t].round)) = Former(tab[t].round)
         /\ ~tab[t].lost => /\ Former(tab[t].round) = tab[t].want
                            /\ nonce[tab[t].round] = tab[t].round
<1>1. tab[t].round \in Round /\ tab[t].want \in Path
  BY LoginBoundsAreNat DEF LoginTypeOK, LoginInv, KnowsItsWay, Round
<1>2. ~tab[t].lost => /\ target[tab[t].round] = tab[t].want
                      /\ nonce[tab[t].round] = tab[t].round
  BY DEF LoginInv, KnowsItsWay
<1>3. ~tab[t].lost => Former(tab[t].round) = tab[t].want
  BY <1>1, <1>2, PathAssumption DEF Former, CookieOf
<1> QED BY <1>1, <1>2, <1>3, FormerIsAPath, PathAssumption DEF Target

(* /auth/redirect: refused without its cookies, else on with the page they know. *)
LEMMA RedirectKeepsLogin ==
  ASSUME LoginTypeOK, LoginInv, NEW t \in Tab, Redirect(t)
  PROVE  LoginTypeOK' /\ LoginInv'
<1> DEFINE f == Former(tab[t].round)
<1>1. tab[t].at \in Away /\ UNCHANGED jar /\ UNCHANGED tokens /\ UNCHANGED mishaps
  BY DEF Redirect, Away
<1>2. /\ f \in Path /\ Target(f) = f
      /\ ~tab[t].lost => f = tab[t].want
      /\ ~tab[t].lost => nonce[tab[t].round] = tab[t].round
  BY <1>1, CookiesOfTheRound
<1>3. \/ Refuse(t, f)
      \/ tab' = [tab EXCEPT ![t].at = "get", ![t].url = f]
      \/ tab' = [tab EXCEPT ![t].at = "exchanging", ![t].url = f]
  BY DEF Redirect, RetryThere
<1> HIDE DEF f
<1>4. LoginInv' /\ tab' \in [Tab -> TabRecord]
  <2>1. CASE Refuse(t, f)
    BY <1>1, <1>2, <2>1, RefusalKeepsLogin
  <2>2. CASE tab' = [tab EXCEPT ![t].at = "get", ![t].url = f]
    BY <1>1, <1>2, <2>2, AddressKeepsLogin
  <2>3. CASE tab' = [tab EXCEPT ![t].at = "exchanging", ![t].url = f]
    BY <1>1, <1>2, <2>3, AddressKeepsLogin
  <2> QED BY <1>3, <2>1, <2>2, <2>3
<1> QED BY <1>1, <1>4 DEF LoginTypeOK, TabRecord, jar, tokens

(* The exchange of the code: the cookies that go are this tab's alone. *)
LEMMA ExchangeKeepsLogin ==
  ASSUME LoginTypeOK, LoginInv, NEW t \in Tab, Exchanged(t)
  PROVE  LoginTypeOK' /\ LoginInv'
<1> tab \in [Tab -> TabRecord] /\ tab[t] \in TabRecord
  BY DEF LoginTypeOK, TabRecord
<1> DEFINE x == [tab[t] EXCEPT !.at = "get"]
           r == tab[t].round
<1>1. /\ x \in TabRecord /\ x.round = r /\ x.at = "get"
      /\ x.want = tab[t].want /\ x.lost = tab[t].lost /\ x.url = tab[t].url
  BY DEF TabRecord, TabAt
<1>2. /\ tab' = [tab EXCEPT ![t] = x]
      /\ nonce' = [nonce EXCEPT ![r] = 0] /\ target' = [target EXCEPT ![r] = NoPath]
      /\ access' = TRUE /\ refresh' = TRUE /\ UNCHANGED mishaps
      /\ tab[t].at \in Away /\ tab[t].at \in AtHome
  BY DEF Exchanged, CookieOf, Away, AtHome
<1> HIDE DEF x, r
<1>3. r \in Round /\ r # 0 /\ 0 \in 0..MaxRound
  BY <1>2, CookiesOfTheRound, LoginBoundsAreNat DEF r, Round
<1>4. /\ tab' \in [Tab -> TabRecord]
      /\ \A u \in Tab : tab'[u] = (IF u = t THEN x ELSE tab[u]) /\ tab'[u].round = tab[u].round
  BY <1>1, <1>2 DEF r
<1>5. /\ nonce' \in [Round -> 0..MaxRound] /\ target' \in [Round -> Path \cup {NoPath}]
      /\ nonce'[r] = 0
      /\ \A q \in Round : q # r => nonce'[q] = nonce[q] /\ target'[q] = target[q]
  BY <1>2, <1>3 DEF LoginTypeOK
<1>6. LoginTypeOK'
  BY <1>2, <1>4, <1>5 DEF LoginTypeOK, TabRecord
<1>7. OwnCookies'
  BY <1>3, <1>4, <1>5 DEF LoginInv, OwnCookies
<1>8. ASSUME NEW u \in Tab PROVE KnowsItsWay(tab[u])'
  <2>1. CASE u = t
    BY <1>1, <1>2, <1>4, <2>1 DEF LoginInv, KnowsItsWay, Away
  <2>2. CASE u # t
    <3>1. tab'[u] = tab[u] /\ tab[u].round # r /\ tab[u].round \in 0..MaxRound
      BY <1>3, <1>4, <2>2 DEF TabRecord, LoginInv, OwnCookies, r
    <3>2. tab[u].round # 0 => /\ nonce'[tab[u].round] = nonce[tab[u].round]
                              /\ target'[tab[u].round] = target[tab[u].round]
      BY <1>5, <3>1, LoginBoundsAreNat DEF Round
    <3> QED BY <3>1, <3>2 DEF LoginInv, KnowsItsWay
  <2> QED BY <2>1, <2>2
<1> QED BY <1>6, <1>7, <1>8 DEF LoginInv

(* ... or its failure, that is refused with the page it was for. *)
LEMMA ExchangeFailsKeepsLogin ==
  ASSUME LoginTypeOK, LoginInv, NEW t \in Tab, ExchangeFails(t)
  PROVE  LoginTypeOK' /\ LoginInv'
<1>1. /\ tab[t].at \in AtHome /\ Refuse(t, tab[t].url)
      /\ UNCHANGED jar /\ UNCHANGED tokens /\ tab[t].url \in Path \cup {RedirectPath}
  BY DEF ExchangeFails, AtHome, LoginTypeOK
<1>2. mishaps' \in 0..MaxMishaps
  BY LoginBoundsAreNat DEF ExchangeFails, Mishap, LoginTypeOK
<1> QED BY <1>1, <1>2, HomeIsTarget, RefusalKeepsLogin DEF LoginTypeOK, TabRecord, jar, tokens

(* Cookies and tokens that run out: a tab whose cookies are gone is lost. *)
LEMMA TimeKeepsLogin ==
  ASSUME LoginTypeOK, LoginInv,
         (\E r \in Round : CookiesExpire(r)) \/ AccessExpires \/ RefreshExpires
  PROVE  LoginTypeOK' /\ LoginInv'
<1>0. mishaps' \in 0..MaxMishaps
  BY LoginBoundsAreNat DEF CookiesExpire, AccessExpires, RefreshExpires, Mishap, LoginTypeOK
<1>1. ASSUME NEW r \in Round, CookiesExpire(r) PROVE LoginTypeOK' /\ LoginInv'
  <2>1. /\ tab \in [Tab -> TabRecord] /\ r # 0 /\ 0 \in 0..MaxRound
    BY LoginBoundsAreNat DEF LoginTypeOK, TabRecord, Round
  <2>2. ASSUME NEW u \in Tab
        PROVE  /\ [tab[u] EXCEPT !.lost = TRUE] \in TabRecord
               /\ tab'[u].round = tab[u].round /\ tab'[u].at = tab[u].at
               /\ tab'[u].url = tab[u].url /\ tab'[u].want = tab[u].want
               /\ tab'[u] \in TabRecord
               /\ ~tab'[u].lost => ~tab[u].lost /\ tab[u].round # r
    <3>1. /\ tab[u] \in TabRecord
          /\ tab'[u] = IF tab[u].round = r THEN [tab[u] EXCEPT !.lost = TRUE] ELSE tab[u]
      BY <1>1, <2>1 DEF CookiesExpire
    <3> QED BY <3>1 DEF TabRecord
  <2>3. tab' \in [Tab -> TabRecord]
    <3>1. tab' = [u \in Tab |-> tab'[u]]
      BY <1>1 DEF CookiesExpire
    <3> QED BY <2>2, <3>1
  <2>4. /\ nonce' \in [Round -> 0..MaxRound] /\ target' \in [Round -> Path \cup {NoPath}]
        /\ nonce'[r] = 0
        /\ \A q \in Round : q # r => nonce'[q] = nonce[q] /\ target'[q] = target[q]
    BY <1>1, <2>1 DEF CookiesExpire, LoginTypeOK
  <2>5. LoginTypeOK'
    <3>1. access' = access /\ refresh' = refresh
      BY <1>1 DEF CookiesExpire, tokens
    <3>2. access' \in BOOLEAN /\ refresh' \in BOOLEAN
      BY <3>1, Zenon DEF LoginTypeOK
    <3>3. /\ tab' \in [Tab -> TabRecord] /\ mishaps' \in 0..MaxMishaps
          /\ nonce' \in [Round -> 0..MaxRound] /\ target' \in [Round -> Path \cup {NoPath}]
      BY <1>0, <2>3, <2>4
    <3> QED BY <3>2, <3>3, Zenon DEF LoginTypeOK, TabRecord
  <2>6. OwnCookies'
    <3>1. \A u \in Tab : tab'[u].round = tab[u].round
      BY <2>2
    <3>2. \A q \in Round : nonce'[q] # 0 => nonce'[q] = nonce[q]
      BY <2>4
    <3> QED BY <3>1, <3>2 DEF LoginInv, OwnCookies
  <2>7. ASSUME NEW u \in Tab PROVE KnowsItsWay(tab[u])'
    <3>1. ~tab'[u].lost /\ tab[u].round # 0 =>
             /\ nonce'[tab[u].round] = nonce[tab[u].round]
             /\ target'[tab[u].round] = target[tab[u].round]
      <4>1. tab[u].round \in 0..MaxRound
        BY <2>1 DEF TabRecord
      <4>2. tab[u].round # 0 => tab[u].round \in Round
        BY <4>1, LoginBoundsAreNat DEF Round
      <4>3. ~tab'[u].lost => tab[u].round # r
        BY <2>2
      <4> QED BY <2>4, <4>2, <4>3
    <3> QED BY <2>2, <3>1 DEF LoginInv, KnowsItsWay
  <2> QED BY <2>5, <2>6, <2>7 DEF LoginInv
<1>2. CASE AccessExpires \/ RefreshExpires
  <2>1. /\ tab' = tab /\ UNCHANGED jar
        /\ access' \in {access, FALSE} /\ refresh' \in {refresh, FALSE}
    BY <1>2 DEF AccessExpires, RefreshExpires
  <2>2. access' \in BOOLEAN /\ refresh' \in BOOLEAN
    BY <2>1, Zenon DEF LoginTypeOK
  <2> QED BY <1>0, <2>1, <2>2 DEF LoginTypeOK, LoginInv, OwnCookies, KnowsItsWay, jar
<1> QED BY <1>1, <1>2

(* Every step of the login keeps it. *)
LEMMA StepKeepsLogin ==
  ASSUME LoginTypeOK, LoginInv,
         \/ \E t \in Tab : UserOpens(t) \/ RequestStep(t)
         \/ Trouble
  PROVE  LoginTypeOK' /\ LoginInv'
<1>1. ASSUME NEW t \in Tab, UserOpens(t) PROVE LoginTypeOK' /\ LoginInv'
  BY <1>1, UserKeepsLogin
<1>2. ASSUME NEW t \in Tab, RequestStep(t) PROVE LoginTypeOK' /\ LoginInv'
  BY <1>2, ServeKeepsLogin, StartKeepsLogin, CallbackKeepsLogin, RedirectKeepsLogin,
     ExchangeKeepsLogin DEF RequestStep
<1>3. CASE Trouble
  BY <1>3, ServeKeepsLogin, CallbackKeepsLogin, ExchangeFailsKeepsLogin, TimeKeepsLogin DEF Trouble
<1> QED BY <1>1, <1>2, <1>3

(* What the first page of a tab knows. *)
LEMMA LoginStarts == LoginInit => LoginTypeOK /\ LoginInv
<1> SUFFICES ASSUME LoginInit PROVE LoginTypeOK /\ LoginInv
  OBVIOUS
<1>1. NewTab \in TabRecord /\ NewTab.at = "idle" /\ NewTab.round = 0
  BY PathAssumption, LoginBoundsAreNat DEF NewTab, TabRecord, TabAt
<1>2. \A t \in Tab : tab[t] = NewTab
  BY DEF LoginInit
<1>3. LoginTypeOK
  <2>1. /\ tab \in [Tab -> TabRecord] /\ mishaps \in 0..MaxMishaps
        /\ nonce \in [Round -> 0..MaxRound] /\ target \in [Round -> Path \cup {NoPath}]
    BY <1>1, LoginBoundsAreNat DEF LoginInit
  <2>2. access \in BOOLEAN /\ refresh \in BOOLEAN
    BY Zenon DEF LoginInit
  <2> QED BY <2>1, <2>2, Zenon DEF LoginTypeOK, TabRecord
<1>4. LoginInv
  BY <1>1, <1>2 DEF LoginInit, LoginInv, OwnCookies, KnowsItsWay, Away, AtHome
<1> QED BY <1>3, <1>4

-----------------------------------------------------------------------------
(* The search for a company. *)

SearchRecord ==
    [at : {"none", "asking", "answered"}, kind : {"lookup", "decode"},
     country : Country, number : Number, todo : SUBSET Registry,
     heard : [Registry -> Answer \cup {"nothing", "failure"}], outcome : Outcome]

Heard(x, r) == x.heard[r] # "nothing"

(* A search that goes on has a registry to ask and no company.  Of one for an
   invitation, that goes on or ends in error after some registry was asked,
   every registry of the country was asked or is left, and a third party is
   asked when none of the country's own is left. *)
SearchOK(x) ==
    /\ x.at = "asking" => x.todo # {} /\ \A r \in Registry : x.heard[r] # "found"
    /\ x.at # "asking" => x.todo = {}
    /\ x.kind = "decode" =>
         /\ x.outcome = "error" => \A r \in Registry : x.heard[r] # "found"
         /\ x.at = "asking" \/ (x.outcome = "error" /\ \E r \in Registry : Heard(x, r))
              => \A r \in Registry : x.country \in Serves(r) => r \in x.todo \/ Heard(x, r)
         /\ \A r, n \in Registry :
              Heard(x, r) /\ ThirdParty(r) /\ ~ThirdParty(n) /\ x.country \in Serves(n)
              => Heard(x, n)

SearchInv ==
    /\ search = [s \in Searcher |-> search[s]]
    /\ \A s \in Searcher : SearchOK(search[s])

LEMMA SearchTypes == SearchTypeOK <=> \A s \in Searcher : search[s] \in SearchRecord
BY DEF SearchTypeOK, SearchRecord

(* A search changes alone. *)
LEMMA SearchMoves ==
  ASSUME SearchTypeOK, SearchInv, NEW s \in Searcher, NEW x \in SearchRecord, SearchOK(x),
         search' = [search EXCEPT ![s] = x]
  PROVE  SearchTypeOK' /\ SearchInv'
<1>1. /\ \A q \in Searcher : search'[q] = IF q = s THEN x ELSE search[q]
      /\ search' = [q \in Searcher |-> search'[q]]
  BY DEF SearchInv
<1>2. \A q \in Searcher : search[q] \in SearchRecord
  BY SearchTypes
<1>3. SearchTypeOK'
  <2>1. \A q \in Searcher : search'[q] \in SearchRecord
    BY <1>1, <1>2
  <2> QED BY <2>1 DEF SearchTypeOK, SearchRecord
<1>4. SearchInv'
  BY <1>1 DEF SearchInv
<1> QED BY <1>3, <1>4

LEMMA NoSearchIsOK == NoSearch \in SearchRecord /\ SearchOK(NoSearch)
<1>1. /\ NoSearch.at = "none" /\ NoSearch.kind = "lookup" /\ NoSearch.todo = {}
      /\ NoSearch \in SearchRecord
  BY DEF NoSearch, SearchRecord, Country, Number, Outcome, Answer
<1> QED BY <1>1 DEF SearchOK

(* A search begins with a registry, for an invitation with all of its country,
   and one that is over at once has asked none. *)
LEMMA BeginIsOK ==
  ASSUME SearchTypeOK, SearchInv,
         NEW s \in Searcher, NEW kind \in {"lookup", "decode"}, NEW country \in Country,
         NEW number \in Number, NEW todo \in SUBSET Registry, todo # {},
         kind = "decode" => todo = Available(country),
         Begin(s, kind, country, number, todo)
  PROVE  SearchTypeOK' /\ SearchInv'
<1> DEFINE x == [NoSearch EXCEPT !.at = "asking", !.kind = kind, !.country = country,
                                 !.number = number, !.todo = todo]
<1>1. /\ x.at = "asking" /\ x.kind = kind /\ x.country = country /\ x.todo = todo
      /\ x.heard = [r \in Registry |-> "nothing"] /\ x.outcome = "none"
      /\ x \in SearchRecord
  BY DEF NoSearch, SearchRecord, Outcome, Answer
<1>2. search' = [search EXCEPT ![s] = x]
  BY DEF Begin
<1> HIDE DEF x
<1>3. SearchOK(x)
  BY <1>1 DEF SearchOK, Heard, Available
<1> QED BY <1>1, <1>2, <1>3, SearchMoves

LEMMA EndIsOK ==
  ASSUME SearchTypeOK, SearchInv,
         NEW s \in Searcher, NEW kind \in {"lookup", "decode"}, NEW country \in Country,
         NEW number \in Number, NEW outcome \in Outcome,
         End(s, kind, country, number, outcome)
  PROVE  SearchTypeOK' /\ SearchInv'
<1> DEFINE x == [NoSearch EXCEPT !.at = "answered", !.kind = kind, !.country = country,
                                 !.number = number, !.outcome = outcome]
<1>1. /\ x.at = "answered" /\ x.kind = kind /\ x.todo = {}
      /\ x.heard = [r \in Registry |-> "nothing"] /\ x \in SearchRecord
  BY DEF NoSearch, SearchRecord, Answer
<1>2. search' = [search EXCEPT ![s] = x]
  BY DEF End
<1> HIDE DEF x
<1>3. SearchOK(x)
  BY <1>1 DEF SearchOK, Heard
<1> QED BY <1>1, <1>2, <1>3, SearchMoves

(* The next registry is one of those left, and a third party only if no other
   is left. *)
LEMMA OwnFirst ==
  ASSUME NEW todo \in SUBSET Registry, todo # {}
  PROVE  /\ Ordered(todo) \in todo
         /\ ThirdParty(Ordered(todo)) => \A q \in todo : ThirdParty(q)
<1>1. \E r \in todo : ThirdParty(r) => \A q \in todo : ThirdParty(q)
  OBVIOUS
<1> QED BY <1>1 DEF Ordered

(* A registry answers. *)
LEMMA HearIsOK ==
  ASSUME SearchTypeOK, SearchInv,
         NEW s \in Searcher, Asking(s), NEW answer \in Answer \cup {"failure"},
         NEW todo, NEW outcome \in Outcome,
         todo \in {{}, search[s].todo \ {Ordered(search[s].todo)}},
         answer = "found" => todo = {} /\ outcome = "accepted",
         search[s].kind = "decode" /\ outcome # "accepted"
            => todo = search[s].todo \ {Ordered(search[s].todo)},
         Hear(s, answer, todo, outcome)
  PROVE  SearchTypeOK' /\ SearchInv'
<1> DEFINE y == search[s]
           r == Ordered(y.todo)
           x == [y EXCEPT !.heard[r] = answer, !.todo = todo, !.outcome = outcome,
                          !.at = IF todo = {} THEN "answered" ELSE "asking"]
<1>1. y \in SearchRecord /\ SearchOK(y) /\ y.at = "asking"
  BY SearchTypes DEF SearchInv, Asking
<1>2. search' = [search EXCEPT ![s] = x]
  BY DEF Hear
<1>3. /\ todo \in {{}, y.todo \ {r}}
      /\ y.kind = "decode" /\ outcome # "accepted" => todo = y.todo \ {r}
  OBVIOUS
<1> HIDE DEF y
<1>4. /\ r \in y.todo /\ r \in Registry
      /\ ThirdParty(r) => \A q \in y.todo : ThirdParty(q)
  BY <1>1, OwnFirst DEF SearchOK, SearchRecord
<1> HIDE DEF r
<1>5. /\ x.kind = y.kind /\ x.country = y.country /\ x.todo = todo /\ x.outcome = outcome
      /\ x.at = (IF todo = {} THEN "answered" ELSE "asking")
      /\ x.heard = [y.heard EXCEPT ![r] = answer]
  BY <1>1 DEF SearchRecord
<1>6. /\ y.heard \in [Registry -> Answer \cup {"nothing", "failure"}]
      /\ x.heard \in [Registry -> Answer \cup {"nothing", "failure"}]
      /\ todo \in SUBSET Registry
  BY <1>1, <1>3, <1>4, <1>5 DEF SearchRecord
<1>7. x \in SearchRecord
  BY <1>1, <1>6 DEF SearchRecord
<1> HIDE DEF x
<1>8. /\ x.heard[r] = answer /\ answer # "nothing"
      /\ \A q \in Registry : q # r => x.heard[q] = y.heard[q]
  BY <1>4, <1>5, <1>6 DEF Answer
<1>9. SearchOK(x)
  <2>1. \A q \in Registry : y.heard[q] # "found"
    BY <1>1 DEF SearchOK
  <2>2. outcome # "accepted" \/ todo # {} => \A q \in Registry : x.heard[q] # "found"
    BY <1>8, <2>1
  <2>3. ASSUME y.kind = "decode", outcome # "accepted" \/ todo # {}
        PROVE  \A q \in Registry : y.country \in Serves(q) => q \in todo \/ Heard(x, q)
    BY <1>1, <1>3, <1>8, <2>3 DEF SearchOK, Heard
  <2>4. ASSUME y.kind = "decode", NEW p \in Registry, NEW n \in Registry,
               Heard(x, p), ThirdParty(p), ~ThirdParty(n), y.country \in Serves(n)
        PROVE  Heard(x, n)
    BY <1>1, <1>4, <1>8, <2>4 DEF SearchOK, Heard
  <2>5. x.at = "asking" => todo # {}
    BY <1>5
  <2> QED BY <1>5, <2>2, <2>3, <2>4, <2>5 DEF SearchOK
<1> QED BY <1>2, <1>7, <1>9, SearchMoves DEF y

(* Every step of a search, and the requests it belongs to. *)
LEMMA JudgedIsAnAnswer ==
  ASSUME NEW r \in Registry, NEW number, NEW rec PROVE Judged(r, number, rec) \in Answer
BY DEF Judged, Answer

LEMMA BeginSearchIsOK ==
  ASSUME SearchTypeOK, SearchInv, NEW s \in Searcher, BeginSearch(s)
  PROVE  SearchTypeOK' /\ SearchInv'
<1>1. PICK country \in Country, number \in Number :
        \/ \E r \in Registry : VerifyCompany(s, country, r, number) \/ SubmitCompany(s, country, r, number)
        \/ DecodeInvite(s, country, number)
        \/ RejectInvite(s, country, number)
  BY DEF BeginSearch
<1>2. \/ \E kind \in {"lookup", "decode"}, outcome \in Outcome :
           End(s, kind, country, number, outcome)
      \/ \E r \in Registry : Begin(s, "lookup", country, number, {r})
      \/ /\ Available(country) # {}
         /\ Begin(s, "decode", country, number, Available(country))
  <2>1. CASE \E r \in Registry : VerifyCompany(s, country, r, number) \/ SubmitCompany(s, country, r, number)
    BY <2>1 DEF VerifyCompany, SubmitCompany, BeginLookup, Outcome
  <2>2. CASE DecodeInvite(s, country, number) \/ RejectInvite(s, country, number)
    BY <2>2 DEF DecodeInvite, RejectInvite, Outcome
  <2> QED BY <1>1, <2>1, <2>2
<1>3. ASSUME NEW r \in Registry, Begin(s, "lookup", country, number, {r})
      PROVE  SearchTypeOK' /\ SearchInv'
  BY <1>3, BeginIsOK
<1>4. ASSUME Available(country) # {}, Begin(s, "decode", country, number, Available(country))
      PROVE  SearchTypeOK' /\ SearchInv'
  <2>1. Available(country) \in SUBSET Registry
    BY DEF Available
  <2> QED BY <1>4, <2>1, BeginIsOK
<1> QED BY <1>2, <1>3, <1>4, EndIsOK

LEMMA SearchStepIsOK ==
  ASSUME SearchTypeOK, SearchInv, NEW s \in Searcher, SearchStep(s)
  PROVE  SearchTypeOK' /\ SearchInv'
<1> DEFINE r == Ordered(search[s].todo)
<1>0. Asking(s)
  BY DEF SearchStep, CompanyFound, CompanyRefused, RegistryFails
<1>1. r \in Registry
  <2>1. search[s].todo \in SUBSET Registry /\ search[s].todo # {}
    BY <1>0, SearchTypes DEF SearchInv, SearchOK, Asking, SearchRecord
  <2> QED BY <2>1, OwnFirst
<1>2. ASSUME NEW rec \in Record, CompanyFound(s, rec) PROVE SearchTypeOK' /\ SearchInv'
  <2>1. Hear(s, "found", {}, "accepted")
    BY <1>2 DEF CompanyFound
  <2>2. "found" \in Answer /\ "accepted" \in Outcome
    BY DEF Answer, Outcome
  <2> QED BY <1>0, <2>1, <2>2, HearIsOK
<1>3. ASSUME NEW answer \in Answer \cup {"failure"}, answer # "found", GoOn(s, answer)
      PROVE  SearchTypeOK' /\ SearchInv'
  <2> DEFINE rest == search[s].todo \ {r}
             outcome == IF rest = {} THEN "error" ELSE "none"
  <2>1. Hear(s, answer, rest, outcome) /\ outcome \in Outcome
    BY <1>3 DEF GoOn, Outcome
  <2> HIDE DEF outcome
  <2> QED BY <1>0, <1>3, <2>1, HearIsOK
<1>4. ASSUME NEW rec \in Record, CompanyRefused(s, rec) PROVE SearchTypeOK' /\ SearchInv'
  BY <1>1, <1>3, <1>4, JudgedIsAnAnswer DEF CompanyRefused
<1>5. CASE RegistryFails(s)
  <2>1. CASE search[s].kind = "decode"
    BY <1>3, <1>5, <2>1 DEF RegistryFails
  <2>2. CASE search[s].kind # "decode"
    <3>1. Hear(s, "failure", {}, "failed") /\ "failed" \in Outcome
      BY <1>5, <2>2 DEF RegistryFails, Outcome
    <3> QED BY <1>0, <2>2, <3>1, HearIsOK
  <2> QED BY <2>1, <2>2
<1> QED BY <1>2, <1>4, <1>5 DEF SearchStep

-----------------------------------------------------------------------------
(* The pages. *)

PagesInv == LoginInv /\ SearchInv

LEMMA PagesStart == PagesInit => PagesTypeOK /\ PagesInv
<1> SUFFICES ASSUME PagesInit PROVE PagesTypeOK /\ PagesInv
  OBVIOUS
<1>1. LoginTypeOK /\ LoginInv
  BY LoginStarts DEF PagesInit
<1>2. SearchTypeOK /\ SearchInv
  <2>1. /\ search = [s \in Searcher |-> search[s]]
        /\ \A s \in Searcher : search[s] = NoSearch
    BY DEF PagesInit, SearchInit
  <2> QED BY <2>1, NoSearchIsOK, SearchTypes DEF SearchInv
<1> QED BY <1>1, <1>2 DEF PagesTypeOK, PagesInv

LEMMA PagesStep ==
  PagesTypeOK /\ PagesInv /\ [PagesNext]_pageVars => PagesTypeOK' /\ PagesInv'
<1> SUFFICES ASSUME PagesTypeOK, PagesInv, [PagesNext]_pageVars PROVE PagesTypeOK' /\ PagesInv'
  OBVIOUS
<1> USE DEF PagesTypeOK, PagesInv
<1>1. ASSUME UNCHANGED search PROVE SearchTypeOK' /\ SearchInv'
  BY <1>1 DEF SearchTypeOK, SearchInv, SearchOK, Heard
<1>2. ASSUME UNCHANGED loginVars PROVE LoginTypeOK' /\ LoginInv'
  <2>1. tab' = tab /\ nonce' = nonce /\ target' = target
    BY <1>2 DEF loginVars
  <2>2. LoginInv'
    BY <2>1 DEF LoginInv, OwnCookies, KnowsItsWay
  <2>3. LoginTypeOK'
    BY <1>2, Zenon DEF loginVars, LoginTypeOK
  <2> QED BY <2>2, <2>3
<1>3. ASSUME NEW t \in Tab, NextRequest(t) PROVE PagesTypeOK' /\ PagesInv'
  <2>1. LoginTypeOK' /\ LoginInv'
    BY <1>3, StepKeepsLogin DEF NextRequest
  <2>2. /\ search' = [s \in Searcher |-> search'[s]]
        /\ \A s \in Searcher : search'[s] \in {search[s], NoSearch}
    BY <1>3 DEF NextRequest
  <2>3. \A s \in Searcher : search'[s] \in SearchRecord /\ SearchOK(search'[s])
    BY <2>2, SearchTypes, NoSearchIsOK DEF SearchInv
  <2>4. SearchTypeOK'
    BY <2>3 DEF SearchTypeOK, SearchRecord
  <2>5. SearchInv'
    BY <2>2, <2>3 DEF SearchInv
  <2> QED BY <2>1, <2>4, <2>5
<1>4. ASSUME NEW t \in Tab, RequestStep(t), UNCHANGED search PROVE PagesTypeOK' /\ PagesInv'
  BY <1>1, <1>4, StepKeepsLogin
<1>5. ASSUME NEW t \in Searcher, FormServed(t) PROVE PagesTypeOK' /\ PagesInv'
  BY <1>2, <1>5, BeginSearchIsOK DEF FormServed
<1>6. ASSUME NEW t \in Searcher, SearchStep(t), UNCHANGED loginVars PROVE PagesTypeOK' /\ PagesInv'
  BY <1>2, <1>6, SearchStepIsOK
<1>7. CASE Trouble /\ UNCHANGED search
  BY <1>1, <1>7, StepKeepsLogin
<1>8. CASE UNCHANGED pageVars
  BY <1>1, <1>2, <1>8 DEF pageVars
<1> QED BY <1>3, <1>4, <1>5, <1>6, <1>7, <1>8 DEF PagesNext

(* The cookies, the tabs and the searches keep their types: a login never comes
   back to /auth/redirect. *)
THEOREM PagesTypes == PagesSpec => []PagesTypeOK
BY PagesStart, PagesStep, PTL DEF PagesSpec

LEMMA PagesInvHolds == PagesSpec => []PagesInv
BY PagesStart, PagesStep, PTL DEF PagesSpec

(* A tab is shown the page its user asked for, whatever other tabs log in at the
   same time: its round's cookies are its own, and know that page. *)
THEOREM EndsWhereItBeganHolds == PagesSpec => []EndsWhereItBegan
<1>1. PagesInv => EndsWhereItBegan
  BY DEF PagesInv, LoginInv, KnowsItsWay, AtHome, EndsWhereItBegan
<1> QED BY <1>1, PagesInvHolds, PTL

(* An invitation is turned away for its company only after every registry of
   the country was asked, whichever of them failed. *)
THEOREM EveryRegistryIsAskedHolds == PagesSpec => []EveryRegistryIsAsked
<1>1. PagesInv => EveryRegistryIsAsked
  BY DEF PagesInv, SearchInv, SearchOK, EveryRegistryIsAsked, Decoded, Asked, Heard
<1> QED BY <1>1, PagesInvHolds, PTL

(* A third party's word is taken after the country's own registries were asked. *)
THEOREM NationalFirstHolds == PagesSpec => []NationalFirst
<1>1. PagesInv => NationalFirst
  <2> SUFFICES ASSUME PagesInv, NEW s \in Searcher, NEW r \in Registry, Decoded(s),
                      search[s].heard[r] = "found", ThirdParty(r), NEW n \in Registry,
                      search[s].country \in Serves(n), ~ThirdParty(n)
               PROVE  Asked(s, n)
    BY DEF NationalFirst
  <2> QED BY DEF PagesInv, SearchInv, SearchOK, Decoded, Asked, Heard
<1> QED BY <1>1, PagesInvHolds, PTL
=============================================================================
