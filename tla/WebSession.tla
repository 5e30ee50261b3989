------------------------------- MODULE WebSession -------------------------------
(***************************************************************************)
(* The control center in a browser: tabs that keep an access token each    *)
(* and share the refresh token in a cookie the api alone can read          *)
(* (auth.controller.ts, auth.service.ts, the client and the session of     *)
(* apps/control-center).  A cookie is read when a request leaves and       *)
(* written when its answer arrives.  Reading who is signed in after a      *)
(* refresh is part of the refresh; access tokens expire at any time.       *)
(***************************************************************************)
EXTENDS Naturals, FiniteSets

CONSTANTS
  Tab,                   \* tabs of one browser
  MaxIssued,             \* bound on the refresh tokens issued
  MaxSlips               \* bound on requests that are lost, fail, or meet one another

VARIABLES
  row,                   \* refresh_tokens: [person, family, live]; person "nobody" beyond them
  jar,                   \* the browser's cookies by name: a refresh token, or 0
  tab,                   \* of each tab: [status, access], status the session's
  post,                  \* requests under way
  closed,                \* the families whose sign-out the api has handled
  tangled,               \* something was lost, failed or met another tab's request, or a
                         \* person left the browser or could not enter
  slips

webVars == <<row, jar, tab, post, closed, tangled, slips>>

Token == 1 .. MaxIssued
Person == {"operator", "reporter"}
Issued == {n \in Token : row[n].person # "nobody"}
Next1 == Cardinality(Issued) + 1
NoCookie == [secure |-> 0, plain |-> 0]

\* A request: the cookies it carries; what is to happen to it; the answer and its token.
Post(t, kind) ==
  [tab |-> t, kind |-> kind, jar |-> jar, at |-> "sent", answer |-> "none", token |-> 0]
Busy(t) == \E r \in post : r.tab = t

WebTypeOK ==
  /\ row \in [Token -> [person : Person \cup {"nobody"}, family : {0} \cup Token, live : BOOLEAN]]
  /\ jar \in [secure : {0} \cup Token, plain : {0} \cup Token]
  /\ \A t \in Tab : tab[t].status \in {"loading", "error", "signedOut", "signedIn"}
                    /\ tab[t].access \in Person \cup {"none"}
  /\ \A r \in post : r.at \in {"sent", "swap", "answer"} /\ r.token \in {0} \cup Token
  /\ closed \subseteq Token /\ slips \in 0 .. MaxSlips

\* A cookie of the other name may be left from the time before https; its session is over.
WebInit ==
  /\ row = [n \in Token |-> IF n = 1 THEN [person |-> "operator", family |-> 1, live |-> FALSE]
                            ELSE [person |-> "nobody", family |-> 0, live |-> FALSE]]
  /\ jar \in {NoCookie, [secure |-> 0, plain |-> 1]}
  /\ tab = [t \in Tab |-> [status |-> "loading", access |-> "none"]]
  /\ post = {} /\ closed = {} /\ tangled = FALSE /\ slips = 0

Slip == slips < MaxSlips /\ slips' = slips + 1 /\ tangled' = TRUE
Even == UNCHANGED <<slips, tangled>>

\* A request leaves, which counts as a slip when another tab waits for an answer.
Send(t, kind) ==
  /\ post' = post \cup {Post(t, kind)}
  /\ IF \E r \in post : r.tab # t THEN Slip ELSE Even

-------------------------------------------------------------------------------
(* The tabs *)

\* bootstrap's refresh, the first of a tab and the one of its retry, and the refresh of a
\* tab whose access token is about to expire; one at a time (ensureFreshTokens).
Refresh(t) ==
  /\ ~Busy(t) /\ Send(t, "refresh")
  /\ \/ tab[t].status \in {"loading", "error"} /\ tab' = [tab EXCEPT ![t].status = "loading"]
     \/ tab[t].status = "signedIn" /\ UNCHANGED tab
  /\ UNCHANGED <<row, jar, closed>>

\* LoginScreen's submit, for one at a time.
SignIn(t) ==
  /\ tab[t].status = "signedOut" /\ ~Busy(t)
  /\ Send(t, "login")
  /\ UNCHANGED <<row, jar, tab, closed>>

\* signOut, perhaps while a refresh is under way.
SignOut(t) ==
  /\ tab[t].status = "signedIn" /\ ~\E r \in post : r.tab = t /\ r.kind = "logout"
  /\ post' = post \cup {Post(t, "logout")}
  /\ IF post # {} THEN Slip ELSE Even
  /\ UNCHANGED <<row, jar, tab, closed>>

-------------------------------------------------------------------------------
(* The api *)

\* readWebRefreshCookie: the one token in the cookies, 0 for none, or two of them.
Cookies(r) == {r.jar.secure, r.jar.plain} \ {0}
Ambiguous(r) == r.jar.secure # 0 /\ r.jar.plain # 0
TokenOf(r) == CHOOSE n \in Cookies(r) : TRUE

Answered(r, answer, n) ==
  post' = (post \ {r}) \cup {[r EXCEPT !.at = "answer", !.answer = answer, !.token = n]}

\* revokeFamily
Revoked(n) ==
  [m \in Token |-> IF row[m].family = row[n].family THEN [row[m] EXCEPT !.live = FALSE]
                   ELSE row[m]]

\* webRefresh and rotate: no cookie, two cookies and a token used before are refused.
ReadCookie(r) ==
  /\ r.kind = "refresh" /\ r.at = "sent"
  /\ IF Cookies(r) = {} \/ Ambiguous(r) THEN Answered(r, "refused", 0) /\ UNCHANGED row
     ELSE IF row[TokenOf(r)].live
     THEN post' = (post \ {r}) \cup {[r EXCEPT !.at = "swap"]} /\ UNCHANGED row
     ELSE Answered(r, "refused", 0) /\ row' = Revoked(TokenOf(r))
  /\ Even /\ UNCHANGED <<jar, tab, closed>>

\* issuePair: the token is replaced if it is still live, the family closed otherwise.
Rotate(r) ==
  /\ r.kind = "refresh" /\ r.at = "swap"
  /\ LET n == TokenOf(r)
     IN  IF row[n].live
         THEN /\ Next1 \in Token
              /\ row' = [row EXCEPT ![n].live = FALSE, ![Next1] = [row[n] EXCEPT !.live = TRUE]]
              /\ Answered(r, "ok", Next1)
         ELSE row' = Revoked(n) /\ Answered(r, "refused", 0)
  /\ Even /\ UNCHANGED <<jar, tab, closed>>

\* webLogin: a wrong password or a new family.
Login(r) ==
  /\ r.kind = "login" /\ r.at = "sent"
  /\ \/ Answered(r, "refused", 0) /\ UNCHANGED row
     \/ /\ Next1 \in Token
        /\ \E p \in Person : row' = [row EXCEPT ![Next1] = [person |-> p, family |-> Next1,
                                                            live |-> TRUE]]
        /\ Answered(r, "ok", Next1)
  /\ Even /\ UNCHANGED <<jar, tab, closed>>

\* webLogout: whatever the cookie says, the answer empties the jar.
Logout(r) ==
  /\ r.kind = "logout" /\ r.at = "sent"
  /\ Answered(r, "ok", 0)
  /\ IF Cookies(r) = {} \/ Ambiguous(r) THEN UNCHANGED <<row, closed>>
     ELSE row' = Revoked(TokenOf(r)) /\ closed' = closed \cup {row[TokenOf(r)].family}
  /\ tangled' = TRUE /\ UNCHANGED <<jar, tab, slips>>

\* The api fails at a refresh, which empties the jar like a refusal.
Fails(r) ==
  /\ r.kind = "refresh" /\ r.at \in {"sent", "swap"} /\ Slip
  /\ Answered(r, "error", 0)
  /\ UNCHANGED <<row, jar, tab, closed>>

-------------------------------------------------------------------------------
(* The answers *)

\* expiredRefreshCookies: both names.
Emptied == NoCookie

\* What the browser does with Set-Cookie; a login that was refused sets none.
JarAfter(r) ==
  IF r.token # 0 THEN [jar EXCEPT !.secure = r.token]
  ELSE IF r.kind = "login" THEN jar ELSE Emptied

TabAfter(t, status, access) == tab' = [tab EXCEPT ![t] = [status |-> status, access |-> access]]

\* A person who may not enter is signed out again by a request of its own.
Bounce(r) ==
  /\ post' = (post \ {r}) \cup {[Post(r.tab, "logout") EXCEPT !.jar = JarAfter(r)]}
  /\ tangled' = TRUE /\ UNCHANGED slips

Receive(r) ==
  /\ r.at = "answer" /\ jar' = JarAfter(r)
  /\ LET t == r.tab
         person == IF r.token = 0 THEN "none" ELSE row[r.token].person
         enters == r.kind = "login" \/ tab[t].status = "loading"
     IN  IF r.token # 0 /\ enters /\ person = "reporter"
         THEN Bounce(r) /\ TabAfter(t, tab[t].status, person)
         ELSE /\ post' = post \ {r} /\ Even
              /\ CASE r.token # 0 /\ enters -> TabAfter(t, "signedIn", person)
                   [] r.token # 0 /\ ~enters -> TabAfter(t, tab[t].status, person)
                   [] r.answer = "error" /\ enters -> TabAfter(t, "error", "none")
                   [] r.answer = "error" /\ ~enters -> UNCHANGED tab
                   [] OTHER -> TabAfter(t, "signedOut", "none")
  /\ UNCHANGED <<row, closed>>

\* A request or its answer is lost: a tab that wanted to leave leaves all the same.
Lost(r) ==
  /\ Slip /\ post' = post \ {r}
  /\ tab' = [tab EXCEPT ![r.tab] =
       CASE r.kind = "logout" -> [status |-> "signedOut", access |-> "none"]
         [] r.kind = "refresh" /\ @.status = "loading" -> [@ EXCEPT !.status = "error"]
         [] OTHER -> @]
  /\ UNCHANGED <<row, jar, closed>>

WebNext ==
  \/ \E t \in Tab : Refresh(t) \/ SignIn(t) \/ SignOut(t)
  \/ \E r \in post : ReadCookie(r) \/ Rotate(r) \/ Login(r) \/ Logout(r) \/ Fails(r)
                     \/ Receive(r) \/ Lost(r)

-------------------------------------------------------------------------------
(* Properties *)

\* A sign-out that reached the api ends the session for good: no token of its family lives
\* on, although a refresh of the same or another tab may have replaced the token meanwhile.
SignOutCloses ==
  \A n \in Issued : row[n].family \in closed => ~row[n].live

\* A tab stays signed in as long as nothing is lost and the tabs take turns, whatever
\* cookie an earlier deployment left behind (expiredRefreshCookies).
KeptWhileCalm ==
  [][\A t \in Tab : tab[t].status = "signedIn" /\ ~tangled' => tab'[t].status = "signedIn"]_webVars
===============================================================================
