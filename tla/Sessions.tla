------------------------------ MODULE Sessions ------------------------------
(* The session of an app: short access tokens, a refresh token that is      *)
(* replaced each time it is used, and callers that share one refresh.  Using *)
(* a replaced token closes the whole session.                               *)
EXTENDS Naturals, FiniteSets

CONSTANTS
  Caller,       \* requests of the app that may be under way at a time
  MaxTokens,    \* bound: refresh tokens issued
  MaxExpiries,  \* bound: expiries of an access token
  MaxMishaps    \* bound: lost answers and restarts of the app

VARIABLES
  token,     \* the refresh_tokens rows: family and whether live; none beyond those issued
  rotations, \* refresh requests at the api, each at a step
  session,   \* the app's session: "error" awaits another try
  stored,    \* refresh token in the device's store, 0 for none
  access,    \* access token in memory
  inflight,  \* the refresh the app awaits: its token and its answer, or none
  caller,    \* each request of the app
  upset,     \* history: an answer was lost or the user left while a refresh was under way
  expiries, mishaps

sessionVars ==
  <<token, rotations, session, stored, access, inflight, caller, upset, expiries, mishaps>>

NoRefresh == [token |-> 0, answer |-> "none", issued |-> 0]
Issued == {t \in 1..MaxTokens : token[t].family # 0}

SessionInit ==
  /\ token = [t \in 1..MaxTokens |-> [family |-> 0, live |-> FALSE]]
  /\ rotations = {} /\ session = "signedOut"
  /\ stored = 0 /\ access = "none" /\ inflight = NoRefresh
  /\ caller = [c \in Caller |-> "idle"]
  /\ upset = FALSE /\ expiries = 0 /\ mishaps = 0

------------------------------------------------------------------------------
\* Tokens are numbered in the order they are issued; a family has its first's number.
NextToken == Cardinality(Issued) + 1

RevokeFamily(rows, f) ==
  [t \in 1..MaxTokens |-> IF rows[t].family = f THEN [rows[t] EXCEPT !.live = FALSE] ELSE rows[t]]

\* rotate, part 1: the row is read; a token used before closes its family.
ReadToken(r) ==
  /\ r \in rotations /\ r.at = "read"
  /\ IF token[r.token].live
     THEN /\ rotations' = (rotations \ {r}) \union {[r EXCEPT !.at = "swap"]}
          /\ UNCHANGED <<token, inflight>>
     ELSE /\ rotations' = rotations \ {r}
          /\ token' = RevokeFamily(token, token[r.token].family)
          /\ inflight' = IF r.awaited THEN [inflight EXCEPT !.answer = "refused"] ELSE inflight
  /\ UNCHANGED <<session, stored, access, caller, upset, expiries, mishaps>>

\* The faulty version for the mutant checks: the row is replaced without a look at whether it is still live.
WinsSwap_Always(t) == TRUE

\* rotate, part 2: the row is revoked where it is still live, and its successor
\* inserted, in one transaction; else somebody used it meanwhile.
WinsSwap(t) == token[t].live

SwapToken(r) ==
  /\ r \in rotations /\ r.at = "swap"
  /\ rotations' = rotations \ {r}
  /\ LET f == token[r.token].family IN
     IF WinsSwap(r.token)
     THEN /\ NextToken <= MaxTokens
          /\ token' = [token EXCEPT ![r.token].live = FALSE,
                                    ![NextToken] = [family |-> f, live |-> TRUE]]
          /\ inflight' = IF r.awaited
                         THEN [inflight EXCEPT !.answer = "ok", !.issued = NextToken]
                         ELSE inflight
     ELSE /\ token' = RevokeFamily(token, f)
          /\ inflight' = IF r.awaited THEN [inflight EXCEPT !.answer = "refused"] ELSE inflight
  /\ UNCHANGED <<session, stored, access, caller, upset, expiries, mishaps>>

------------------------------------------------------------------------------
\* The requests of an earlier session's screens have ended by then.
SignIn ==
  /\ session = "signedOut" /\ NextToken < MaxTokens
  /\ \A c \in Caller : caller[c] = "idle"
  /\ token' = [token EXCEPT ![NextToken] = [family |-> NextToken, live |-> TRUE]]
  /\ stored' = NextToken /\ access' = "fresh" /\ session' = "signedIn"
  /\ UNCHANGED <<rotations, inflight, caller, upset, expiries, mishaps>>

\* signOut: the server closes the family, the store is cleared whatever it answers.
\* A refresh under way is not waited for, and its answer may come after.
SignOut(reached) ==
  /\ session = "signedIn"
  /\ token' = IF reached /\ stored # 0 THEN RevokeFamily(token, token[stored].family) ELSE token
  /\ stored' = 0 /\ access' = "none" /\ session' = "signedOut"
  /\ upset' = (upset \/ inflight # NoRefresh)
  /\ UNCHANGED <<rotations, inflight, caller, expiries, mishaps>>

\* A new access token outlives the one attempt it was fetched for.
AccessExpires ==
  /\ access = "fresh" /\ expiries < MaxExpiries
  /\ \A c \in Caller : caller[c] # "again"
  /\ access' = "stale" /\ expiries' = expiries + 1
  /\ UNCHANGED <<token, rotations, session, stored, inflight, caller, upset, mishaps>>

\* ensureFreshTokens: a refresh under way is shared, else one is started.
StartsRefresh == inflight = NoRefresh

EnsureFreshTokens ==
  /\ stored # 0
  /\ IF StartsRefresh
     THEN /\ inflight' = [NoRefresh EXCEPT !.token = stored]
          /\ rotations' = {[r EXCEPT !.awaited = FALSE] : r \in rotations}
               \union {[token |-> stored, at |-> "read", awaited |-> TRUE]}
     ELSE UNCHANGED <<inflight, rotations>>

\* attempt: with a token about to expire the refresh comes first; without any the
\* caller is refused at once.
Attempt(c) ==
  /\ caller[c] = "idle" /\ session = "signedIn"
  /\ \/ /\ access # "fresh" /\ EnsureFreshTokens
        /\ caller' = [caller EXCEPT ![c] = "refreshing"]
     \/ /\ access # "none"
        /\ caller' = [caller EXCEPT ![c] = "asking"]
        /\ UNCHANGED <<inflight, rotations>>
  /\ UNCHANGED <<token, session, stored, access, upset, expiries, mishaps>>

\* request: a 401 is followed by one refresh and one more attempt.
Answer(c) ==
  /\ caller[c] \in {"asking", "again"}
  /\ \/ /\ access = "fresh"
        /\ caller' = [caller EXCEPT ![c] = "served"]
        /\ UNCHANGED <<inflight, rotations>>
     \/ /\ access # "fresh" /\ caller[c] = "asking"
        /\ IF stored = 0
           THEN /\ caller' = [caller EXCEPT ![c] = "refused"]
                /\ UNCHANGED <<inflight, rotations>>
           ELSE /\ EnsureFreshTokens
                /\ caller' = [caller EXCEPT ![c] = "refreshing"]
     \/ /\ access # "fresh" /\ caller[c] = "again"
        /\ caller' = [caller EXCEPT ![c] = "refused"]
        /\ UNCHANGED <<inflight, rotations>>
  /\ UNCHANGED <<token, session, stored, access, upset, expiries, mishaps>>

\* doRefresh: the pair is saved, or the session is over; then all its callers go on.
AfterRefresh(outcome) ==
  [c \in Caller |-> IF caller[c] = "refreshing" THEN outcome ELSE caller[c]]

RefreshAnswered ==
  /\ inflight.answer # "none"
  /\ inflight' = NoRefresh
  /\ IF inflight.answer = "ok"
     THEN /\ stored' = inflight.issued /\ access' = "fresh"
          /\ session' = IF session = "loading" THEN "signedIn" ELSE session
          /\ caller' = AfterRefresh("again")
     ELSE /\ stored' = 0 /\ access' = "none" /\ session' = "signedOut"
          /\ caller' = AfterRefresh("refused")
  /\ UNCHANGED <<token, rotations, upset, expiries, mishaps>>

\* The answer does not come in time; the api may still be at work on the request.
RefreshLost ==
  /\ inflight # NoRefresh /\ mishaps < MaxMishaps
  /\ mishaps' = mishaps + 1 /\ upset' = TRUE
  /\ inflight' = NoRefresh
  /\ rotations' = {[r EXCEPT !.awaited = FALSE] : r \in rotations}
  /\ caller' = AfterRefresh("failed")
  /\ session' = IF session = "loading" THEN "error" ELSE session
  /\ UNCHANGED <<token, stored, access, expiries>>

\* The app restarts with what its store holds.
Restart ==
  /\ mishaps < MaxMishaps /\ session # "signedOut"
  /\ mishaps' = mishaps + 1 /\ upset' = (upset \/ inflight # NoRefresh)
  /\ rotations' = {[r EXCEPT !.awaited = FALSE] : r \in rotations}
  /\ inflight' = NoRefresh /\ access' = "none"
  /\ caller' = [c \in Caller |-> "idle"]
  /\ session' = IF stored = 0 THEN "signedOut" ELSE "error"
  /\ UNCHANGED <<token, stored, expiries>>

\* bootstrapSession: the stored token is exchanged before anything is asked.
Bootstrap(c) ==
  /\ session = "error" /\ caller[c] = "idle"
  /\ EnsureFreshTokens
  /\ session' = "loading"
  /\ caller' = [caller EXCEPT ![c] = "refreshing"]
  /\ UNCHANGED <<token, stored, access, upset, expiries, mishaps>>

Settle(c) ==
  /\ caller[c] \in {"served", "failed"} \/ (caller[c] = "refused" /\ session = "signedOut")
  /\ caller' = [caller EXCEPT ![c] = "idle"]
  /\ UNCHANGED <<token, rotations, session, stored, access, inflight, upset, expiries, mishaps>>

Rotate == \E r \in rotations : ReadToken(r) \/ SwapToken(r)
Call == \E c \in Caller : Attempt(c) \/ Answer(c) \/ Bootstrap(c) \/ Settle(c)
Leave == \E reached \in BOOLEAN : SignOut(reached)

SessionNext ==
  SignIn \/ Leave \/ AccessExpires \/ Rotate \/ Call \/ RefreshAnswered \/ RefreshLost \/ Restart

------------------------------------------------------------------------------
SessionTypeOK ==
  /\ token \in [1..MaxTokens -> [family : 0..MaxTokens, live : BOOLEAN]]
  /\ rotations \subseteq [token : 1..MaxTokens, at : {"read", "swap"}, awaited : BOOLEAN]
  /\ session \in {"signedIn", "signedOut", "loading", "error"}
  /\ stored \in 0..MaxTokens /\ access \in {"none", "fresh", "stale"}
  /\ caller \in [Caller -> {"idle", "refreshing", "asking", "again", "served", "refused", "failed"}]

\* However rotations, repeated requests, sign-outs and lost answers interleave, a
\* session never has two refresh tokens that work.
OneLiveToken ==
  \A t, u \in Issued : token[t].family = token[u].family /\ token[t].live /\ token[u].live => t = u

\* While no answer is lost, an app's own requests, however many find their token
\* expired at a time, never cost it its session: no refresh of it is refused.
OwnRequestsKeepTheSession == inflight.answer = "refused" => upset

\* A caller is refused only because the session is over.
RefusedIsOver ==
  (\E c \in Caller : caller[c] = "refused") => upset \/ session = "signedOut" \/ stored = 0
=============================================================================
