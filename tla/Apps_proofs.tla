------------------------------ MODULE Apps_proofs ------------------------------
(***************************************************************************)
(* For any number of requests, tokens, expiries and mishaps: the safety    *)
(* properties of an app's session.  For any number of events, sizes of     *)
(* batches and queues, attempts and counted keys: usage events add up.     *)
(* For any number of parts and workers: parts become one upload.  For any  *)
(* number of cuts and lost answers: the screens and the api agree.         *)
(*                                                                         *)
(* A family has one live token because its rows are replaced one by one:   *)
(* the conditional update takes the token that was live, and its successor *)
(* is new (RowsFit).  While nothing is lost, the app has at most one       *)
(* rotation under way, and it is of the token in its store (AppFits).      *)
(*                                                                         *)
(* At most one batch is out or kept, and it is older than what waits       *)
(* (BatchFits).  What the api counts is a recursion over a batch: that it  *)
(* has a result, and that the result adds up, is proved by the least index *)
(* at which it would not (Least, CountsExist, CountsFit).  So is that the  *)
(* progress of an upload, a sum over its parts, follows them up.           *)
(*                                                                         *)
(* Until somebody else comes in between, a screen's copy is the row, or    *)
(* the row has moved on by itself, and no status of a decision does that   *)
(* (CopyFits, DecisionFits).                                               *)
(***************************************************************************)
EXTENDS MC_Apps, FiniteSetTheorems, SequenceTheorems, WellFoundedInduction, TLAPS

-------------------------------------------------------------------------------
(* The invariant *)

Row == [family : 0 .. MaxTokens, live : BOOLEAN]

Rotation == [token : 1 .. MaxTokens, at : {"read", "swap"}, awaited : BOOLEAN]

Refresh == [token : 0 .. MaxTokens, answer : {"none", "ok", "refused"}, issued : 0 .. MaxTokens]

CallerState == {"idle", "refreshing", "asking", "again", "served", "refused", "failed"}

SessionTyped ==
  /\ token \in [1 .. MaxTokens -> Row] /\ rotations \subseteq Rotation
  /\ session \in {"signedIn", "signedOut", "loading", "error"}
  /\ stored \in 0 .. MaxTokens /\ access \in {"none", "fresh", "stale"}
  /\ inflight \in Refresh /\ caller \in [Caller -> CallerState] /\ upset \in BOOLEAN

\* Tokens are issued one after the other, into families that were founded, and everybody
\* holds issued ones (rotate, issueTokens).
RowsFit ==
  /\ \E n \in 0 .. MaxTokens : Session!Issued = 1 .. n
  /\ \A t \in Session!Issued : token[t].family \in Session!Issued
  /\ {stored, inflight.token, inflight.issued} \subseteq Session!Issued \union {0}
  /\ \A r \in rotations : r.token \in Session!Issued
  /\ Session!OneLiveToken

\* Who asks again has a new access token, or the user has left (doRefresh).
AskedAgainIsFresh ==
  (\E c \in Caller : caller[c] = "again") => access = "fresh" \/ session = "signedOut"

\* While no answer is lost and nobody leaves in the middle of a refresh, the app and the api
\* agree: the token in the store, or the one its answer brings, is live, and the api has one
\* rotation for the refresh the app awaits and no other.
AppFits ==
  /\ session = "signedOut" <=> stored = 0
  /\ session = "signedOut" => inflight = Session!NoRefresh
  /\ inflight.answer # "refused"
  /\ inflight.answer = "ok" => inflight.issued # 0 /\ token[inflight.issued].live
  /\ inflight.answer # "ok" /\ stored # 0 => token[stored].live
  /\ inflight.answer = "none" /\ inflight # Session!NoRefresh => inflight.token = stored
  /\ \A r \in rotations :
       /\ inflight # Session!NoRefresh /\ inflight.answer = "none"
       /\ r.awaited /\ r.token = inflight.token
  /\ \A q, r \in rotations : q = r

SessionInv ==
  /\ SessionTyped /\ RowsFit /\ AskedAgainIsFresh
  /\ ~ upset => AppFits
  /\ Session!RefusedIsOver

-------------------------------------------------------------------------------
(* What the steps do to the rows *)

\* An instance's operator is the library's.
LEMMA SameCount == ASSUME NEW S PROVE Session!Cardinality(S) = Cardinality(S)
BY DEF Session!Cardinality, Cardinality

\* The next token is the one after those issued.
LEMMA NextIsNew ==
  ASSUME SessionTyped, NEW n \in 0 .. MaxTokens, Session!Issued = 1 .. n
  PROVE  Session!NextToken = n + 1
<1>1. Cardinality(1 .. n) = n
  BY FS_Interval, TokenAssumption
<1> QED
  BY <1>1, SameCount DEF Session!NextToken

\* Revoking a family takes nothing from the rows but their life (rotate, logout).
LEMMA Revoking ==
  ASSUME SessionTyped, NEW f \in 0 .. MaxTokens, token' = Session!RevokeFamily(token, f)
  PROVE  /\ token' \in [1 .. MaxTokens -> Row]
         /\ \A t \in 1 .. MaxTokens : token'[t].family = token[t].family
         /\ \A t \in 1 .. MaxTokens : token'[t].live => token[t].live
         /\ \A t \in 1 .. MaxTokens : token[t].family # f => token'[t] = token[t]
         /\ Session!Issued' = Session!Issued
<1>1. ASSUME NEW t \in 1 .. MaxTokens
      PROVE  /\ token'[t] = IF token[t].family = f THEN [token[t] EXCEPT !.live = FALSE] ELSE token[t]
             /\ token[t] \in Row
  BY DEF Session!RevokeFamily, SessionTyped
<1>2. ASSUME NEW t \in 1 .. MaxTokens
      PROVE  /\ token'[t] \in Row /\ token'[t].family = token[t].family
             /\ token'[t].live => token[t].live
             /\ token[t].family # f => token'[t] = token[t]
  BY <1>1 DEF Row
<1>3. token' \in [1 .. MaxTokens -> Row]
  BY <1>2 DEF Session!RevokeFamily
<1>4. Session!Issued' = Session!Issued
  BY <1>2 DEF Session!Issued
<1> QED
  BY <1>2, <1>3, <1>4

\* Where tokens only die, the rows fit as before.
LEMMA RowsStay ==
  ASSUME SessionTyped, RowsFit,
         Session!Issued' = Session!Issued,
         \A t \in 1 .. MaxTokens : token'[t].family = token[t].family
                                    /\ (token'[t].live => token[t].live),
         {stored', inflight'.token, inflight'.issued} \subseteq Session!Issued \union {0},
         \A r \in rotations' : r.token \in Session!Issued
  PROVE  RowsFit'
<1>1. Session!Issued \subseteq 1 .. MaxTokens
  BY DEF Session!Issued
<1>2. \A t \in Session!Issued' : token'[t].family \in Session!Issued'
  BY <1>1 DEF RowsFit
<1>3. Session!OneLiveToken'
  <2> SUFFICES ASSUME NEW t \in Session!Issued, NEW u \in Session!Issued,
                      token'[t].family = token'[u].family, token'[t].live, token'[u].live
               PROVE  t = u
    BY DEF Session!OneLiveToken
  <2>1. token[t].family = token[u].family /\ token[t].live /\ token[u].live
    BY <1>1
  <2> QED
    BY <2>1 DEF RowsFit, Session!OneLiveToken
<1> QED
  BY <1>2, <1>3 DEF RowsFit

-------------------------------------------------------------------------------
(* What the steps of the app share *)

\* A request that finds its access token out of date shares the refresh under way, or starts
\* the one there is (ensureFreshTokens).
LEMMA Refreshing ==
  ASSUME SessionTyped, RowsFit, Session!EnsureFreshTokens, UNCHANGED <<token, stored>>
  PROVE  /\ stored # 0 /\ inflight' \in Refresh /\ rotations' \subseteq Rotation
         /\ {inflight'.token, inflight'.issued} \subseteq Session!Issued \union {0}
         /\ \A r \in rotations' : r.token \in Session!Issued
         /\ AppFits /\ session' \in {session, "loading"} => AppFits'
<1>1. /\ stored # 0 /\ stored \in Session!Issued /\ Session!Issued \subseteq 1 .. MaxTokens
      /\ stored \in 0 .. MaxTokens /\ inflight \in Refresh /\ rotations \subseteq Rotation
      /\ {inflight.token, inflight.issued} \subseteq Session!Issued \union {0}
      /\ \A r \in rotations : r.token \in Session!Issued
  BY DEF Session!EnsureFreshTokens, RowsFit, SessionTyped, Session!Issued
<1>2. CASE inflight # Session!NoRefresh
  <2>1. UNCHANGED <<inflight, rotations>>
    BY <1>2 DEF Session!EnsureFreshTokens, Session!StartsRefresh
  <2> QED
    BY <1>1, <2>1 DEF AppFits
<1>3. CASE inflight = Session!NoRefresh
  <2> DEFINE new == [token |-> stored, at |-> "read", awaited |-> TRUE]
  <2>1. /\ inflight' = [Session!NoRefresh EXCEPT !.token = stored]
        /\ rotations' = {[r EXCEPT !.awaited = FALSE] : r \in rotations} \union {new}
    BY <1>3 DEF Session!EnsureFreshTokens, Session!StartsRefresh
  <2>2. new \in Rotation /\ new.token = stored /\ new.awaited
    BY <1>1 DEF Rotation
  <2>3. /\ inflight' \in Refresh /\ inflight'.token = stored /\ inflight'.answer = "none"
        /\ inflight'.issued = 0 /\ inflight' # Session!NoRefresh
    <3>1. inflight' = [token |-> stored, answer |-> "none", issued |-> 0]
      BY <2>1 DEF Session!NoRefresh
    <3>2. Session!NoRefresh.token = 0
      BY DEF Session!NoRefresh
    <3>3. inflight'.token = stored /\ inflight'.answer = "none" /\ inflight'.issued = 0
      BY <3>1
    <3>4. inflight' \in Refresh
      BY <1>1, <3>1, TokenAssumption DEF Refresh
    <3> QED
      BY <1>1, <3>2, <3>3, <3>4
  <2>4. ASSUME NEW r \in rotations
        PROVE  /\ [r EXCEPT !.awaited = FALSE] \in Rotation
               /\ [r EXCEPT !.awaited = FALSE].token = r.token
    BY <1>1 DEF Rotation
  <2> HIDE DEF new
  <2>5. rotations' \subseteq Rotation /\ \A r \in rotations' : r.token \in Session!Issued
    BY <1>1, <2>1, <2>2, <2>4
  <2>6. ASSUME AppFits, session' \in {session, "loading"} PROVE AppFits'
    <3>1. rotations = {}
      BY <1>3, <2>6 DEF AppFits
    <3>2. rotations' = {new}
      BY <2>1, <3>1
    <3>3. session # "signedOut" /\ token[stored].live
      BY <1>1, <1>3, <2>6 DEF AppFits, Session!NoRefresh
    <3> QED
      BY <1>1, <2>2, <2>3, <2>6, <3>2, <3>3 DEF AppFits
  <2> QED
    BY <1>1, <2>3, <2>5, <2>6
<1> QED
  BY <1>2, <1>3

\* A rotation nobody awaits any more is still a rotation of its token.
LEMMA Disowned ==
  ASSUME SessionTyped, rotations' = {[r EXCEPT !.awaited = FALSE] : r \in rotations}
  PROVE  /\ rotations' \subseteq Rotation
         /\ \A q \in rotations' : \E r \in rotations : q.token = r.token
         /\ rotations = {} => rotations' = {}
<1>1. ASSUME NEW r \in rotations
      PROVE  /\ [r EXCEPT !.awaited = FALSE] \in Rotation
             /\ [r EXCEPT !.awaited = FALSE].token = r.token
  BY DEF SessionTyped, Rotation
<1> QED
  BY <1>1

\* After a refresh its callers go on, and nobody else (doRefresh).
LEMMA CallersGoOn ==
  ASSUME SessionTyped, NEW ending \in CallerState, caller' = Session!AfterRefresh(ending)
  PROVE  /\ caller' \in [Caller -> CallerState]
         /\ \A c \in Caller : caller'[c] \in {caller[c], ending}
BY DEF Session!AfterRefresh, SessionTyped

-------------------------------------------------------------------------------
(* The steps of the api *)

\* Part 1 of rotate: a live token goes on to its replacement, a replaced one closes its
\* family, which an app that agrees with the api never presents.
LEMMA ReadTokenKeeps ==
  ASSUME SessionInv, NEW r \in rotations, Session!ReadToken(r)
  PROVE  SessionInv'
<1>0. SessionTyped /\ RowsFit /\ AskedAgainIsFresh /\ (~ upset => AppFits) /\ Session!RefusedIsOver
  BY DEF SessionInv
<1>1. /\ r \in Rotation /\ r.token \in Session!Issued /\ Session!Issued \subseteq 1 .. MaxTokens
      /\ UNCHANGED <<session, stored, access, caller, upset>>
  BY <1>0 DEF SessionTyped, RowsFit, Session!Issued, Session!ReadToken
<1>2. AskedAgainIsFresh' /\ Session!RefusedIsOver'
  BY <1>0, <1>1 DEF AskedAgainIsFresh, Session!RefusedIsOver
<1>3. CASE token[r.token].live
  <2>1. PICK n \in Rotation : /\ rotations' = (rotations \ {r}) \union {n}
                              /\ n.token = r.token /\ n.awaited = r.awaited
    <3> DEFINE n == [r EXCEPT !.at = "swap"]
    <3>1. n \in Rotation /\ n.token = r.token /\ n.awaited = r.awaited
      BY <1>1 DEF Rotation
    <3>2. rotations' = (rotations \ {r}) \union {n}
      BY <1>3 DEF Session!ReadToken
    <3> QED
      BY <3>1, <3>2
  <2>2. UNCHANGED <<token, inflight>>
    BY <1>3 DEF Session!ReadToken
  <2>3. SessionTyped'
    BY <1>0, <1>1, <2>1, <2>2 DEF SessionTyped
  <2>4. Session!Issued' = Session!Issued
    BY <2>2 DEF Session!Issued
  <2>5. RowsFit'
    BY <1>0, <1>1, <2>1, <2>2, <2>4, RowsStay DEF RowsFit
  <2>6. ASSUME ~ upset PROVE AppFits'
    <3>1. rotations = {r} /\ rotations' = {n}
      BY <1>0, <2>1, <2>6 DEF AppFits
    <3> QED
      BY <1>0, <1>1, <2>1, <2>2, <2>6, <3>1 DEF AppFits
  <2> QED
    BY <1>1, <1>2, <2>3, <2>5, <2>6 DEF SessionInv
<1>4. CASE ~ token[r.token].live
  <2>1. /\ rotations' = rotations \ {r}
        /\ token' = Session!RevokeFamily(token, token[r.token].family)
        /\ inflight' = IF r.awaited THEN [inflight EXCEPT !.answer = "refused"] ELSE inflight
    BY <1>4 DEF Session!ReadToken
  <2>2. token[r.token].family \in 0 .. MaxTokens
    BY <1>0, <1>1 DEF SessionTyped, Row
  <2>3. inflight' \in Refresh /\ inflight'.token = inflight.token /\ inflight'.issued = inflight.issued
    BY <1>0, <2>1 DEF SessionTyped, Refresh
  <2>4. upset
    <3> SUFFICES ASSUME ~ upset PROVE FALSE
      BY <1>0 DEF SessionTyped
    <3>1. r.token = stored /\ inflight.answer = "none"
      BY <1>0 DEF AppFits
    <3>2. stored # 0
      BY <1>1, <3>1, TokenAssumption
    <3> QED
      BY <1>0, <1>4, <3>1, <3>2 DEF AppFits
  <2>5. SessionTyped'
    BY <1>0, <1>1, <2>1, <2>2, <2>3, Revoking DEF SessionTyped
  <2>6. RowsFit'
    <3>1. {stored', inflight'.token, inflight'.issued} \subseteq Session!Issued \union {0}
      BY <1>0, <1>1, <2>3 DEF RowsFit
    <3>2. \A q \in rotations' : q.token \in Session!Issued
      BY <1>0, <2>1 DEF RowsFit
    <3> QED
      BY <1>0, <2>1, <2>2, <3>1, <3>2, Revoking, RowsStay
  <2> QED
    BY <1>1, <1>2, <2>4, <2>5, <2>6 DEF SessionInv
<1> QED
  BY <1>3, <1>4

\* A token's successor is new: it is alone in the life of its family.
LEMMA Issuing ==
  ASSUME SessionTyped, RowsFit, NEW n \in 0 .. MaxTokens - 1, Session!Issued = 1 .. n,
         NEW rows \in [1 .. MaxTokens -> Row], NEW f \in 1 .. n + 1,
         \A t \in 1 .. MaxTokens : rows[t].family = token[t].family /\ (rows[t].live => token[t].live),
         \A t \in 1 .. n : ~ (rows[t].family = f /\ rows[t].live),
         NEW new \in Row, new.family = f, new.live, token' = [rows EXCEPT ![n + 1] = new],
         stored' \in 0 .. n + 1, inflight'.token \in 0 .. n + 1, inflight'.issued \in 0 .. n + 1,
         \A r \in rotations' : r.token \in Session!Issued
  PROVE  /\ RowsFit' /\ token' \in [1 .. MaxTokens -> Row] /\ token'[n + 1].live
         /\ \A t \in 1 .. MaxTokens : t # n + 1 => token'[t] = rows[t]
<1>1. n \in Nat /\ n + 1 \in 1 .. MaxTokens /\ f \in 0 .. MaxTokens /\ f # 0 /\ MaxTokens \in Nat
  BY TokenAssumption
<1>2. new \in Row /\ new.family = f /\ new.live
  OBVIOUS
<1>3. token' = [rows EXCEPT ![n + 1] = new]
  OBVIOUS
<1>4. /\ token' \in [1 .. MaxTokens -> Row] /\ token'[n + 1] = new
      /\ \A t \in 1 .. MaxTokens : t # n + 1 => token'[t] = rows[t]
  BY <1>1, <1>2, <1>3
<1>5. Session!Issued' = 1 .. n + 1
  <2>1. \A t \in 1 .. MaxTokens : token[t].family # 0 <=> t \in 1 .. n
    BY DEF Session!Issued
  <2>2. ASSUME NEW t \in 1 .. MaxTokens PROVE token'[t].family # 0 <=> t \in 1 .. n + 1
    <3>1. CASE t = n + 1
      BY <1>1, <1>2, <1>4, <3>1
    <3>2. CASE t # n + 1
      <4>1. token'[t].family = token[t].family
        BY <1>4, <3>2
      <4>2. t \in 1 .. n + 1 <=> t \in 1 .. n
        BY <1>1, <3>2
      <4> QED
        BY <2>1, <4>1, <4>2
    <3> QED
      BY <3>1, <3>2
  <2>3. 1 .. n + 1 \subseteq 1 .. MaxTokens
    BY <1>1
  <2> QED
    BY <2>2, <2>3 DEF Session!Issued
<1>6. \A t \in Session!Issued' : token'[t].family \in Session!Issued'
  <2> SUFFICES ASSUME NEW t \in 1 .. n + 1 PROVE token'[t].family \in 1 .. n + 1
    BY <1>5
  <2>1. CASE t = n + 1
    BY <1>2, <1>4, <2>1
  <2>2. CASE t # n + 1
    <3>1. t \in 1 .. n /\ t \in 1 .. MaxTokens
      BY <1>1, <2>2
    <3>2. token'[t].family = token[t].family /\ token[t].family \in 1 .. n
      BY <1>4, <2>2, <3>1 DEF RowsFit
    <3> QED
      BY <1>1, <3>2
  <2> QED
    BY <2>1, <2>2
<1>7. Session!OneLiveToken'
  <2> SUFFICES ASSUME NEW t \in 1 .. n + 1, NEW u \in 1 .. n + 1,
                      token'[t].family = token'[u].family, token'[t].live, token'[u].live
               PROVE  t = u
    BY <1>5 DEF Session!OneLiveToken
  <2>1. t \in 1 .. MaxTokens /\ u \in 1 .. MaxTokens
    BY <1>1
  <2>2. CASE t # n + 1 /\ u # n + 1
    <3>1. t \in 1 .. n
      BY <1>1, <2>2
    <3>4. u \in 1 .. n
      BY <1>1, <2>2
    <3>2. token'[t] = rows[t] /\ token'[u] = rows[u]
      BY <1>4, <2>1, <2>2
    <3>3. token[t].family = token[u].family /\ token[t].live /\ token[u].live
      BY <2>1, <3>2
    <3> QED
      BY <3>1, <3>3, <3>4 DEF RowsFit, Session!OneLiveToken
  <2>3. CASE t = n + 1 /\ u # n + 1
    <3>1. u \in 1 .. n /\ token'[u] = rows[u]
      BY <1>1, <1>4, <2>1, <2>3
    <3> QED
      BY <1>2, <1>4, <2>3, <3>1
  <2>4. CASE u = n + 1 /\ t # n + 1
    <3>1. t \in 1 .. n /\ token'[t] = rows[t]
      BY <1>1, <1>4, <2>1, <2>4
    <3> QED
      BY <1>2, <1>4, <2>4, <3>1
  <2> QED
    BY <2>2, <2>3, <2>4
<1>8. \A r \in rotations' : r.token \in Session!Issued'
  BY <1>1, <1>5
<1>9. {stored', inflight'.token, inflight'.issued} \subseteq Session!Issued' \union {0}
  BY <1>1, <1>5
<1>10. RowsFit'
  BY <1>1, <1>5, <1>6, <1>7, <1>8, <1>9 DEF RowsFit
<1> QED
  BY <1>2, <1>4, <1>10

\* Part 2 of rotate: the token that is still live is replaced; one that somebody used
\* meanwhile closes its family.
LEMMA SwapTokenKeeps ==
  ASSUME SessionInv, NEW r \in rotations, Session!SwapToken(r)
  PROVE  SessionInv'
<1>0. SessionTyped /\ RowsFit /\ AskedAgainIsFresh /\ (~ upset => AppFits) /\ Session!RefusedIsOver
  BY DEF SessionInv
<1>1. /\ r \in Rotation /\ r.token \in Session!Issued /\ Session!Issued \subseteq 1 .. MaxTokens
      /\ UNCHANGED <<session, stored, access, caller, upset>>
      /\ rotations' = rotations \ {r}
  BY <1>0 DEF SessionTyped, RowsFit, Session!Issued, Session!SwapToken
<1>2. AskedAgainIsFresh' /\ Session!RefusedIsOver'
  BY <1>0, <1>1 DEF AskedAgainIsFresh, Session!RefusedIsOver
<1>3. ~ upset => r.token = stored /\ stored # 0 /\ inflight # Session!NoRefresh
                 /\ token[stored].live /\ r.awaited /\ rotations' = {}
  <2> SUFFICES ASSUME ~ upset
               PROVE  r.token = stored /\ stored # 0 /\ inflight # Session!NoRefresh
                        /\ token[stored].live /\ r.awaited /\ rotations' = {}
    OBVIOUS
  <2>1. r.token = stored /\ inflight.answer = "none" /\ inflight # Session!NoRefresh /\ r.awaited
    BY <1>0 DEF AppFits
  <2>2. stored # 0
    BY <1>1, <2>1, TokenAssumption
  <2>3. rotations' = {}
    BY <1>0, <1>1 DEF AppFits
  <2> QED
    BY <1>0, <2>1, <2>2, <2>3 DEF AppFits
<1>4. CASE token[r.token].live
  <2>1. PICK n \in 0 .. MaxTokens : Session!Issued = 1 .. n
    BY <1>0 DEF RowsFit
  <2>2. Session!NextToken = n + 1
    BY <1>0, <2>1, NextIsNew
  <2> DEFINE f == token[r.token].family
             rows == [token EXCEPT ![r.token].live = FALSE]
  <2>3. /\ n + 1 <= MaxTokens
        /\ token' = [rows EXCEPT ![n + 1] = [family |-> f, live |-> TRUE]]
        /\ inflight' = IF r.awaited THEN [inflight EXCEPT !.answer = "ok", !.issued = n + 1] ELSE inflight
    BY <1>4, <2>2 DEF Session!SwapToken, Session!WinsSwap
  <2>4. n \in 0 .. MaxTokens - 1 /\ n + 1 \in 1 .. MaxTokens /\ r.token \in 1 .. n
        /\ r.token \in 1 .. MaxTokens
    BY <1>1, <2>1, <2>3, TokenAssumption
  <2>5. f \in 1 .. n /\ f \in 1 .. n + 1
    BY <1>0, <1>1, <2>1 DEF RowsFit
  <2>6. /\ rows \in [1 .. MaxTokens -> Row]
        /\ \A t \in 1 .. MaxTokens : rows[t].family = token[t].family /\ (rows[t].live => token[t].live)
        /\ ~ rows[r.token].live /\ \A t \in 1 .. MaxTokens : t # r.token => rows[t] = token[t]
    BY <1>0, <2>4 DEF SessionTyped, Row
  <2> HIDE DEF rows
  <2>7. \A t \in 1 .. n : ~ (rows[t].family = f /\ rows[t].live)
    <3> SUFFICES ASSUME NEW t \in 1 .. n, rows[t].family = f, rows[t].live PROVE FALSE
      OBVIOUS
    <3>1. t \in 1 .. MaxTokens
      BY <2>4, TokenAssumption
    <3>3. t # r.token
      BY <2>6
    <3>2. token[t].family = token[r.token].family /\ token[t].live
      BY <2>6, <3>1, <3>3 DEF f
    <3> QED
      BY <1>0, <1>1, <1>4, <2>1, <3>1, <3>2, <3>3 DEF RowsFit, Session!OneLiveToken
  <2>8. /\ inflight' \in Refresh /\ inflight'.token = inflight.token
        /\ inflight'.issued \in {inflight.issued, n + 1}
        /\ r.awaited => inflight'.answer = "ok" /\ inflight'.issued = n + 1
    <3>1. inflight \in Refresh /\ n + 1 \in 0 .. MaxTokens
      BY <1>0, <2>4, TokenAssumption DEF SessionTyped
    <3>2. CASE r.awaited
      BY <2>3, <3>1, <3>2 DEF Refresh
    <3>3. CASE ~ r.awaited
      BY <2>3, <3>1, <3>3
    <3> QED
      BY <3>2, <3>3
  <2>9. {stored', inflight'.token, inflight'.issued} \subseteq 0 .. n + 1
    BY <1>0, <1>1, <2>1, <2>4, <2>8 DEF RowsFit
  <2>10. \A q \in rotations' : q.token \in Session!Issued
    BY <1>0, <1>1 DEF RowsFit
  <2> HIDE DEF f
  <2>11. /\ RowsFit' /\ token' \in [1 .. MaxTokens -> Row] /\ token'[n + 1].live
         /\ \A t \in 1 .. MaxTokens : t # n + 1 => token'[t] = rows[t]
    <3>1. token' = [rows EXCEPT ![n + 1] = [family |-> f, live |-> TRUE]]
      BY <2>3
    <3>2. n \in 0 .. MaxTokens - 1 /\ f \in 1 .. n + 1 /\ rows \in [1 .. MaxTokens -> Row]
      BY <2>4, <2>5, <2>6
    <3>3. \A t \in 1 .. MaxTokens : rows[t].family = token[t].family /\ (rows[t].live => token[t].live)
      BY <2>6
    <3>4. /\ SessionTyped /\ RowsFit /\ Session!Issued = 1 .. n
          /\ \A t \in 1 .. n : ~ (rows[t].family = f /\ rows[t].live)
      BY <1>0, <2>1, <2>7
    <3>5. PICK new : new = [family |-> f, live |-> TRUE]
      OBVIOUS
    <3>6. new \in Row /\ new.family = f /\ new.live
      BY <2>4, <3>2, <3>5, TokenAssumption DEF Row
    <3>7. token' = [rows EXCEPT ![n + 1] = new]
      BY <3>1, <3>5
    <3>8. stored' \in 0 .. n + 1 /\ inflight'.token \in 0 .. n + 1 /\ inflight'.issued \in 0 .. n + 1
      BY <2>9
    <3> QED
      BY <2>10, <3>2, <3>3, <3>4, <3>6, <3>7, <3>8, Issuing
  <2>12. SessionTyped'
    BY <1>0, <1>1, <2>8, <2>11 DEF SessionTyped
  <2>13. ASSUME ~ upset PROVE AppFits'
    <3>1. inflight'.answer = "ok" /\ inflight'.issued = n + 1 /\ inflight'.issued # 0 /\ n + 1 # 0
      BY <1>3, <2>4, <2>8, <2>13
    <3>2. session # "signedOut"
      BY <1>0, <1>3, <2>13 DEF AppFits
    <3> QED
      BY <1>0, <1>1, <1>3, <2>11, <2>13, <3>1, <3>2 DEF AppFits
  <2> QED
    BY <1>1, <1>2, <2>11, <2>12, <2>13 DEF SessionInv
<1>5. CASE ~ token[r.token].live
  <2>1. /\ token' = Session!RevokeFamily(token, token[r.token].family)
        /\ inflight' = IF r.awaited THEN [inflight EXCEPT !.answer = "refused"] ELSE inflight
    BY <1>5 DEF Session!SwapToken, Session!WinsSwap
  <2>2. token[r.token].family \in 0 .. MaxTokens
    BY <1>0, <1>1 DEF SessionTyped, Row
  <2>3. inflight' \in Refresh /\ inflight'.token = inflight.token /\ inflight'.issued = inflight.issued
    BY <1>0, <2>1 DEF SessionTyped, Refresh
  <2>4. upset
    BY <1>0, <1>3, <1>5 DEF SessionTyped
  <2>5. SessionTyped'
    BY <1>0, <1>1, <2>1, <2>2, <2>3, Revoking DEF SessionTyped
  <2>6. {stored', inflight'.token, inflight'.issued} \subseteq Session!Issued \union {0}
    BY <1>0, <1>1, <2>3 DEF RowsFit
  <2>7. \A q \in rotations' : q.token \in Session!Issued
    BY <1>0, <1>1 DEF RowsFit
  <2>8. RowsFit'
    BY <1>0, <2>1, <2>2, <2>6, <2>7, Revoking, RowsStay
  <2> QED
    BY <1>1, <1>2, <2>4, <2>5, <2>8 DEF SessionInv
<1> QED
  BY <1>4, <1>5

-------------------------------------------------------------------------------
(* The steps of the app *)

\* A session begins with the first token of a family of its own (signIn).
LEMMA SignInKeeps == ASSUME SessionInv, Session!SignIn PROVE SessionInv'
<1>0. SessionTyped /\ RowsFit /\ (~ upset => AppFits)
  BY DEF SessionInv
<1>1. PICK n \in 0 .. MaxTokens : Session!Issued = 1 .. n
  BY <1>0 DEF RowsFit
<1>2. Session!NextToken = n + 1
  BY <1>0, <1>1, NextIsNew
<1>3. /\ session = "signedOut" /\ n + 1 < MaxTokens /\ \A c \in Caller : caller[c] = "idle"
      /\ token' = [token EXCEPT ![n + 1] = [family |-> n + 1, live |-> TRUE]]
      /\ stored' = n + 1 /\ access' = "fresh" /\ session' = "signedIn"
      /\ UNCHANGED <<rotations, inflight, caller, upset>>
  BY <1>2 DEF Session!SignIn
<1>4. n \in 0 .. MaxTokens - 1 /\ n + 1 \in 1 .. n + 1 /\ n + 1 \in 0 .. MaxTokens /\ n + 1 # 0
  BY <1>3, TokenAssumption
<1>5. \A t \in 1 .. n : ~ (token[t].family = n + 1 /\ token[t].live)
  <2> SUFFICES ASSUME NEW t \in 1 .. n PROVE token[t].family # n + 1
    OBVIOUS
  <2>1. token[t].family \in 1 .. n
    BY <1>0, <1>1 DEF RowsFit
  <2> QED
    BY <1>4, <2>1
<1>6. {stored', inflight'.token, inflight'.issued} \subseteq 0 .. n + 1
  BY <1>0, <1>1, <1>3, <1>4 DEF RowsFit
<1>7. /\ \A r \in rotations' : r.token \in Session!Issued
      /\ token \in [1 .. MaxTokens -> Row]
  BY <1>0, <1>3 DEF RowsFit, SessionTyped
<1>8. RowsFit' /\ token' \in [1 .. MaxTokens -> Row] /\ token'[n + 1].live
  <2>1. token' = [token EXCEPT ![n + 1] = [family |-> n + 1, live |-> TRUE]]
    BY <1>3
  <2>2. \A t \in 1 .. MaxTokens :
           token[t].family = token[t].family /\ (token[t].live => token[t].live)
    OBVIOUS
  <2>3. SessionTyped /\ RowsFit /\ Session!Issued = 1 .. n
    BY <1>0, <1>1
  <2>4. PICK new : new = [family |-> n + 1, live |-> TRUE]
    OBVIOUS
  <2>5. new \in Row /\ new.family = n + 1 /\ new.live
    BY <1>4, <2>4, TokenAssumption DEF Row
  <2>6. token' = [token EXCEPT ![n + 1] = new]
    BY <2>1, <2>4
  <2>7. stored' \in 0 .. n + 1 /\ inflight'.token \in 0 .. n + 1 /\ inflight'.issued \in 0 .. n + 1
    BY <1>6
  <2> QED
    BY <1>4, <1>5, <1>7, <2>2, <2>3, <2>5, <2>6, <2>7, Issuing
<1>9. SessionTyped'
  BY <1>0, <1>3, <1>4, <1>8 DEF SessionTyped
<1>10. AskedAgainIsFresh' /\ Session!RefusedIsOver'
  BY <1>3 DEF AskedAgainIsFresh, Session!RefusedIsOver
<1>11. ASSUME ~ upset PROVE AppFits'
  <2>1. inflight = Session!NoRefresh /\ inflight.answer = "none"
    BY <1>0, <1>3, <1>11 DEF AppFits, Session!NoRefresh
  <2>2. rotations = {}
    BY <1>0, <1>11, <2>1 DEF AppFits
  <2> QED
    BY <1>3, <1>4, <1>8, <2>1, <2>2 DEF AppFits
<1> QED
  BY <1>3, <1>8, <1>9, <1>10, <1>11 DEF SessionInv

\* The user leaves: the store is cleared, whether or not the server closes the family; a
\* refresh that is under way is on record (signOut).
LEMMA SignOutKeeps ==
  ASSUME SessionInv, NEW reached \in BOOLEAN, Session!SignOut(reached)
  PROVE  SessionInv'
<1>0. SessionTyped /\ RowsFit /\ (~ upset => AppFits)
  BY DEF SessionInv
<1>1. /\ token' = IF reached /\ stored # 0 THEN Session!RevokeFamily(token, token[stored].family)
                  ELSE token
      /\ stored' = 0 /\ access' = "none" /\ session' = "signedOut"
      /\ upset' = (upset \/ inflight # Session!NoRefresh)
      /\ UNCHANGED <<rotations, inflight, caller>>
  BY DEF Session!SignOut
<1>2. /\ token' \in [1 .. MaxTokens -> Row] /\ Session!Issued' = Session!Issued
      /\ \A t \in 1 .. MaxTokens : token'[t].family = token[t].family
                                    /\ (token'[t].live => token[t].live)
  <2>1. CASE reached /\ stored # 0
    <3>1. stored \in 1 .. MaxTokens
      BY <1>0, <2>1, TokenAssumption DEF SessionTyped
    <3>2. token[stored].family \in 0 .. MaxTokens
      BY <1>0, <3>1 DEF SessionTyped, Row
    <3> QED
      BY <1>0, <1>1, <2>1, <3>2, Revoking
  <2>2. CASE ~ (reached /\ stored # 0)
    BY <1>0, <1>1, <2>2 DEF SessionTyped, Session!Issued
  <2> QED
    BY <2>1, <2>2
<1>3. 0 \in 0 .. MaxTokens
  BY TokenAssumption
<1>4. SessionTyped'
  BY <1>0, <1>1, <1>2, <1>3 DEF SessionTyped
<1>5. RowsFit'
  <2>1. /\ {stored', inflight'.token, inflight'.issued} \subseteq Session!Issued \union {0}
        /\ \A r \in rotations' : r.token \in Session!Issued
    BY <1>0, <1>1 DEF RowsFit
  <2> QED
    BY <1>0, <1>2, <2>1, RowsStay
<1>6. AskedAgainIsFresh' /\ Session!RefusedIsOver'
  BY <1>1 DEF AskedAgainIsFresh, Session!RefusedIsOver
<1>7. ASSUME ~ upset' PROVE AppFits'
  <2>0. ~ upset /\ inflight = Session!NoRefresh
    BY <1>0, <1>1, <1>7 DEF SessionTyped
  <2>1. ~ upset /\ inflight = Session!NoRefresh /\ inflight.answer = "none"
    BY <2>0 DEF Session!NoRefresh
  <2>2. rotations = {}
    BY <1>0, <2>1 DEF AppFits
  <2> QED
    BY <1>1, <2>1, <2>2 DEF AppFits
<1> QED
  BY <1>4, <1>5, <1>6, <1>7 DEF SessionInv

\* An access token runs out when nobody asks again with it.
LEMMA AccessExpiresKeeps == ASSUME SessionInv, Session!AccessExpires PROVE SessionInv'
<1>1. /\ \A c \in Caller : caller[c] # "again"
      /\ access' = "stale" /\ UNCHANGED <<token, rotations, session, stored, inflight, caller, upset>>
  BY DEF Session!AccessExpires
<1>2. SessionTyped' /\ RowsFit'
  BY <1>1 DEF SessionInv, SessionTyped, RowsFit, Session!OneLiveToken, Session!Issued
<1>3. AskedAgainIsFresh' /\ Session!RefusedIsOver' /\ (~ upset' => AppFits')
  BY <1>1 DEF SessionInv, AskedAgainIsFresh, Session!RefusedIsOver, AppFits
<1> QED
  BY <1>2, <1>3 DEF SessionInv

\* A caller that changes while a refresh is shared, started or left alone.
LEMMA CallerMoves ==
  ASSUME SessionInv, NEW c \in Caller, NEW to \in CallerState,
         caller' = [caller EXCEPT ![c] = to], UNCHANGED <<token, stored, access, upset>>,
         session' \in {session, "loading"}, session # "signedOut" \/ session' = session,
         to # "again",
         to = "refused" => stored = 0 \/ session = "signedOut",
         session' # session => \A d \in Caller \ {c} : caller[d] # "refused" \/ upset \/ stored = 0,
         \/ UNCHANGED <<inflight, rotations>> /\ session' = session
         \/ Session!EnsureFreshTokens
  PROVE  SessionInv'
<1>0. /\ SessionTyped /\ RowsFit /\ AskedAgainIsFresh /\ (~ upset => AppFits)
      /\ Session!RefusedIsOver
  BY DEF SessionInv
<1>1. /\ inflight' \in Refresh /\ rotations' \subseteq Rotation
      /\ {inflight'.token, inflight'.issued} \subseteq Session!Issued \union {0}
      /\ \A r \in rotations' : r.token \in Session!Issued
      /\ AppFits => AppFits'
  <2>1. CASE UNCHANGED <<inflight, rotations>> /\ session' = session
    BY <1>0, <2>1 DEF SessionTyped, RowsFit, AppFits
  <2>2. CASE Session!EnsureFreshTokens
    BY <1>0, <2>2, Refreshing
  <2> QED
    BY <2>1, <2>2
<1>2. SessionTyped'
  BY <1>0, <1>1 DEF SessionTyped
<1>3. RowsFit'
  <2>1. Session!Issued' = Session!Issued
    BY DEF Session!Issued
  <2>2. {stored', inflight'.token, inflight'.issued} \subseteq Session!Issued \union {0}
    BY <1>0, <1>1 DEF RowsFit
  <2> QED
    BY <1>0, <1>1, <2>1, <2>2, RowsStay
<1>4. \A d \in Caller : caller'[d] = IF d = c THEN to ELSE caller[d]
  BY <1>0 DEF SessionTyped
<1>5. AskedAgainIsFresh'
  BY <1>0, <1>4 DEF AskedAgainIsFresh
<1>6. Session!RefusedIsOver'
  BY <1>0, <1>4 DEF Session!RefusedIsOver
<1> QED
  BY <1>0, <1>1, <1>2, <1>3, <1>5, <1>6 DEF SessionInv

\* A request is made: with a token about to expire the refresh comes first (attempt).
LEMMA AttemptKeeps == ASSUME SessionInv, NEW c \in Caller, Session!Attempt(c) PROVE SessionInv'
<1>1. session = "signedIn" /\ UNCHANGED <<token, session, stored, access, upset>>
  BY DEF Session!Attempt
<1>2. CASE Session!EnsureFreshTokens /\ caller' = [caller EXCEPT ![c] = "refreshing"]
  <2>1. "refreshing" \in CallerState
    BY DEF CallerState
  <2> QED
    BY <1>1, <1>2, <2>1, CallerMoves
<1>3. CASE UNCHANGED <<inflight, rotations>> /\ caller' = [caller EXCEPT ![c] = "asking"]
  <2>1. "asking" \in CallerState
    BY DEF CallerState
  <2> QED
    BY <1>1, <1>3, <2>1, CallerMoves
<1> QED
  BY <1>2, <1>3 DEF Session!Attempt

\* A request is answered: after a 401 the token is refreshed and the request made once more;
\* a second 401 finds the user gone (request).
LEMMA AnswerKeeps == ASSUME SessionInv, NEW c \in Caller, Session!Answer(c) PROVE SessionInv'
<1>0. {"served", "refused", "refreshing"} \subseteq CallerState
  BY DEF CallerState
<1>1. UNCHANGED <<token, session, stored, access, upset>>
  BY DEF Session!Answer
<1> DEFINE Becomes(to) == caller' = [caller EXCEPT ![c] = to]
<1>2. CASE Becomes("served") /\ UNCHANGED <<inflight, rotations>>
  BY <1>0, <1>1, <1>2, CallerMoves
<1>3. CASE Becomes("refreshing") /\ Session!EnsureFreshTokens
  BY <1>0, <1>1, <1>3, CallerMoves
<1>4. CASE /\ Becomes("refused") /\ UNCHANGED <<inflight, rotations>>
           /\ stored = 0 \/ (access # "fresh" /\ caller[c] = "again")
  <2>1. stored = 0 \/ session = "signedOut"
    BY <1>4 DEF SessionInv, AskedAgainIsFresh
  <2> QED
    BY <1>0, <1>1, <1>4, <2>1, CallerMoves
<1>5. \/ Becomes("served") /\ UNCHANGED <<inflight, rotations>>
      \/ Becomes("refreshing") /\ Session!EnsureFreshTokens
      \/ /\ Becomes("refused") /\ UNCHANGED <<inflight, rotations>>
         /\ stored = 0 \/ (access # "fresh" /\ caller[c] = "again")
  BY Zenon DEF Session!Answer
<1> HIDE DEF Becomes
<1> QED
  BY <1>2, <1>3, <1>4, <1>5

\* A session that could not be restored is tried again (bootstrapSession).
LEMMA BootstrapKeeps == ASSUME SessionInv, NEW c \in Caller, Session!Bootstrap(c) PROVE SessionInv'
<1>1. /\ session = "error" /\ session' = "loading" /\ Session!EnsureFreshTokens
      /\ caller' = [caller EXCEPT ![c] = "refreshing"] /\ UNCHANGED <<token, stored, access, upset>>
  BY DEF Session!Bootstrap
<1>2. \A d \in Caller \ {c} : caller[d] # "refused" \/ upset \/ stored = 0
  BY <1>1 DEF SessionInv, Session!RefusedIsOver
<1>3. "refreshing" \in CallerState
  BY DEF CallerState
<1> QED
  BY <1>1, <1>2, <1>3, CallerMoves

\* A request that has ended makes room for another.
LEMMA SettleKeeps == ASSUME SessionInv, NEW c \in Caller, Session!Settle(c) PROVE SessionInv'
<1>1. /\ caller' = [caller EXCEPT ![c] = "idle"]
      /\ UNCHANGED <<token, session, stored, access, upset, inflight, rotations>>
  BY DEF Session!Settle
<1>2. "idle" \in CallerState
  BY DEF CallerState
<1> QED
  BY <1>1, <1>2, CallerMoves

-------------------------------------------------------------------------------
(* The end of a refresh *)

\* The app saves the pair it is given, or its session is over; its callers go on (doRefresh).
LEMMA RefreshAnsweredKeeps == ASSUME SessionInv, Session!RefreshAnswered PROVE SessionInv'
<1>0. SessionTyped /\ RowsFit /\ (~ upset => AppFits) /\ Session!RefusedIsOver
  BY DEF SessionInv
<1>1. /\ inflight.answer # "none" /\ inflight' = Session!NoRefresh
      /\ UNCHANGED <<token, rotations, upset>>
  BY DEF Session!RefreshAnswered
<1>2. /\ Session!NoRefresh \in Refresh /\ Session!NoRefresh.token = 0
      /\ Session!NoRefresh.issued = 0 /\ Session!NoRefresh.answer = "none"
  BY TokenAssumption DEF Session!NoRefresh, Refresh
<1>3. inflight # Session!NoRefresh
  BY <1>1, <1>2
<1>4. inflight.issued \in 0 .. MaxTokens /\ 0 \in 0 .. MaxTokens
  BY <1>0, TokenAssumption DEF SessionTyped, Refresh
<1>5. ASSUME NEW to \in {inflight.issued, 0}, stored' = to PROVE RowsFit'
  <2>1. /\ Session!Issued' = Session!Issued
        /\ {stored', inflight'.token, inflight'.issued} \subseteq Session!Issued \union {0}
        /\ \A r \in rotations' : r.token \in Session!Issued
    BY <1>0, <1>1, <1>2, <1>5 DEF RowsFit, Session!Issued
  <2> QED
    BY <1>0, <1>1, <2>1, RowsStay
<1>6. CASE inflight.answer = "ok"
  <2>1. /\ stored' = inflight.issued /\ access' = "fresh"
        /\ session' = IF session = "loading" THEN "signedIn" ELSE session
        /\ caller' = Session!AfterRefresh("again")
    BY <1>6 DEF Session!RefreshAnswered
  <2>2. "again" \in CallerState
    BY DEF CallerState
  <2>3. /\ caller' \in [Caller -> CallerState]
        /\ \A c \in Caller : caller'[c] \in {caller[c], "again"}
    BY <1>0, <2>1, <2>2, CallersGoOn
  <2>4. SessionTyped'
    BY <1>0, <1>1, <1>2, <1>4, <2>1, <2>3 DEF SessionTyped
  <2>5. ~ upset => session # "signedOut" /\ stored # 0 /\ inflight.issued # 0
                   /\ token[inflight.issued].live /\ rotations = {}
    BY <1>0, <1>1, <1>3, <1>6 DEF AppFits
  <2>6. ~ upset' => AppFits'
    BY <1>1, <1>2, <2>1, <2>5 DEF AppFits
  <2>7. AskedAgainIsFresh' /\ Session!RefusedIsOver'
    BY <1>0, <1>1, <2>1, <2>3, <2>5 DEF AskedAgainIsFresh, Session!RefusedIsOver
  <2> QED
    BY <1>5, <2>1, <2>4, <2>6, <2>7 DEF SessionInv
<1>7. CASE inflight.answer # "ok"
  <2>1. /\ stored' = 0 /\ access' = "none" /\ session' = "signedOut"
        /\ caller' = Session!AfterRefresh("refused")
    BY <1>7 DEF Session!RefreshAnswered
  <2>2. "refused" \in CallerState
    BY DEF CallerState
  <2>3. caller' \in [Caller -> CallerState]
    BY <1>0, <2>1, <2>2, CallersGoOn
  <2>4. upset
    <3>1. inflight.answer \in {"none", "ok", "refused"}
      BY <1>0 DEF SessionTyped, Refresh
    <3> QED
      BY <1>0, <1>1, <1>7, <3>1 DEF AppFits
  <2>5. SessionTyped'
    BY <1>0, <1>1, <1>2, <1>4, <2>1, <2>3 DEF SessionTyped
  <2>6. AskedAgainIsFresh' /\ Session!RefusedIsOver'
    BY <2>1 DEF AskedAgainIsFresh, Session!RefusedIsOver
  <2> QED
    BY <1>1, <1>5, <2>1, <2>4, <2>5, <2>6 DEF SessionInv
<1> QED
  BY <1>6, <1>7

\* An answer that does not come leaves the api at work on a rotation nobody awaits.
LEMMA RefreshLostKeeps == ASSUME SessionInv, Session!RefreshLost PROVE SessionInv'
<1>0. SessionTyped /\ RowsFit /\ AskedAgainIsFresh
  BY DEF SessionInv
<1>1. /\ upset' = TRUE /\ inflight' = Session!NoRefresh
      /\ rotations' = {[r EXCEPT !.awaited = FALSE] : r \in rotations}
      /\ caller' = Session!AfterRefresh("failed")
      /\ session' = IF session = "loading" THEN "error" ELSE session
      /\ UNCHANGED <<token, stored, access>>
  BY DEF Session!RefreshLost
<1>2. /\ Session!NoRefresh \in Refresh /\ Session!NoRefresh.token = 0
      /\ Session!NoRefresh.issued = 0
  BY TokenAssumption DEF Session!NoRefresh, Refresh
<1>3. /\ rotations' \subseteq Rotation
      /\ \A q \in rotations' : \E r \in rotations : q.token = r.token
  BY <1>0, <1>1, Disowned
<1>4. "failed" \in CallerState
  BY DEF CallerState
<1>5. /\ caller' \in [Caller -> CallerState]
      /\ \A c \in Caller : caller'[c] \in {caller[c], "failed"}
  BY <1>0, <1>1, <1>4, CallersGoOn
<1>6. SessionTyped'
  BY <1>0, <1>1, <1>2, <1>3, <1>5 DEF SessionTyped
<1>7. RowsFit'
  <2>1. /\ Session!Issued' = Session!Issued
        /\ {stored', inflight'.token, inflight'.issued} \subseteq Session!Issued \union {0}
        /\ \A q \in rotations' : q.token \in Session!Issued
    BY <1>0, <1>1, <1>2, <1>3 DEF RowsFit, Session!Issued
  <2> QED
    BY <1>0, <1>1, <2>1, RowsStay
<1>8. AskedAgainIsFresh'
  BY <1>0, <1>1, <1>5 DEF AskedAgainIsFresh
<1> QED
  BY <1>1, <1>6, <1>7, <1>8 DEF SessionInv, Session!RefusedIsOver

\* The app comes back with its store alone; a refresh it had sent is on record.
LEMMA RestartKeeps == ASSUME SessionInv, Session!Restart PROVE SessionInv'
<1>0. SessionTyped /\ RowsFit /\ (~ upset => AppFits)
  BY DEF SessionInv
<1>1. /\ session # "signedOut" /\ upset' = (upset \/ inflight # Session!NoRefresh)
      /\ rotations' = {[r EXCEPT !.awaited = FALSE] : r \in rotations}
      /\ inflight' = Session!NoRefresh /\ access' = "none"
      /\ caller' = [c \in Caller |-> "idle"]
      /\ session' = IF stored = 0 THEN "signedOut" ELSE "error"
      /\ UNCHANGED <<token, stored>>
  BY DEF Session!Restart
<1>2. /\ Session!NoRefresh \in Refresh /\ Session!NoRefresh.token = 0
      /\ Session!NoRefresh.issued = 0 /\ Session!NoRefresh.answer = "none"
  BY TokenAssumption DEF Session!NoRefresh, Refresh
<1>3. /\ rotations' \subseteq Rotation
      /\ \A q \in rotations' : \E r \in rotations : q.token = r.token
      /\ rotations = {} => rotations' = {}
  BY <1>0, <1>1, Disowned
<1>4. caller' \in [Caller -> CallerState] /\ \A c \in Caller : caller'[c] = "idle"
  BY <1>1 DEF CallerState
<1>5. SessionTyped'
  BY <1>0, <1>1, <1>2, <1>3, <1>4 DEF SessionTyped
<1>6. RowsFit'
  <2>1. /\ Session!Issued' = Session!Issued
        /\ {stored', inflight'.token, inflight'.issued} \subseteq Session!Issued \union {0}
        /\ \A q \in rotations' : q.token \in Session!Issued
    BY <1>0, <1>1, <1>2, <1>3 DEF RowsFit, Session!Issued
  <2> QED
    BY <1>0, <1>1, <2>1, RowsStay
<1>7. ASSUME ~ upset' PROVE AppFits'
  <2>1. ~ upset /\ inflight = Session!NoRefresh
    BY <1>0, <1>1, <1>7 DEF SessionTyped
  <2>2. rotations' = {} /\ stored # 0 /\ token[stored].live
    BY <1>0, <1>1, <1>2, <1>3, <2>1 DEF AppFits
  <2> QED
    BY <1>1, <1>2, <2>2 DEF AppFits
<1>8. AskedAgainIsFresh' /\ Session!RefusedIsOver'
  BY <1>4 DEF AskedAgainIsFresh, Session!RefusedIsOver
<1> QED
  BY <1>5, <1>6, <1>7, <1>8 DEF SessionInv

-------------------------------------------------------------------------------
(* The system *)

\* An app begins signed out, and nobody has a token.
LEMMA SessionBegins == Init => SessionInv
<1> SUFFICES ASSUME Session!SessionInit PROVE SessionInv
  BY DEF Init
<1>1. /\ token = [t \in 1 .. MaxTokens |-> [family |-> 0, live |-> FALSE]]
      /\ rotations = {} /\ session = "signedOut" /\ stored = 0 /\ access = "none"
      /\ inflight = Session!NoRefresh /\ caller = [c \in Caller |-> "idle"] /\ upset = FALSE
  BY DEF Session!SessionInit
<1>2. /\ Session!NoRefresh \in Refresh /\ Session!NoRefresh.token = 0
      /\ Session!NoRefresh.issued = 0 /\ Session!NoRefresh.answer = "none"
  BY TokenAssumption DEF Session!NoRefresh, Refresh
<1>3. [family |-> 0, live |-> FALSE] \in Row /\ 0 \in 0 .. MaxTokens /\ "idle" \in CallerState
  BY TokenAssumption DEF Row, CallerState
<1>4. SessionTyped
  BY <1>1, <1>2, <1>3 DEF SessionTyped
<1>5. Session!Issued = {} /\ 1 .. 0 = {}
  BY <1>1 DEF Session!Issued
<1>6. RowsFit
  BY <1>1, <1>2, <1>3, <1>5 DEF RowsFit, Session!OneLiveToken
<1>7. AskedAgainIsFresh /\ Session!RefusedIsOver
  BY <1>1 DEF AskedAgainIsFresh, Session!RefusedIsOver
<1>8. AppFits
  BY <1>1, <1>2 DEF AppFits
<1> QED
  BY <1>4, <1>6, <1>7, <1>8 DEF SessionInv

\* What the screens, the uploads and the usage events do leaves the session as it is.
LEMMA SessionRests == ASSUME SessionInv, UNCHANGED sessionVars PROVE SessionInv'
<1>1. UNCHANGED <<token, rotations, session, stored, access, inflight, caller, upset>>
  BY DEF sessionVars
<1>2. SessionTyped' /\ RowsFit'
  BY <1>1 DEF SessionInv, SessionTyped, RowsFit, Session!OneLiveToken, Session!Issued
<1>3. AskedAgainIsFresh' /\ Session!RefusedIsOver' /\ (~ upset' => AppFits')
  BY <1>1 DEF SessionInv, AskedAgainIsFresh, Session!RefusedIsOver, AppFits
<1> QED
  BY <1>2, <1>3 DEF SessionInv

\* Each step of the apps keeps the invariant.
LEMMA SessionSteps == SessionInv /\ [Next]_vars => SessionInv'
<1> SUFFICES ASSUME SessionInv, [Next]_vars PROVE SessionInv'
  OBVIOUS
<1>1. CASE SessionNext
  <2>1. CASE Session!SignIn
    BY <2>1, SignInKeeps
  <2>2. CASE Session!Leave
    BY <2>2, SignOutKeeps DEF Session!Leave
  <2>3. CASE Session!AccessExpires
    BY <2>3, AccessExpiresKeeps
  <2>4. CASE Session!Rotate
    BY <2>4, ReadTokenKeeps, SwapTokenKeeps DEF Session!Rotate
  <2>5. CASE Session!Call
    BY <2>5, AttemptKeeps, AnswerKeeps, BootstrapKeeps, SettleKeeps DEF Session!Call
  <2>6. CASE Session!RefreshAnswered
    BY <2>6, RefreshAnsweredKeeps
  <2>7. CASE Session!RefreshLost
    BY <2>7, RefreshLostKeeps
  <2>8. CASE Session!Restart
    BY <2>8, RestartKeeps
  <2> QED
    BY <1>1, <2>1, <2>2, <2>3, <2>4, <2>5, <2>6, <2>7, <2>8 DEF SessionNext, Session!SessionNext
<1>2. CASE UNCHANGED sessionVars
  BY <1>2, SessionRests
<1>3. SessionNext \/ UNCHANGED sessionVars
  BY DEF Next, ScreensNext, OnScreens, PartsNext, UsageNext, vars
<1> QED
  BY <1>1, <1>2, <1>3

\* What the invariant says of the session.
LEMMA SessionInvIsKept == SessionInv => SessionIsKept
<1> SUFFICES ASSUME SessionInv PROVE SessionIsKept
  OBVIOUS
<1>1. Session!SessionTypeOK
  BY DEF SessionInv, SessionTyped, Session!SessionTypeOK, Row, Rotation, CallerState
<1>2. Session!OneLiveToken /\ Session!RefusedIsOver
  BY DEF SessionInv, RowsFit
<1>3. Session!OwnRequestsKeepTheSession
  BY DEF SessionInv, SessionTyped, AppFits, Session!OwnRequestsKeepTheSession
<1> QED
  BY <1>1, <1>2, <1>3 DEF SessionIsKept

\* The session is kept: a family never has two tokens that work; while no answer is lost and
\* nobody leaves in the middle of a refresh, no refresh of the app is refused; and a request is
\* refused only when the session is over (rotate, ensureFreshTokens, doRefresh, request).
THEOREM SessionsAreKept == Spec => []SessionIsKept
<1>1. Init => SessionInv
  BY SessionBegins
<1>2. SessionInv /\ [Next]_vars => SessionInv'
  BY SessionSteps
<1>3. SessionInv => SessionIsKept
  BY SessionInvIsKept
<1> QED
  BY <1>1, <1>2, <1>3, PTL DEF Spec

-------------------------------------------------------------------------------
(* Usage events *)

Event == [n : 1 .. MaxEvents, kind : Usage!Kind, key : Key]

Batch == [events : Seq(Event), attempt : 0 .. MaxSendAttempts]

Rollup ==
  [total : Nat, unknown : Nat, playback : Nat, complete : Nat,
   views : [Key -> Nat], viewsDropped : Nat, sessions : SUBSET Key, sessionsDropped : Nat]

Ascending(s) == \A i, j \in 1 .. Len(s) : i < j => s[i].n < s[j].n

\* What waits is in the order of its use, and nothing of it, or after it, has arrived.
QueueFits(q, last, first) ==
  /\ q \in Seq(Event) /\ Len(q) <= MaxQueuedEvents /\ Ascending(q)
  /\ \A i \in 1 .. Len(q) : q[i].n <= last
  /\ \A n \in 1 .. MaxEvents, i \in 1 .. Len(q) : first[n] # 0 => n < q[i].n

\* A batch is older than what waits, and it has arrived as a whole or not at all.
BatchFits(b, q, last, first) ==
  /\ b \in Batch /\ Ascending(b.events) /\ (b.attempt = 0 <=> b.events = <<>>)
  /\ \A i \in 1 .. Len(b.events) :
       b.events[i].n <= last /\ \A j \in 1 .. Len(q) : b.events[i].n < q[j].n
  /\ \/ \A i \in 1 .. Len(b.events) : first[b.events[i].n] # 0
     \/ \A n \in 1 .. MaxEvents, i \in 1 .. Len(b.events) : first[n] # 0 => n < b.events[i].n

\* A pair per view that was counted.
Viewed(r) == UNION {{k} \X (1 .. r.views[k]) : k \in Key}

\* The counts of the api make up what it was told (record).
RollupFits(r) ==
  /\ r \in Rollup
  /\ IsFiniteSet(Viewed(r)) /\ Cardinality(Viewed(r)) + r.viewsDropped = r.playback
  /\ Cardinality(r.sessions) <= MaxRollupKeys

UsageTyped ==
  /\ emitted \in 0 .. MaxEvents /\ {timer, backoff, disposed} \subseteq BOOLEAN
  /\ counters \in [sent : Nat, overflown : Nat, unsent : Nat]
  /\ arrived \in [1 .. MaxEvents -> Nat] /\ bucket \in 0 .. BucketCapacity

\* One batch at a time is out, and the rest is accounted for.
WaitingFits ==
  /\ sending.attempt = 0 \/ retry.attempt = 0
  /\ disposed => queue = <<>>
  /\ Usage!WaitingIsScheduled /\ Usage!EventsAddUp

UsageInv ==
  /\ UsageTyped /\ WaitingFits /\ RollupFits(rollup)
  /\ QueueFits(queue, emitted, arrived)
  /\ BatchFits(retry, queue, emitted, arrived) /\ BatchFits(sending, queue, emitted, arrived)
  /\ \A n \in 1 .. MaxEvents : arrived[n] # 0 => n <= emitted /\ arrived[n] <= rollup.total
  /\ Usage!ArrivedInOrder

\* Telemetry counts as FiniteSets does.
LEMMA SameUsageCount == ASSUME NEW S PROVE Usage!Cardinality(S) = Cardinality(S)
BY DEF Usage!Cardinality, Cardinality

\* A set of naturals has a least one.
LEMMA Least ==
  ASSUME NEW T \in SUBSET Nat, T # {}
  PROVE  \E m \in T : \A k \in T : m <= k
<1>1. \E x \in T : \A y \in T : ~ (<<y, x>> \in OpToRel(<, Nat))
  BY NatLessThanWellFounded, WFMin
<1>2. PICK x \in T : \A y \in T : ~ (<<y, x>> \in OpToRel(<, Nat))
  BY <1>1
<1>3. ASSUME NEW y \in T PROVE x <= y
  <2>1. y \in Nat /\ x \in Nat
    OBVIOUS
  <2>2. ~ (y < x)
    BY <1>2, <2>1 DEF OpToRel
  <2> QED
    BY <2>1, <2>2
<1> QED
  BY <1>3

\* One more view of a content is one more pair.
LEMMA OneMoreView ==
  ASSUME NEW r \in Rollup, IsFiniteSet(Viewed(r)), NEW k \in Key, NEW q \in Rollup,
         q.views = [r.views EXCEPT ![k] = @ + 1]
  PROVE  IsFiniteSet(Viewed(q)) /\ Cardinality(Viewed(q)) = Cardinality(Viewed(r)) + 1
<1> DEFINE p == <<k, r.views[k] + 1>>
<1>1. r.views \in [Key -> Nat]
  BY DEF Rollup
<1>2. Viewed(q) = Viewed(r) \cup {p}
  <2>1. \A x, y : <<x, y>> \in Viewed(r) <=> x \in Key /\ y \in 1 .. r.views[x]
    BY DEF Viewed
  <2>2. \A x, y : <<x, y>> \in Viewed(q) <=> x \in Key /\ y \in 1 .. q.views[x]
    BY DEF Viewed
  <2>3. ASSUME NEW x \in Key, NEW y
        PROVE  y \in 1 .. q.views[x] <=> y \in 1 .. r.views[x] \/ (x = k /\ y = r.views[k] + 1)
    <3>1. r.views[x] \in Nat /\ r.views[k] \in Nat
      BY <1>1
    <3>2. CASE x = k
      <4>1. q.views[x] = r.views[x] + 1
        BY <1>1, <3>2
      <4> QED
        BY <3>1, <3>2, <4>1
    <3>3. CASE x # k
      <4>1. q.views[x] = r.views[x]
        BY <1>1, <3>3
      <4> QED
        BY <3>3, <4>1
    <3> QED
      BY <3>2, <3>3
  <2>4. \A z \in Viewed(q) : \E x, y : z = <<x, y>>
    BY DEF Viewed
  <2>5. \A z \in Viewed(r) : \E x, y : z = <<x, y>>
    BY DEF Viewed
  <2>6. \A x, y : <<x, y>> = p <=> x = k /\ y = r.views[k] + 1
    OBVIOUS
  <2>7. \A x, y : <<x, y>> \in Viewed(q) <=> <<x, y>> \in Viewed(r) \/ <<x, y>> = p
    BY <2>1, <2>2, <2>3, <2>6
  <2> HIDE DEF Viewed
  <2> QED
    BY <2>4, <2>5, <2>7
<1>3. p \notin Viewed(r)
  <2>1. r.views[k] \in Nat
    BY <1>1
  <2> QED
    BY <2>1 DEF Viewed
<1> QED
  BY <1>2, <1>3, FS_AddElement

\* What record counts before it looks at the kind's own tables.
LEMMA RollupCounts ==
  ASSUME NEW r \in Rollup
  PROVE  /\ [r EXCEPT !.total = @ + 1] \in Rollup
         /\ [r EXCEPT !.total = @ + 1, !.playback = @ + 1] \in Rollup
         /\ [r EXCEPT !.total = @ + 1, !.complete = @ + 1] \in Rollup
         /\ [r EXCEPT !.total = @ + 1, !.unknown = @ + 1] \in Rollup
<1> DEFINE q == [r EXCEPT !.total = @ + 1]
<1>1. q \in Rollup
  <2>1. r.total + 1 \in Nat
    BY DEF Rollup
  <2> QED
    BY <2>1 DEF Rollup
<1>2. q.playback + 1 \in Nat /\ q.complete + 1 \in Nat /\ q.unknown + 1 \in Nat
  BY <1>1 DEF Rollup
<1>3. /\ [r EXCEPT !.total = @ + 1, !.playback = @ + 1] = [q EXCEPT !.playback = q.playback + 1]
      /\ [r EXCEPT !.total = @ + 1, !.complete = @ + 1] = [q EXCEPT !.complete = q.complete + 1]
      /\ [r EXCEPT !.total = @ + 1, !.unknown = @ + 1] = [q EXCEPT !.unknown = q.unknown + 1]
  BY DEF Rollup
<1> HIDE DEF q
<1>4. [q EXCEPT !.playback = q.playback + 1] \in Rollup
  BY <1>1, <1>2 DEF Rollup
<1>5. [q EXCEPT !.complete = q.complete + 1] \in Rollup
  BY <1>1, <1>2 DEF Rollup
<1>6. [q EXCEPT !.unknown = q.unknown + 1] \in Rollup
  BY <1>1, <1>2 DEF Rollup
<1> QED
  BY <1>1, <1>3, <1>4, <1>5, <1>6 DEF q

\* A view is counted for its content, or as dropped.
LEMMA ViewRecorded ==
  ASSUME NEW r \in Rollup, NEW k \in Key, NEW p \in Rollup,
         p = [r EXCEPT !.total = @ + 1, !.playback = @ + 1],
         RollupFits(r)
  PROVE  RollupFits(Usage!RecordView(p, k)) /\ Usage!RecordView(p, k).total = r.total + 1
<1>1. /\ p.total = r.total + 1 /\ p.playback = r.playback + 1 /\ p.views = r.views
      /\ p.viewsDropped = r.viewsDropped /\ p.sessions = r.sessions
  BY DEF Rollup
<1>2. /\ r.playback \in Nat /\ r.viewsDropped \in Nat /\ r.views \in [Key -> Nat]
      /\ IsFiniteSet(Viewed(r)) /\ Cardinality(Viewed(r)) + r.viewsDropped = r.playback
      /\ Cardinality(r.sessions) <= MaxRollupKeys
  BY DEF RollupFits, Rollup
<1>3. Cardinality(Viewed(r)) \in Nat
  BY <1>2, FS_CardinalityType
<1>4. Viewed(p) = Viewed(r)
  BY <1>1 DEF Viewed
<1> DEFINE q == [p EXCEPT !.views[k] = @ + 1]
           d == [p EXCEPT !.viewsDropped = @ + 1]
<1>5. RollupFits(q) /\ q.total = r.total + 1
  <2>1. /\ q \in Rollup /\ q.views = [p.views EXCEPT ![k] = @ + 1] /\ q.total = p.total
        /\ q.playback = p.playback /\ q.viewsDropped = p.viewsDropped /\ q.sessions = p.sessions
    <3>1. p.views \in [Key -> Nat]
      BY DEF Rollup
    <3>2. [p.views EXCEPT ![k] = @ + 1] \in [Key -> Nat]
      BY <3>1
    <3>3. q = [p EXCEPT !.views = [p.views EXCEPT ![k] = @ + 1]]
      OBVIOUS
    <3> HIDE DEF q
    <3>4. PICK x : x = [p.views EXCEPT ![k] = @ + 1]
      OBVIOUS
    <3>5. x \in [Key -> Nat] /\ q = [p EXCEPT !.views = x]
      BY <3>2, <3>3, <3>4
    <3>6. /\ q \in Rollup /\ q.views = x /\ q.total = p.total
          /\ q.playback = p.playback /\ q.viewsDropped = p.viewsDropped /\ q.sessions = p.sessions
      BY <3>5 DEF Rollup
    <3> QED
      BY <3>4, <3>6
  <2>2. IsFiniteSet(Viewed(q)) /\ Cardinality(Viewed(q)) = Cardinality(Viewed(p)) + 1
    <3> HIDE DEF q
    <3> QED
      BY <1>2, <1>4, <2>1, OneMoreView
  <2> HIDE DEF q
  <2> QED
    BY <1>1, <1>2, <1>3, <1>4, <2>1, <2>2 DEF RollupFits
<1>6. RollupFits(d) /\ d.total = r.total + 1
  <2>1. /\ d \in Rollup /\ d.views = p.views /\ d.total = p.total
        /\ d.playback = p.playback /\ d.viewsDropped = p.viewsDropped + 1
        /\ d.sessions = p.sessions
    <3>1. PICK x : x = p.viewsDropped + 1
      OBVIOUS
    <3>2. x \in Nat /\ d = [p EXCEPT !.viewsDropped = x]
      BY <3>1 DEF Rollup
    <3> HIDE DEF d
    <3>3. /\ d \in Rollup /\ d.views = p.views /\ d.total = p.total
          /\ d.playback = p.playback /\ d.viewsDropped = x /\ d.sessions = p.sessions
      BY <3>2 DEF Rollup
    <3> QED
      BY <3>1, <3>3
  <2>2. Viewed(d) = Viewed(p)
    BY <2>1 DEF Viewed
  <2> HIDE DEF d
  <2> QED
    BY <1>1, <1>2, <1>3, <1>4, <2>1, <2>2 DEF RollupFits
<1>7. Usage!RecordView(p, k) = q \/ Usage!RecordView(p, k) = d
  BY DEF Usage!RecordView
<1> HIDE DEF q, d
<1> QED
  BY <1>5, <1>6, <1>7

\* A session is counted while there is room.
LEMMA SessionRecorded ==
  ASSUME NEW r \in Rollup, NEW k \in Key, NEW p \in Rollup,
         p = [r EXCEPT !.total = @ + 1, !.complete = @ + 1],
         RollupFits(r)
  PROVE  RollupFits(Usage!RecordSession(p, k)) /\ Usage!RecordSession(p, k).total = r.total + 1
<1>1. /\ p.total = r.total + 1 /\ p.playback = r.playback /\ p.views = r.views
      /\ p.viewsDropped = r.viewsDropped /\ p.sessions = r.sessions
  BY DEF Rollup
<1>2. /\ r.sessions \subseteq Key /\ MaxRollupKeys \in Nat /\ IsFiniteSet(Key)
      /\ IsFiniteSet(Viewed(r)) /\ Cardinality(Viewed(r)) + r.viewsDropped = r.playback
      /\ Cardinality(r.sessions) <= MaxRollupKeys
  BY UsageAssumption DEF RollupFits, Rollup
<1>3. IsFiniteSet(r.sessions) /\ Cardinality(r.sessions) \in Nat
  BY <1>2, FS_Subset, FS_CardinalityType
<1> DEFINE q == [p EXCEPT !.sessions = @ \union {k}]
           d == [p EXCEPT !.sessionsDropped = @ + 1]
<1>4. /\ q \in Rollup /\ q.views = p.views /\ q.total = p.total /\ q.playback = p.playback
      /\ q.viewsDropped = p.viewsDropped /\ q.sessions = p.sessions \union {k}
  BY DEF Rollup
<1>5. /\ d \in Rollup /\ d.views = p.views /\ d.total = p.total /\ d.playback = p.playback
      /\ d.viewsDropped = p.viewsDropped /\ d.sessions = p.sessions
  <2>1. PICK x : x = p.sessionsDropped + 1
    OBVIOUS
  <2>2. x \in Nat /\ d = [p EXCEPT !.sessionsDropped = x]
    BY <2>1 DEF Rollup
  <2> HIDE DEF d
  <2> QED
    BY <2>2 DEF Rollup
<1>6. Viewed(q) = Viewed(r) /\ Viewed(d) = Viewed(r)
  BY <1>1, <1>4, <1>5 DEF Viewed
<1>7. \/ Usage!RecordSession(p, k) = q /\ (k \in p.sessions \/ Cardinality(p.sessions) < MaxRollupKeys)
      \/ Usage!RecordSession(p, k) = d
  BY SameUsageCount DEF Usage!RecordSession
<1> HIDE DEF q, d
<1>8. CASE Usage!RecordSession(p, k) = d
  BY <1>1, <1>2, <1>5, <1>6, <1>8 DEF RollupFits
<1>9. CASE Usage!RecordSession(p, k) = q /\ (k \in p.sessions \/ Cardinality(p.sessions) < MaxRollupKeys)
  <2>1. Cardinality(r.sessions \union {k}) <= MaxRollupKeys
    <3>1. Cardinality(r.sessions \union {k})
            = IF k \in r.sessions THEN Cardinality(r.sessions) ELSE Cardinality(r.sessions) + 1
      BY <1>3, FS_AddElement
    <3> QED
      BY <1>1, <1>2, <1>3, <1>9, <3>1
  <2> QED
    BY <1>1, <1>2, <1>4, <1>6, <1>9, <2>1 DEF RollupFits
<1> QED
  BY <1>7, <1>8, <1>9

\* The api counts an event once, whatever its kind.
LEMMA Recorded ==
  ASSUME NEW r, RollupFits(r), NEW e \in Event
  PROVE  RollupFits(Usage!Record(r, e)) /\ Usage!Record(r, e).total = r.total + 1
<1>1. r \in Rollup /\ e.key \in Key /\ e.kind \in Usage!Kind
  BY DEF RollupFits, Event
<1>2. CASE e.kind = "playback"
  <2> DEFINE p == [r EXCEPT !.total = @ + 1, !.playback = @ + 1]
  <2>1. p \in Rollup
    BY <1>1, RollupCounts
  <2>2. Usage!Record(r, e) = Usage!RecordView(p, e.key)
    BY <1>1, <1>2 DEF Usage!Record, Rollup
  <2>3. RollupFits(Usage!RecordView(p, e.key)) /\ Usage!RecordView(p, e.key).total = r.total + 1
    <3>1. p = [r EXCEPT !.total = @ + 1, !.playback = @ + 1]
      OBVIOUS
    <3> HIDE DEF p
    <3> QED
      BY <1>1, <2>1, <3>1, ViewRecorded
  <2> QED
    BY <2>2, <2>3
<1>3. CASE e.kind = "complete"
  <2> DEFINE p == [r EXCEPT !.total = @ + 1, !.complete = @ + 1]
  <2>1. p \in Rollup
    BY <1>1, RollupCounts
  <2>2. Usage!Record(r, e) = Usage!RecordSession(p, e.key)
    BY <1>1, <1>3 DEF Usage!Record, Rollup
  <2>3. RollupFits(Usage!RecordSession(p, e.key)) /\ Usage!RecordSession(p, e.key).total = r.total + 1
    <3>1. p = [r EXCEPT !.total = @ + 1, !.complete = @ + 1]
      OBVIOUS
    <3> HIDE DEF p
    <3> QED
      BY <1>1, <2>1, <3>1, SessionRecorded
  <2> QED
    BY <2>2, <2>3
<1>4. CASE e.kind = "unknown"
  <2> DEFINE p == [r EXCEPT !.total = @ + 1, !.unknown = @ + 1]
  <2>1. /\ p \in Rollup /\ p.views = r.views /\ p.total = r.total + 1 /\ p.playback = r.playback
        /\ p.viewsDropped = r.viewsDropped /\ p.sessions = r.sessions
    <3>1. p \in Rollup
      BY <1>1, RollupCounts
    <3>2. /\ p.views = r.views /\ p.total = r.total + 1 /\ p.playback = r.playback
          /\ p.viewsDropped = r.viewsDropped /\ p.sessions = r.sessions
      BY <1>1 DEF Rollup
    <3> QED
      BY <3>1, <3>2
  <2>2. Usage!Record(r, e) = p
    BY <1>1, <1>4 DEF Usage!Record, Rollup
  <2>3. Viewed(p) = Viewed(r)
    BY <2>1 DEF Viewed
  <2> HIDE DEF p
  <2> QED
    BY <2>1, <2>2, <2>3 DEF RollupFits
<1> QED
  BY <1>1, <1>2, <1>3, <1>4 DEF Usage!Kind

\* What the recursion over a batch computes, up to an index: the start and one record per
\* event.
Counts(f, s, m) ==
  /\ f = [i \in 0 .. m |-> f[i]] /\ f[0] = rollup
  /\ \A i \in 1 .. m : f[i] = Usage!Record(f[i - 1], s[i])

\* The recursion has a result: the least index without one would follow an index with one.
LEMMA CountsExist ==
  ASSUME NEW s \in Seq(Event), NEW n \in Nat
  PROVE  \E f : Counts(f, s, n)
<1> DEFINE T == {m \in Nat : ~ \E f : Counts(f, s, m)}
<1>1. CASE T = {}
  BY <1>1
<1>2. CASE T # {}
  <2>1. PICK m \in T : \A k \in T : m <= k
    BY <1>2, Least
  <2>2. m # 0
    <3>1. Counts([i \in 0 .. 0 |-> rollup], s, 0)
      BY DEF Counts
    <3> QED
      BY <2>1, <3>1
  <2>3. m \in Nat /\ m - 1 \in Nat /\ m - 1 \notin T
    BY <2>1, <2>2
  <2>4. PICK f : Counts(f, s, m - 1)
    BY <2>3
  <2> DEFINE g == [i \in 0 .. m |-> IF i < m THEN f[i] ELSE Usage!Record(f[m - 1], s[m])]
  <2>5. Counts(g, s, m)
    <3>1. g = [i \in 0 .. m |-> g[i]]
      OBVIOUS
    <3>2. g[0] = rollup
      BY <2>3, <2>2, <2>4 DEF Counts
    <3>3. ASSUME NEW i \in 1 .. m PROVE g[i] = Usage!Record(g[i - 1], s[i])
      <4>0. i - 1 \in 0 .. m /\ i - 1 < m /\ g[i - 1] = f[i - 1]
        BY <2>3
      <4>1. CASE i < m
        <5>1. i \in 1 .. m - 1 /\ g[i] = f[i]
          BY <2>3, <4>1
        <5>2. f[i] = Usage!Record(f[i - 1], s[i])
          BY <2>4, <5>1 DEF Counts
        <5> QED
          BY <4>0, <5>1, <5>2
      <4>2. CASE i = m
        BY <4>0, <4>2, <2>3
      <4> QED
        BY <4>1, <4>2, <2>3
    <3> HIDE DEF g
    <3> QED
      BY <3>1, <3>2, <3>3 DEF Counts
  <2> QED
    BY <2>1, <2>5
<1> QED
  BY <1>1, <1>2

\* Whatever satisfies the recursion keeps the counts together.
LEMMA CountsFit ==
  ASSUME RollupFits(rollup), NEW s \in Seq(Event), NEW f, Counts(f, s, Len(s))
  PROVE  RollupFits(f[Len(s)]) /\ f[Len(s)].total = rollup.total + Len(s)
<1> DEFINE n == Len(s)
           Good(i) == RollupFits(f[i]) /\ f[i].total = rollup.total + i
           T == {m \in 0 .. n : ~ Good(m)}
<1>0. n \in Nat /\ rollup.total \in Nat
  BY DEF RollupFits, Rollup
<1>1. CASE T = {}
  BY <1>0, <1>1
<1>2. CASE T # {}
  <2>1. T \subseteq Nat
    BY <1>0
  <2>2. PICK m \in T : \A k \in T : m <= k
    BY <1>2, <2>1, Least
  <2>3. m # 0
    BY <1>0, <2>2 DEF Counts
  <2>4. m \in 1 .. n /\ m - 1 \in 0 .. n /\ Good(m - 1)
    BY <1>0, <2>2, <2>3
  <2>5. f[m] = Usage!Record(f[m - 1], s[m]) /\ s[m] \in Event
    BY <2>4, ElementOfSeq DEF Counts
  <2>6. RollupFits(f[m]) /\ f[m].total = f[m - 1].total + 1
    BY <2>4, <2>5, Recorded
  <2>7. Good(m)
    BY <1>0, <2>4, <2>6
  <2> QED
    BY <2>2, <2>7
<1> QED
  BY <1>1, <1>2

\* A batch is counted event by event (ingest).
LEMMA Ingested ==
  ASSUME RollupFits(rollup), NEW s \in Seq(Event)
  PROVE  RollupFits(Usage!Ingest(s)) /\ Usage!Ingest(s).total = rollup.total + Len(s)
<1> DEFINE Step(f) == [i \in 0 .. Len(s) |-> IF i = 0 THEN rollup ELSE Usage!Record(f[i - 1], s[i])]
           after == CHOOSE f : f = Step(f)
<1>0. Len(s) \in Nat
  OBVIOUS
<1>1. ASSUME NEW f PROVE f = Step(f) <=> Counts(f, s, Len(s))
  <2>1. ASSUME f = Step(f) PROVE Counts(f, s, Len(s))
    <3>1. f = [i \in 0 .. Len(s) |-> f[i]]
      BY <2>1
    <3>2. f[0] = rollup
      BY <1>0, <2>1
    <3>3. ASSUME NEW i \in 1 .. Len(s) PROVE f[i] = Usage!Record(f[i - 1], s[i])
      BY <1>0, <2>1
    <3> QED
      BY <3>1, <3>2, <3>3 DEF Counts
  <2>2. ASSUME Counts(f, s, Len(s)) PROVE f = Step(f)
    <3>1. ASSUME NEW i \in 0 .. Len(s)
          PROVE  f[i] = IF i = 0 THEN rollup ELSE Usage!Record(f[i - 1], s[i])
      <4>1. i = 0 \/ i \in 1 .. Len(s)
        BY <1>0
      <4> QED
        BY <2>2, <4>1 DEF Counts
    <3>2. f = [i \in 0 .. Len(s) |-> f[i]]
      BY <2>2 DEF Counts
    <3> QED
      BY <3>1, <3>2
  <2> QED
    BY <2>1, <2>2
<1>2. \E f : f = Step(f)
  BY <1>0, <1>1, CountsExist
<1>3. after = Step(after)
  BY <1>2
<1>4. Usage!Ingest(s) = after[Len(s)]
  BY DEF Usage!Ingest
<1> HIDE DEF after, Step
<1>5. Counts(after, s, Len(s))
  BY <1>1, <1>3
<1> QED
  BY <1>4, <1>5, CountsFit


\* No batch fits everything.
LEMMA NoBatchFits ==
  ASSUME NEW q, NEW last, NEW first
  PROVE  BatchFits(Usage!NoBatch, q, last, first) /\ Usage!NoBatch.attempt = 0
         /\ Len(Usage!NoBatch.events) = 0
<1>1. Usage!NoBatch = [events |-> <<>>, attempt |-> 0]
  BY DEF Usage!NoBatch
<1>2. <<>> \in Seq(Event) /\ Len(<<>>) = 0 /\ 0 \in 0 .. MaxSendAttempts
  BY EmptySeq, UsageAssumption
<1>3. Usage!NoBatch \in Batch
  BY <1>1, <1>2 DEF Batch
<1>4. 1 .. Len(Usage!NoBatch.events) = {}
  BY <1>1, <1>2
<1> QED
  BY <1>1, <1>2, <1>3, <1>4 DEF BatchFits, Ascending

\* A stretch of a sequence of events.
LEMMA Stretch ==
  ASSUME NEW q \in Seq(Event), NEW l \in Nat \ {0}, NEW m \in Nat, m <= Len(q)
  PROVE  /\ SubSeq(q, l, m) \in Seq(Event)
         /\ Len(SubSeq(q, l, m)) = IF l <= m THEN m - l + 1 ELSE 0
         /\ \A i \in 1 .. Len(SubSeq(q, l, m)) :
              l + i - 1 \in 1 .. Len(q) /\ SubSeq(q, l, m)[i] = q[l + i - 1]
<1>1. \A i \in l .. m : q[i] \in Event
  BY ElementOfSeq
<1>2. /\ SubSeq(q, l, m) \in Seq(Event)
      /\ Len(SubSeq(q, l, m)) = IF l <= m THEN m - l + 1 ELSE 0
      /\ \A i \in 1 .. m - l + 1 : SubSeq(q, l, m)[i] = q[l + i - 1]
  BY <1>1, SubSeqProperties
<1>3. ASSUME NEW i \in 1 .. Len(SubSeq(q, l, m))
      PROVE  l + i - 1 \in 1 .. Len(q) /\ SubSeq(q, l, m)[i] = q[l + i - 1]
  BY <1>2
<1> QED
  BY <1>2, <1>3

\* The front of the queue becomes the batch, unless nothing waits (takeBatch).
LEMMA Taken ==
  ASSUME NEW q, NEW last, NEW first, QueueFits(q, last, first), NEW size \in Nat \ {0}
  PROVE  LET t == Usage!TakeBatch(q, size) IN
         /\ QueueFits(t.rest, last, first)
         /\ t.batch \in Seq(Event) /\ (t.batch = <<>> => q = <<>>) /\ (q = <<>> => t.rest = <<>>)
         /\ t.batch # <<>> => BatchFits([events |-> t.batch, attempt |-> 1], t.rest, last, first)
         /\ Len(t.batch) + Len(t.rest) = Len(q)
<1> DEFINE n == IF Len(q) < size THEN Len(q) ELSE size
           b == SubSeq(q, 1, n)
           c == SubSeq(q, n + 1, Len(q))
<1>0. /\ q \in Seq(Event) /\ Len(q) \in Nat /\ Len(q) <= MaxQueuedEvents /\ Ascending(q)
      /\ \A i \in 1 .. Len(q) : q[i].n <= last
      /\ \A m \in 1 .. MaxEvents, i \in 1 .. Len(q) : first[m] # 0 => m < q[i].n
  BY DEF QueueFits
<1>1. n \in Nat /\ n <= Len(q) /\ (Len(q) # 0 => n # 0)
  BY <1>0
<1>2. Usage!TakeBatch(q, size) = [batch |-> b, rest |-> c]
  BY DEF Usage!TakeBatch
<1> HIDE DEF n
<1>3. /\ b \in Seq(Event) /\ Len(b) = n /\ \A i \in 1 .. n : i \in 1 .. Len(q) /\ b[i] = q[i]
  <2>1. /\ b \in Seq(Event) /\ Len(b) = IF 1 <= n THEN n - 1 + 1 ELSE 0
        /\ \A i \in 1 .. Len(b) : 1 + i - 1 \in 1 .. Len(q) /\ b[i] = q[1 + i - 1]
    BY <1>0, <1>1, Stretch
  <2>2. Len(b) = n
    BY <1>1, <2>1
  <2>3. ASSUME NEW i \in 1 .. n PROVE i \in 1 .. Len(q) /\ b[i] = q[i]
    <3>1. 1 + i - 1 = i
      BY <1>1
    <3> QED
      BY <2>1, <2>2, <3>1
  <2> QED
    BY <2>1, <2>2, <2>3
<1>4. /\ c \in Seq(Event) /\ Len(c) = Len(q) - n
      /\ \A i \in 1 .. Len(c) : n + i \in 1 .. Len(q) /\ c[i] = q[n + i]
  <2>1. /\ c \in Seq(Event) /\ Len(c) = IF n + 1 <= Len(q) THEN Len(q) - (n + 1) + 1 ELSE 0
        /\ \A i \in 1 .. Len(c) : (n + 1) + i - 1 \in 1 .. Len(q) /\ c[i] = q[(n + 1) + i - 1]
    BY <1>0, <1>1, Stretch
  <2>2. Len(c) = Len(q) - n
    BY <1>0, <1>1, <2>1
  <2>3. ASSUME NEW i \in 1 .. Len(c) PROVE n + i \in 1 .. Len(q) /\ c[i] = q[n + i]
    <3>1. (n + 1) + i - 1 = n + i
      BY <1>0, <1>1, <2>2
    <3> QED
      BY <2>1, <3>1
  <2> QED
    BY <2>1, <2>2, <2>3
<1> HIDE DEF b, c
<1>5. QueueFits(c, last, first)
  <2>1. Len(c) <= MaxQueuedEvents
    BY <1>0, <1>1, <1>4, UsageAssumption
  <2>2. ASSUME NEW i \in 1 .. Len(c), NEW j \in 1 .. Len(c), i < j PROVE c[i].n < c[j].n
    <3>1. n + i \in 1 .. Len(q) /\ n + j \in 1 .. Len(q) /\ n + i < n + j
      BY <1>0, <1>1, <1>4, <2>2
    <3> QED
      BY <1>0, <1>4, <3>1 DEF Ascending
  <2> QED
    BY <1>0, <1>4, <2>1, <2>2 DEF QueueFits, Ascending
<1>6. Len(b) + Len(c) = Len(q)
  BY <1>0, <1>1, <1>3, <1>4
<1>7. b = <<>> => q = <<>>
  <2>1. b = <<>> => Len(q) = 0
    BY <1>1, <1>3, EmptySeq
  <2> QED
    BY <1>0, <2>1, EmptySeq
<1>8. q = <<>> => c = <<>>
  <2>1. q = <<>> => Len(c) = 0
    BY <1>0, <1>1, <1>4, EmptySeq
  <2> QED
    BY <1>4, <2>1, EmptySeq
<1>9. ASSUME b # <<>> PROVE BatchFits([events |-> b, attempt |-> 1], c, last, first)
  <2> DEFINE out == [events |-> b, attempt |-> 1]
  <2>1. out \in Batch /\ out.events = b /\ out.attempt = 1
    BY <1>3, UsageAssumption DEF Batch
  <2>2. ASSUME NEW i \in 1 .. n, NEW j \in 1 .. n, i < j PROVE b[i].n < b[j].n
    BY <1>0, <1>3, <2>2 DEF Ascending
  <2>3. ASSUME NEW i \in 1 .. n, NEW j \in 1 .. Len(c) PROVE b[i].n < c[j].n
    <3>1. i \in 1 .. Len(q) /\ n + j \in 1 .. Len(q) /\ i < n + j
      BY <1>0, <1>1, <1>3, <1>4
    <3> QED
      BY <1>0, <1>3, <1>4, <3>1 DEF Ascending
  <2>4. \A m \in 1 .. MaxEvents, i \in 1 .. n : first[m] # 0 => m < b[i].n
    BY <1>0, <1>3
  <2> HIDE DEF out
  <2>5. Ascending(out.events)
    BY <1>3, <2>1, <2>2 DEF Ascending
  <2>6. \A i \in 1 .. Len(out.events) :
          out.events[i].n <= last /\ \A j \in 1 .. Len(c) : out.events[i].n < c[j].n
    BY <1>0, <1>3, <2>1, <2>3
  <2>7. BatchFits(out, c, last, first)
    BY <1>3, <1>9, <2>1, <2>4, <2>5, <2>6 DEF BatchFits
  <2> QED
    BY <2>7 DEF out
<1> QED
  BY <1>2, <1>3, <1>5, <1>6, <1>7, <1>8, <1>9

\* The newest event enters, and the oldest leave when the queue is full (admitEvent).
LEMMA Admitted ==
  ASSUME NEW q, NEW last \in 0 .. MaxEvents - 1, NEW first, NEW e \in Event, e.n = last + 1,
         QueueFits(q, last, first), \A n \in 1 .. MaxEvents : first[n] # 0 => n <= last
  PROVE  LET a == Usage!AdmitEvent(q, e) IN
         /\ QueueFits(a.queue, last + 1, first) /\ a.dropped \in Nat
         /\ Len(a.queue) + a.dropped = Len(q) + 1
         /\ \A b : BatchFits(b, q, last, first) => BatchFits(b, a.queue, last + 1, first)
<1> DEFINE x == Append(q, e)
           over == IF Len(q) + 1 > MaxQueuedEvents THEN Len(q) + 1 - MaxQueuedEvents ELSE 0
           s == SubSeq(x, over + 1, Len(q) + 1)
<1>0. /\ q \in Seq(Event) /\ Len(q) \in Nat /\ Len(q) <= MaxQueuedEvents /\ Ascending(q)
      /\ \A i \in 1 .. Len(q) : q[i].n <= last
      /\ \A m \in 1 .. MaxEvents, i \in 1 .. Len(q) : first[m] # 0 => m < q[i].n
      /\ MaxQueuedEvents \in Nat \ {0} /\ MaxEvents \in Nat /\ last \in Nat
  BY UsageAssumption DEF QueueFits
<1>1. /\ over \in Nat /\ over <= Len(q) /\ Len(q) + 1 - over <= MaxQueuedEvents
  BY <1>0
<1>2. Usage!AdmitEvent(q, e) = [queue |-> s, dropped |-> over]
  BY DEF Usage!AdmitEvent
<1> HIDE DEF over
<1>3. /\ x \in Seq(Event) /\ Len(x) = Len(q) + 1
      /\ \A i \in 1 .. Len(q) : x[i] = q[i]
      /\ x[Len(q) + 1] = e
  BY <1>0, AppendProperties
<1> HIDE DEF x
<1>4. /\ s \in Seq(Event) /\ Len(s) = Len(q) + 1 - over
      /\ \A i \in 1 .. Len(s) : over + i \in 1 .. Len(q) + 1 /\ s[i] = x[over + i]
  <2>1. /\ s \in Seq(Event)
        /\ Len(s) = IF over + 1 <= Len(q) + 1 THEN Len(q) + 1 - (over + 1) + 1 ELSE 0
        /\ \A i \in 1 .. Len(s) : (over + 1) + i - 1 \in 1 .. Len(x) /\ s[i] = x[(over + 1) + i - 1]
    BY <1>0, <1>1, <1>3, Stretch
  <2>2. Len(s) = Len(q) + 1 - over
    BY <1>0, <1>1, <2>1
  <2>3. ASSUME NEW i \in 1 .. Len(s) PROVE over + i \in 1 .. Len(q) + 1 /\ s[i] = x[over + i]
    <3>1. (over + 1) + i - 1 = over + i
      BY <1>0, <1>1, <2>2
    <3> QED
      BY <1>3, <2>1, <3>1
  <2> QED
    BY <2>1, <2>2, <2>3
<1> HIDE DEF s
<1>5. ASSUME NEW i \in 1 .. Len(q) + 1
      PROVE  /\ x[i].n <= last + 1
             /\ \A j \in 1 .. Len(q) + 1 : i < j => x[i].n < x[j].n
             /\ \A m \in 1 .. MaxEvents : first[m] # 0 => m < x[i].n
  <2>1. x[i] \in Event /\ x[i].n \in Nat
    <3>1. x[i] \in Event
      BY <1>3, ElementOfSeq
    <3> QED
      BY <3>1 DEF Event
  <2>2. CASE i = Len(q) + 1
    BY <1>0, <1>3, <2>2
  <2>3. CASE i # Len(q) + 1
    <3>1. i \in 1 .. Len(q) /\ x[i] = q[i] /\ q[i].n <= last
      BY <1>0, <1>3, <2>3
    <3>2. ASSUME NEW j \in 1 .. Len(q) + 1, i < j PROVE x[i].n < x[j].n
      <4>1. CASE j = Len(q) + 1
        BY <1>0, <1>3, <2>1, <3>1, <4>1
      <4>2. CASE j # Len(q) + 1
        <5>1. j \in 1 .. Len(q) /\ x[j] = q[j]
          BY <1>0, <1>3, <4>2
        <5> QED
          BY <1>0, <3>1, <3>2, <5>1 DEF Ascending
      <4> QED
        BY <4>1, <4>2
    <3> QED
      BY <1>0, <2>1, <3>1, <3>2
  <2> QED
    BY <2>2, <2>3
<1>6. QueueFits(s, last + 1, first)
  <2>1. ASSUME NEW i \in 1 .. Len(s), NEW j \in 1 .. Len(s), i < j PROVE s[i].n < s[j].n
    <3>1. over + i < over + j
      BY <1>0, <1>1, <1>4, <2>1
    <3> QED
      BY <1>4, <1>5, <3>1
  <2>2. \A i \in 1 .. Len(s) : s[i].n <= last + 1
    BY <1>4, <1>5
  <2>3. \A m \in 1 .. MaxEvents, i \in 1 .. Len(s) : first[m] # 0 => m < s[i].n
    BY <1>4, <1>5
  <2> QED
    BY <1>1, <1>4, <2>1, <2>2, <2>3 DEF QueueFits, Ascending
<1>7. ASSUME NEW b, BatchFits(b, q, last, first) PROVE BatchFits(b, s, last + 1, first)
  <2>1. ASSUME NEW i \in 1 .. Len(b.events)
        PROVE  b.events[i].n <= last + 1 /\ \A j \in 1 .. Len(s) : b.events[i].n < s[j].n
    <3>1. b.events \in Seq(Event)
      BY <1>7 DEF BatchFits, Batch
    <3>2. b.events[i].n \in Nat
      <4>1. b.events[i] \in Event
        BY <3>1, ElementOfSeq
      <4> QED
        BY <4>1 DEF Event
    <3>3. b.events[i].n <= last /\ \A j \in 1 .. Len(q) : b.events[i].n < q[j].n
      BY <1>7 DEF BatchFits
    <3>4. ASSUME NEW j \in 1 .. Len(q) + 1 PROVE b.events[i].n < x[j].n
      <4>1. CASE j = Len(q) + 1
        BY <1>0, <1>3, <3>2, <3>3, <4>1
      <4>2. CASE j # Len(q) + 1
        <5>1. j \in 1 .. Len(q)
          BY <1>0, <4>2
        <5> QED
          BY <1>3, <3>3, <5>1
      <4> QED
        BY <4>1, <4>2
    <3> QED
      BY <1>0, <1>4, <3>2, <3>3, <3>4
  <2> QED
    BY <1>7, <2>1 DEF BatchFits
<1>8. Len(s) + over = Len(q) + 1
  BY <1>0, <1>1, <1>4
<1> QED
  BY <1>1, <1>2, <1>6, <1>7, <1>8


\* A flush moves events from the queue to the batch that is sent, and what it leaves has a
\* timer (flushInternal).
LEMMA Flushed ==
  ASSUME NEW q, NEW last, NEW first, NEW force \in BOOLEAN, NEW armed \in BOOLEAN,
         QueueFits(q, last, first),
         BatchFits(retry, q, last, first), BatchFits(sending, q, last, first),
         sending.attempt = 0 \/ retry.attempt = 0,
         Usage!Flush(q, force, armed)
  PROVE  /\ QueueFits(queue', last, first)
         /\ BatchFits(retry', queue', last, first) /\ BatchFits(sending', queue', last, first)
         /\ sending'.attempt = 0 \/ retry'.attempt = 0
         /\ timer' \in BOOLEAN
         /\ ~ disposed /\ (queue' # <<>> \/ retry'.attempt > 0) => timer' \/ sending'.attempt > 0
         /\ disposed => queue' = q
         /\ Len(queue') + Len(retry'.events) + Len(sending'.events)
              = Len(q) + Len(retry.events) + Len(sending.events)
<1>0. /\ retry.attempt \in Nat /\ sending.attempt \in Nat /\ q \in Seq(Event)
      /\ retry.attempt = 0 => retry.events = <<>>
      /\ sending.attempt = 0 => sending.events = <<>>
      /\ retry.events \in Seq(Event) /\ sending.events \in Seq(Event)
  BY DEF QueueFits, BatchFits, Batch
<1>1. Len(q) > 0 <=> q # <<>>
  BY <1>0, EmptySeq
<1>2. CASE disposed \/ sending.attempt > 0
  <2>1. queue' = q /\ timer' = armed /\ retry' = retry /\ sending' = sending
    BY <1>2 DEF Usage!Flush
  <2> QED
    BY <1>2, <2>1
<1>3. CASE ~ (disposed \/ sending.attempt > 0) /\ ~ force /\ backoff
  <2>1. /\ queue' = q /\ timer' = (armed \/ retry.attempt > 0 \/ Len(q) > 0)
        /\ retry' = retry /\ sending' = sending
    BY <1>3 DEF Usage!Flush
  <2> QED
    BY <1>1, <1>3, <2>1
<1>4. CASE ~ (disposed \/ sending.attempt > 0) /\ ~ (~ force /\ backoff)
  <2> DEFINE next == Usage!NextBatch(q, force)
  <2>1. /\ queue' = next.rest /\ retry' = Usage!NoBatch /\ sending' = next.batch
        /\ timer' = (armed /\ next.batch.attempt = 0)
    BY <1>4 DEF Usage!Flush
  <2>2. sending.events = <<>> /\ Len(sending.events) = 0
    BY <1>0, <1>4, EmptySeq
  <2>3. CASE retry.attempt > 0
    <3>1. next = [batch |-> retry, rest |-> q]
      BY <2>3 DEF Usage!NextBatch
    <3>2. queue' = q /\ sending' = retry /\ retry.attempt # 0 /\ timer' \in BOOLEAN
      <4>1. next.rest = q /\ next.batch = retry
        BY <3>1
      <4> HIDE DEF next
      <4> QED
        BY <1>0, <2>1, <2>3, <4>1
    <3> HIDE DEF next
    <3>3. BatchFits(retry', queue', last, first) /\ retry'.attempt = 0 /\ Len(retry'.events) = 0
      BY <2>1, NoBatchFits
    <3>4. Len(q) \in Nat /\ Len(retry.events) \in Nat
      BY <1>0
    <3>5. /\ QueueFits(queue', last, first) /\ BatchFits(sending', queue', last, first)
          /\ sending'.attempt > 0
      BY <2>3, <3>2
    <3>6. Len(queue') + Len(retry'.events) + Len(sending'.events)
            = Len(q) + Len(retry.events) + Len(sending.events)
      BY <2>2, <3>2, <3>3, <3>4
    <3> QED
      BY <1>4, <3>2, <3>3, <3>5, <3>6
  <2>4. CASE retry.attempt = 0
    <3> DEFINE size == IF force THEN MaxBatchSize ELSE FlushBatchSize
               t == Usage!TakeBatch(q, size)
    <3>1. size \in Nat \ {0}
      BY UsageAssumption
    <3> HIDE DEF size
    <3>2. /\ QueueFits(t.rest, last, first)
          /\ t.batch \in Seq(Event) /\ (t.batch = <<>> => q = <<>>) /\ (q = <<>> => t.rest = <<>>)
          /\ t.batch # <<>> => BatchFits([events |-> t.batch, attempt |-> 1], t.rest, last, first)
          /\ Len(t.batch) + Len(t.rest) = Len(q)
      BY <3>1, Taken
    <3>3. next = [batch |-> IF t.batch = <<>> THEN Usage!NoBatch
                            ELSE [events |-> t.batch, attempt |-> 1],
                  rest |-> t.rest]
      BY <2>4 DEF Usage!NextBatch, size
    <3> HIDE DEF t
    <3>4. /\ queue' = t.rest /\ retry' = Usage!NoBatch
          /\ sending' = IF t.batch = <<>> THEN Usage!NoBatch ELSE [events |-> t.batch, attempt |-> 1]
      BY <2>1, <3>3
    <3>5. timer' \in BOOLEAN
      BY <2>1
    <3> HIDE DEF next
    <3>6. BatchFits(retry', queue', last, first) /\ retry'.attempt = 0 /\ Len(retry'.events) = 0
      BY <3>4, NoBatchFits
    <3>7. Len(retry.events) = 0
      BY <1>0, <2>4, EmptySeq
    <3>8. Len(t.batch) \in Nat /\ Len(t.rest) \in Nat
      BY <3>2 DEF QueueFits
    <3>9. CASE t.batch = <<>>
      <4>1. sending' = Usage!NoBatch /\ queue' = <<>> /\ Len(t.batch) = 0
        BY <3>2, <3>4, <3>9, EmptySeq
      <4>2. BatchFits(sending', queue', last, first) /\ Len(sending'.events) = 0
        BY <4>1, NoBatchFits
      <4>3. Len(queue') + Len(retry'.events) + Len(sending'.events)
              = Len(q) + Len(retry.events) + Len(sending.events)
        BY <2>2, <3>2, <3>4, <3>6, <3>7, <3>8, <4>1, <4>2
      <4> QED
        BY <1>4, <3>2, <3>4, <3>5, <3>6, <4>1, <4>2, <4>3
    <3>10. CASE t.batch # <<>>
      <4>1. /\ sending' = [events |-> t.batch, attempt |-> 1]
            /\ sending'.attempt = 1 /\ sending'.events = t.batch
        BY <3>4, <3>10
      <4>2. BatchFits(sending', queue', last, first)
        BY <3>2, <3>4, <3>10, <4>1
      <4>3. Len(queue') + Len(retry'.events) + Len(sending'.events)
              = Len(q) + Len(retry.events) + Len(sending.events)
        <5>1. /\ Len(queue') = Len(t.rest) /\ Len(sending'.events) = Len(t.batch)
              /\ Len(t.batch) + Len(t.rest) = Len(q)
          BY <3>2, <3>4, <4>1
        <5>2. Len(retry'.events) = 0 /\ Len(retry.events) = 0 /\ Len(sending.events) = 0
          BY <2>2, <3>6, <3>7
        <5>3. Len(t.batch) \in Nat /\ Len(t.rest) \in Nat /\ Len(q) \in Nat
          BY <1>0, <3>8
        <5>4. Len(t.rest) + 0 + Len(t.batch) = Len(q) + 0 + 0
          <6>1. \A a, b, c \in Nat : a + b = c => b + 0 + a = c + 0 + 0
            OBVIOUS
          <6>2. Len(t.batch) + Len(t.rest) = Len(q)
            BY <5>1
          <6> QED
            BY <5>3, <6>1, <6>2, Zenon
        <5> QED
          BY <5>1, <5>2, <5>4
      <4>4. QueueFits(queue', last, first)
        BY <3>2, <3>4
      <4>5. sending'.attempt > 0
        BY <4>1
      <4> QED
        BY <1>4, <3>5, <3>6, <4>2, <4>3, <4>4, <4>5
    <3> QED
      BY <3>9, <3>10
  <2>5. retry.attempt > 0 \/ retry.attempt = 0
    BY <1>0
  <2> QED
    BY <2>3, <2>4, <2>5
<1> QED
  BY <1>2, <1>3, <1>4

\* At the beginning nothing is counted and nothing waits.
LEMMA UsageBegins == Init => UsageInv
<1> SUFFICES ASSUME Usage!TelemetryInit PROVE UsageInv
  BY DEF Init
<1>0. /\ emitted = 0 /\ queue = <<>> /\ retry = Usage!NoBatch /\ sending = Usage!NoBatch
      /\ timer = FALSE /\ backoff = FALSE /\ disposed = FALSE
      /\ counters = [sent |-> 0, overflown |-> 0, unsent |-> 0]
      /\ arrived = [n \in 1 .. MaxEvents |-> 0] /\ bucket = BucketCapacity
      /\ rollup = [total |-> 0, unknown |-> 0, playback |-> 0, complete |-> 0,
                   views |-> [k \in Key |-> 0], viewsDropped |-> 0,
                   sessions |-> {}, sessionsDropped |-> 0]
  BY DEF Usage!TelemetryInit
<1>1. UsageTyped
  <2>1. emitted \in 0 .. MaxEvents /\ bucket \in 0 .. BucketCapacity
    BY <1>0, UsageAssumption
  <2>2. counters \in [sent : Nat, overflown : Nat, unsent : Nat]
    BY <1>0
  <2>3. arrived \in [1 .. MaxEvents -> Nat]
    BY <1>0
  <2> QED
    BY <1>0, <2>1, <2>2, <2>3 DEF UsageTyped
<1>2. Len(queue) = 0 /\ queue \in Seq(Event)
  BY <1>0, EmptySeq
<1>3. QueueFits(queue, emitted, arrived)
  BY <1>2, UsageAssumption DEF QueueFits, Ascending
<1>4. /\ BatchFits(retry, queue, emitted, arrived) /\ BatchFits(sending, queue, emitted, arrived)
      /\ retry.attempt = 0 /\ sending.attempt = 0
      /\ Len(retry.events) = 0 /\ Len(sending.events) = 0
  BY <1>0, NoBatchFits
<1>5. WaitingFits
  <2>1. Usage!WaitingIsScheduled
    BY <1>0, <1>4 DEF Usage!WaitingIsScheduled
  <2>2. Usage!EventsAddUp
    BY <1>0, <1>2, <1>4 DEF Usage!EventsAddUp
  <2> QED
    BY <1>0, <1>4, <2>1, <2>2 DEF WaitingFits
<1>6. RollupFits(rollup)
  <2>1. /\ rollup \in Rollup /\ rollup.views = [k \in Key |-> 0] /\ rollup.sessions = {}
        /\ rollup.viewsDropped = 0 /\ rollup.playback = 0
    BY <1>0 DEF Rollup
  <2>2. Viewed(rollup) = {}
    BY <2>1 DEF Viewed
  <2>3. MaxRollupKeys \in Nat
    BY UsageAssumption
  <2> QED
    BY <2>1, <2>2, <2>3, FS_EmptySet DEF RollupFits
<1>7. \A n \in 1 .. MaxEvents : arrived[n] = 0
  BY <1>0
<1>8. Usage!ArrivedInOrder
  BY <1>7 DEF Usage!ArrivedInOrder
<1> QED
  BY <1>1, <1>3, <1>4, <1>5, <1>6, <1>7, <1>8 DEF UsageInv

\* A step of another part leaves the events alone.
LEMMA UsageRests ==
  ASSUME UsageInv, UNCHANGED telemetryVars PROVE UsageInv'
<1>1. /\ emitted' = emitted /\ queue' = queue /\ retry' = retry /\ sending' = sending
      /\ timer' = timer /\ backoff' = backoff /\ disposed' = disposed /\ counters' = counters
      /\ rollup' = rollup /\ arrived' = arrived /\ bucket' = bucket
  BY DEF telemetryVars
<1>2. UsageTyped'
  BY <1>1 DEF UsageInv, UsageTyped
<1>6. WaitingFits'
  BY <1>1 DEF UsageInv, WaitingFits, Usage!WaitingIsScheduled, Usage!EventsAddUp
<1>3. RollupFits(rollup)' /\ QueueFits(queue, emitted, arrived)'
  BY <1>1 DEF UsageInv
<1>4. BatchFits(retry, queue, emitted, arrived)' /\ BatchFits(sending, queue, emitted, arrived)'
  BY <1>1 DEF UsageInv
<1>5. /\ Usage!ArrivedInOrder'
      /\ (\A n \in 1 .. MaxEvents : arrived[n] # 0 => n <= emitted /\ arrived[n] <= rollup.total)'
  BY <1>1 DEF UsageInv, Usage!ArrivedInOrder
<1> QED
  BY <1>2, <1>3, <1>4, <1>5, <1>6 DEF UsageInv


\* A flush, by the timer or as the app leaves the foreground.
LEMMA FlushKeeps ==
  ASSUME UsageInv, NEW force \in BOOLEAN, NEW armed \in BOOLEAN,
         Usage!Flush(queue, force, armed),
         UNCHANGED <<emitted, backoff, disposed, counters, rollup, arrived, bucket>>
  PROVE  UsageInv'
<1>1. /\ emitted' = emitted /\ backoff' = backoff /\ disposed' = disposed
      /\ counters' = counters /\ rollup' = rollup /\ arrived' = arrived /\ bucket' = bucket
  OBVIOUS
<1>2. /\ QueueFits(queue, emitted, arrived)
      /\ BatchFits(retry, queue, emitted, arrived) /\ BatchFits(sending, queue, emitted, arrived)
      /\ sending.attempt = 0 \/ retry.attempt = 0
  BY DEF UsageInv, WaitingFits
<1>3. /\ QueueFits(queue', emitted, arrived)
      /\ BatchFits(retry', queue', emitted, arrived) /\ BatchFits(sending', queue', emitted, arrived)
      /\ sending'.attempt = 0 \/ retry'.attempt = 0
      /\ timer' \in BOOLEAN
      /\ ~ disposed /\ (queue' # <<>> \/ retry'.attempt > 0) => timer' \/ sending'.attempt > 0
      /\ disposed => queue' = queue
      /\ Len(queue') + Len(retry'.events) + Len(sending'.events)
           = Len(queue) + Len(retry.events) + Len(sending.events)
  BY <1>2, Flushed
<1>4. UsageTyped'
  BY <1>1, <1>3 DEF UsageInv, UsageTyped
<1>5. WaitingFits'
  <2>1. Usage!WaitingIsScheduled'
    BY <1>1, <1>3 DEF Usage!WaitingIsScheduled
  <2>2. Usage!EventsAddUp'
    <3>1. ~ disposed =>
            emitted = (Len(queue') + Len(retry'.events) + Len(sending'.events))
                        + counters.sent + counters.overflown + counters.unsent
      BY <1>3 DEF Usage!EventsAddUp, UsageInv, WaitingFits
    <3> QED
      BY <1>1, <3>1 DEF Usage!EventsAddUp
  <2> QED
    BY <1>1, <1>3, <2>1, <2>2 DEF WaitingFits, UsageInv
<1>6. RollupFits(rollup)' /\ QueueFits(queue, emitted, arrived)'
  BY <1>1, <1>3 DEF UsageInv
<1>7. BatchFits(retry, queue, emitted, arrived)' /\ BatchFits(sending, queue, emitted, arrived)'
  BY <1>1, <1>3
<1>8. /\ Usage!ArrivedInOrder'
      /\ (\A n \in 1 .. MaxEvents : arrived[n] # 0 => n <= emitted /\ arrived[n] <= rollup.total)'
  BY <1>1 DEF UsageInv, Usage!ArrivedInOrder
<1> QED
  BY <1>4, <1>5, <1>6, <1>7, <1>8 DEF UsageInv

\* A new event waits, or is sent with what waits (enqueue).
LEMMA EmitKeeps ==
  ASSUME UsageInv, NEW kind \in Usage!Kind, NEW key \in Key, Usage!Emit(kind, key)
  PROVE  UsageInv'
<1> DEFINE e == [n |-> emitted + 1, kind |-> kind, key |-> key]
           a == Usage!AdmitEvent(queue, e)
<1>1. /\ emitted' = emitted + 1 /\ ~ disposed /\ disposed' = disposed /\ backoff' = backoff
      /\ rollup' = rollup /\ arrived' = arrived /\ bucket' = bucket
      /\ counters' = [counters EXCEPT !.overflown = @ + a.dropped]
      /\ emitted < MaxEvents
  BY DEF Usage!Emit
<1>2. /\ emitted \in 0 .. MaxEvents - 1 /\ emitted' \in 0 .. MaxEvents /\ emitted \in Nat
  BY <1>1, UsageAssumption DEF UsageInv, UsageTyped
<1>3. e \in Event /\ e.n = emitted + 1
  <2>1. emitted + 1 \in 1 .. MaxEvents
    BY <1>2, UsageAssumption
  <2> QED
    BY <2>1 DEF Event
<1>4. \/ \E force \in BOOLEAN : Usage!Flush(a.queue, force, timer)
      \/ /\ queue' = a.queue /\ retry' = retry /\ sending' = sending
         /\ timer' = Usage!ScheduleNext(a.queue, retry, sending.attempt > 0)
  BY DEF Usage!Emit
<1>5. /\ QueueFits(queue, emitted, arrived)
      /\ \A n \in 1 .. MaxEvents : arrived[n] # 0 => n <= emitted
      /\ BatchFits(retry, queue, emitted, arrived) /\ BatchFits(sending, queue, emitted, arrived)
      /\ sending.attempt = 0 \/ retry.attempt = 0
      /\ timer \in BOOLEAN
  BY DEF UsageInv, WaitingFits, UsageTyped
<1> HIDE DEF e
<1>6. /\ QueueFits(a.queue, emitted + 1, arrived) /\ a.dropped \in Nat
      /\ Len(a.queue) + a.dropped = Len(queue) + 1
      /\ \A b : BatchFits(b, queue, emitted, arrived) => BatchFits(b, a.queue, emitted + 1, arrived)
  BY <1>2, <1>3, <1>5, Admitted
<1> HIDE DEF a
<1>7. BatchFits(retry, a.queue, emitted + 1, arrived) /\ BatchFits(sending, a.queue, emitted + 1, arrived)
  BY <1>5, <1>6
<1>8. /\ QueueFits(queue', emitted + 1, arrived)
      /\ BatchFits(retry', queue', emitted + 1, arrived)
      /\ BatchFits(sending', queue', emitted + 1, arrived)
      /\ sending'.attempt = 0 \/ retry'.attempt = 0
      /\ timer' \in BOOLEAN
      /\ ~ disposed /\ (queue' # <<>> \/ retry'.attempt > 0) => timer' \/ sending'.attempt > 0
      /\ Len(queue') + Len(retry'.events) + Len(sending'.events)
           = Len(a.queue) + Len(retry.events) + Len(sending.events)
  <2>1. CASE \E force \in BOOLEAN : Usage!Flush(a.queue, force, timer)
    <3>1. PICK force \in BOOLEAN : Usage!Flush(a.queue, force, timer)
      BY <2>1
    <3> QED
      BY <1>5, <1>6, <1>7, <3>1, Flushed
  <2>2. CASE /\ queue' = a.queue /\ retry' = retry /\ sending' = sending
             /\ timer' = Usage!ScheduleNext(a.queue, retry, sending.attempt > 0)
    <3>1. a.queue # <<>> => Len(a.queue) > 0
      BY <1>6, EmptySeq DEF QueueFits
    <3>2. timer' = (timer \/ (~ (sending.attempt > 0) /\ (retry.attempt > 0 \/ Len(a.queue) > 0)))
      BY <2>2 DEF Usage!ScheduleNext
    <3> QED
      BY <1>5, <1>6, <1>7, <2>2, <3>1, <3>2
  <2> QED
    BY <1>4, <2>1, <2>2
<1>9. UsageTyped'
  <2>1. counters' \in [sent : Nat, overflown : Nat, unsent : Nat]
    <3>1. counters \in [sent : Nat, overflown : Nat, unsent : Nat]
      BY DEF UsageInv, UsageTyped
    <3>2. PICK x : x = counters.overflown + a.dropped
      OBVIOUS
    <3>3. x \in Nat
      BY <1>6, <3>1, <3>2
    <3>4. counters' = [counters EXCEPT !.overflown = x]
      BY <1>1, <3>2
    <3> QED
      BY <3>1, <3>3, <3>4
  <2> QED
    BY <1>1, <1>2, <1>8, <2>1 DEF UsageInv, UsageTyped
<1>10. WaitingFits'
  <2>1. Usage!WaitingIsScheduled'
    BY <1>1, <1>8 DEF Usage!WaitingIsScheduled
  <2>2. Usage!EventsAddUp'
    <3>1. counters \in [sent : Nat, overflown : Nat, unsent : Nat]
      BY DEF UsageInv, UsageTyped
    <3>2. /\ counters'.sent = counters.sent /\ counters'.unsent = counters.unsent
          /\ counters'.overflown = counters.overflown + a.dropped
      BY <1>1, <3>1
    <3>3. emitted = Len(queue) + Len(retry.events) + Len(sending.events)
                      + counters.sent + counters.overflown + counters.unsent
      BY <1>1 DEF UsageInv, WaitingFits, Usage!EventsAddUp
    <3>4. /\ counters.sent \in Nat /\ counters.overflown \in Nat /\ counters.unsent \in Nat
          /\ a.dropped \in Nat
      BY <1>6, <3>1
    <3>5. Len(queue) \in Nat /\ Len(a.queue) \in Nat /\ Len(queue') \in Nat
      BY <1>5, <1>6, <1>8 DEF QueueFits
    <3>6. Len(retry.events) \in Nat /\ Len(sending.events) \in Nat
      BY <1>5 DEF BatchFits, Batch
    <3>7. Len(retry'.events) \in Nat /\ Len(sending'.events) \in Nat
      BY <1>8 DEF BatchFits, Batch
    <3>8. Len(queue') + Len(retry'.events) + Len(sending'.events) + a.dropped
            = Len(queue) + Len(retry.events) + Len(sending.events) + 1
      <4>1. ASSUME NEW q \in Nat, q = Len(queue), NEW q1 \in Nat, q1 = Len(a.queue),
                   NEW r \in Nat, r = Len(retry.events), NEW t \in Nat, t = Len(sending.events)
            PROVE  Len(a.queue) + Len(retry.events) + Len(sending.events) + a.dropped
                     = Len(queue) + Len(retry.events) + Len(sending.events) + 1
        <5>1. q1 + a.dropped = q + 1
          BY <1>6, <4>1, Zenon
        <5>2. q1 + r + t + a.dropped = q + r + t + 1
          BY <3>4, <5>1
        <5> QED
          BY <4>1, <5>2, Zenon
      <4>2. Len(a.queue) + Len(retry.events) + Len(sending.events) + a.dropped
              = Len(queue) + Len(retry.events) + Len(sending.events) + 1
        BY <3>5, <3>6, <4>1, Zenon
      <4> QED
        BY <1>8, <4>2, Zenon
    <3>9. (Len(queue) + Len(retry.events) + Len(sending.events)
             + counters.sent + counters.overflown + counters.unsent) + 1
            = Len(queue') + Len(retry'.events) + Len(sending'.events)
                + counters.sent + (counters.overflown + a.dropped) + counters.unsent
      <4>0. \A a1, a2, a3 \in Nat : a1 + a2 + a3 \in Nat
        OBVIOUS
      <4>1. ASSUME NEW w \in Nat, w = Len(queue) + Len(retry.events) + Len(sending.events),
                   NEW v \in Nat, v = Len(queue') + Len(retry'.events) + Len(sending'.events)
            PROVE  (w + counters.sent + counters.overflown + counters.unsent) + 1
                     = v + counters.sent + (counters.overflown + a.dropped) + counters.unsent
        <5>1. v + a.dropped = w + 1
          BY <3>8, <4>1, Zenon
        <5> QED
          BY <3>4, <5>1
      <4>2. Len(queue) + Len(retry.events) + Len(sending.events) \in Nat
        BY <3>5, <3>6, <4>0, Zenon
      <4>3. Len(queue') + Len(retry'.events) + Len(sending'.events) \in Nat
        BY <3>5, <3>7, <4>0, Zenon
      <4> QED
        BY <4>1, <4>2, <4>3, Zenon
    <3>10. emitted' = Len(queue') + Len(retry'.events) + Len(sending'.events)
                      + counters'.sent + counters'.overflown + counters'.unsent
      BY <1>1, <3>2, <3>3, <3>9, Zenon
    <3> QED
      BY <3>10 DEF Usage!EventsAddUp
  <2> QED
    BY <1>1, <1>8, <2>1, <2>2 DEF WaitingFits
<1>11. RollupFits(rollup)' /\ QueueFits(queue, emitted, arrived)'
  BY <1>1, <1>8 DEF UsageInv
<1>12. BatchFits(retry, queue, emitted, arrived)' /\ BatchFits(sending, queue, emitted, arrived)'
  BY <1>1, <1>8
<1>13. Usage!ArrivedInOrder'
  BY <1>1 DEF UsageInv, Usage!ArrivedInOrder
<1>14. (\A n \in 1 .. MaxEvents : arrived[n] # 0 => n <= emitted /\ arrived[n] <= rollup.total)'
  BY <1>1, <1>2 DEF UsageInv
<1> QED
  BY <1>9, <1>10, <1>11, <1>12, <1>13, <1>14 DEF UsageInv

\* What was thrown away with the queue is accounted for by nobody, and nothing waits (dispose).
LEMMA DisposeKeeps == ASSUME UsageInv, Usage!Dispose PROVE UsageInv'
<1>1. /\ emitted' = emitted /\ backoff' = backoff /\ disposed' = TRUE /\ timer' = FALSE
      /\ queue' = <<>> /\ retry' = Usage!NoBatch /\ sending' = sending
      /\ counters' = counters /\ rollup' = rollup /\ arrived' = arrived /\ bucket' = bucket
  BY DEF Usage!Dispose
<1>2. Len(queue') = 0 /\ queue' \in Seq(Event)
  BY <1>1, EmptySeq
<1>3. QueueFits(queue', emitted, arrived)
  BY <1>2, UsageAssumption DEF QueueFits, Ascending
<1>4. BatchFits(retry', queue', emitted, arrived) /\ retry'.attempt = 0
  BY <1>1, NoBatchFits
<1>5. BatchFits(sending, queue', emitted, arrived)
  <2>1. BatchFits(sending, queue, emitted, arrived)
    BY DEF UsageInv
  <2> QED
    BY <1>2, <2>1 DEF BatchFits
<1>6. UsageTyped'
  BY <1>1 DEF UsageInv, UsageTyped
<1>7. WaitingFits'
  BY <1>1, <1>4 DEF WaitingFits, Usage!WaitingIsScheduled, Usage!EventsAddUp
<1>8. RollupFits(rollup)' /\ QueueFits(queue, emitted, arrived)'
  BY <1>1, <1>3 DEF UsageInv
<1>9. BatchFits(retry, queue, emitted, arrived)' /\ BatchFits(sending, queue, emitted, arrived)'
  BY <1>1, <1>4, <1>5
<1>10. /\ Usage!ArrivedInOrder'
       /\ (\A n \in 1 .. MaxEvents : arrived[n] # 0 => n <= emitted /\ arrived[n] <= rollup.total)'
  BY <1>1 DEF UsageInv, Usage!ArrivedInOrder
<1> QED
  BY <1>6, <1>7, <1>8, <1>9, <1>10 DEF UsageInv

\* The backoff and the api's allowance move alone.
LEMMA AloneKeeps ==
  ASSUME UsageInv, backoff' \in BOOLEAN, bucket' \in 0 .. BucketCapacity,
         UNCHANGED <<emitted, queue, retry, sending, timer, disposed, counters, rollup, arrived>>
  PROVE  UsageInv'
<1>1. /\ emitted' = emitted /\ queue' = queue /\ retry' = retry /\ sending' = sending
      /\ timer' = timer /\ disposed' = disposed /\ counters' = counters
      /\ rollup' = rollup /\ arrived' = arrived
  OBVIOUS
<1>2. UsageTyped'
  BY <1>1 DEF UsageInv, UsageTyped
<1>6. WaitingFits'
  <2>1. Usage!WaitingIsScheduled'
    BY <1>1 DEF UsageInv, WaitingFits, Usage!WaitingIsScheduled
  <2>2. Usage!EventsAddUp'
    BY <1>1 DEF UsageInv, WaitingFits, Usage!EventsAddUp
  <2> QED
    BY <1>1, <2>1, <2>2 DEF UsageInv, WaitingFits
<1>3. RollupFits(rollup)' /\ QueueFits(queue, emitted, arrived)'
  BY <1>1 DEF UsageInv
<1>4. BatchFits(retry, queue, emitted, arrived)' /\ BatchFits(sending, queue, emitted, arrived)'
  BY <1>1 DEF UsageInv
<1>5. /\ Usage!ArrivedInOrder'
      /\ (\A n \in 1 .. MaxEvents : arrived[n] # 0 => n <= emitted /\ arrived[n] <= rollup.total)'
  BY <1>1 DEF UsageInv, Usage!ArrivedInOrder
<1> QED
  BY <1>2, <1>3, <1>4, <1>5, <1>6 DEF UsageInv


\* Where an event stands in the batch under way, if it is in it.
At(m) == CHOOSE i \in DOMAIN sending.events : sending.events[i].n = m
Out(m) == \E i \in DOMAIN sending.events : sending.events[i].n = m

\* An event has one place in a batch, and the places are in the order of use.
LEMMA Places ==
  ASSUME UsageInv
  PROVE  /\ Len(sending.events) \in Nat
         /\ \A m : Out(m) => At(m) \in 1 .. Len(sending.events) /\ sending.events[At(m)].n = m
         /\ \A m : Out(m) => m \in 1 .. MaxEvents /\ m <= emitted
         /\ \A m, n : Out(m) /\ Out(n) /\ m < n => At(m) < At(n)
<1>0. /\ sending.events \in Seq(Event) /\ Ascending(sending.events)
      /\ \A i \in 1 .. Len(sending.events) : sending.events[i].n <= emitted
  BY DEF UsageInv, BatchFits, Batch
<1>1. DOMAIN sending.events = 1 .. Len(sending.events) /\ Len(sending.events) \in Nat
  BY <1>0, LenProperties
<1>2. ASSUME NEW m, Out(m)
      PROVE  At(m) \in 1 .. Len(sending.events) /\ sending.events[At(m)].n = m
  BY <1>1, <1>2 DEF Out, At
<1>3. ASSUME NEW m, Out(m) PROVE m \in 1 .. MaxEvents /\ m <= emitted
  <2>1. sending.events[At(m)] \in Event
    BY <1>0, <1>2, <1>3, ElementOfSeq
  <2>2. sending.events[At(m)].n \in 1 .. MaxEvents
    BY <2>1 DEF Event
  <2>3. At(m) \in 1 .. Len(sending.events) /\ sending.events[At(m)].n = m
    BY <1>2, <1>3
  <2> QED
    BY <1>0, <2>2, <2>3
<1>4. ASSUME NEW m, NEW n, Out(m), Out(n), m < n PROVE At(m) < At(n)
  <2>1. /\ At(m) \in 1 .. Len(sending.events) /\ sending.events[At(m)].n = m
        /\ At(n) \in 1 .. Len(sending.events) /\ sending.events[At(n)].n = n
        /\ m \in 1 .. MaxEvents /\ n \in 1 .. MaxEvents
    BY <1>2, <1>3, <1>4
  <2>2. PICK a \in 1 .. Len(sending.events), b \in 1 .. Len(sending.events) :
          a = At(m) /\ b = At(n)
    BY <2>1
  <2>3. a # b
    BY <1>4, <2>1, <2>2, UsageAssumption
  <2>4. ~ (b < a)
    <3>1. SUFFICES ASSUME b < a PROVE FALSE
      OBVIOUS
    <3>2. sending.events[b].n < sending.events[a].n
      BY <1>0, <3>1 DEF Ascending
    <3>3. n < m
      BY <2>1, <2>2, <3>2
    <3> QED
      BY <1>4, <2>1, <3>3, UsageAssumption
  <2> QED
    BY <1>1, <2>2, <2>3, <2>4
<1> QED
  BY <1>1, <1>2, <1>3, <1>4

\* The api takes the batch: its events have arrived, in their order and after all that had
\* (check, ingest).
LEMMA ReceivedFits ==
  ASSUME UsageInv, Usage!Received
  PROVE  /\ arrived' \in [1 .. MaxEvents -> Nat] /\ bucket' \in 0 .. BucketCapacity
         /\ RollupFits(rollup')
         /\ QueueFits(queue, emitted, arrived') /\ BatchFits(sending, queue, emitted, arrived')
         /\ \A n \in 1 .. MaxEvents : arrived'[n] # 0 => n <= emitted /\ arrived'[n] <= rollup'.total
         /\ \A m, n \in 1 .. MaxEvents :
              m < n /\ arrived'[m] # 0 /\ arrived'[n] # 0 => arrived'[m] < arrived'[n]
<1> DEFINE s == sending.events
           Late(n) == arrived[n] = 0 /\ Out(n)
<1>0. /\ s \in Seq(Event) /\ BatchFits(sending, queue, emitted, arrived)
      /\ QueueFits(queue, emitted, arrived) /\ RollupFits(rollup)
      /\ arrived \in [1 .. MaxEvents -> Nat] /\ bucket \in 0 .. BucketCapacity
      /\ \A n \in 1 .. MaxEvents : arrived[n] # 0 => n <= emitted /\ arrived[n] <= rollup.total
      /\ \A m, n \in 1 .. MaxEvents :
              m < n /\ arrived[m] # 0 /\ arrived[n] # 0 => arrived[m] < arrived[n]
  BY DEF UsageInv, UsageTyped, BatchFits, Batch, Usage!ArrivedInOrder
<1>1. /\ bucket > 0 /\ bucket' = bucket - 1 /\ rollup' = Usage!Ingest(s)
      /\ arrived' = [n \in 1 .. MaxEvents |-> IF Late(n) THEN rollup.total + At(n) ELSE arrived[n]]
  BY DEF Usage!Received, Out, At
<1>2. RollupFits(rollup') /\ rollup'.total = rollup.total + Len(s)
  BY <1>0, <1>1, Ingested
<1>3. rollup.total \in Nat /\ Len(s) \in Nat /\ MaxEvents \in Nat
  BY <1>0, UsageAssumption DEF RollupFits, Rollup
<1>4. bucket' \in 0 .. BucketCapacity
  BY <1>0, <1>1, UsageAssumption
<1>5. ASSUME NEW n \in 1 .. MaxEvents
      PROVE  \/ Late(n) /\ arrived'[n] = rollup.total + At(n) /\ At(n) \in 1 .. Len(s)
             \/ ~ Late(n) /\ arrived'[n] = arrived[n]
  BY <1>1, Places
<1>6. arrived' \in [1 .. MaxEvents -> Nat]
  <2>1. \A n \in 1 .. MaxEvents : (IF Late(n) THEN rollup.total + At(n) ELSE arrived[n]) \in Nat
    BY <1>0, <1>3, Places
  <2> HIDE DEF Late
  <2> QED
    BY <1>1, <2>1
<1> HIDE DEF Late
<1>7. ASSUME NEW n \in 1 .. MaxEvents, arrived'[n] # 0 PROVE arrived[n] # 0 \/ Out(n)
  BY <1>5, <1>7 DEF Late
<1>8. ASSUME NEW n \in 1 .. MaxEvents, arrived'[n] # 0
      PROVE  n <= emitted /\ arrived'[n] <= rollup'.total
  <2>1. CASE Late(n)
    <3>1. n <= emitted /\ At(n) \in 1 .. Len(s) /\ arrived'[n] = rollup.total + At(n)
      BY <1>5, <2>1, Places DEF Late
    <3> QED
      BY <1>2, <1>3, <3>1
  <2>2. CASE ~ Late(n)
    <3>1. arrived'[n] = arrived[n]
      BY <1>5, <2>2
    <3>2. n <= emitted /\ arrived[n] <= rollup.total /\ arrived[n] \in Nat
      BY <1>0, <1>8, <3>1
    <3> QED
      BY <1>2, <1>3, <3>1, <3>2
  <2> QED
    BY <2>1, <2>2
<1>9. QueueFits(queue, emitted, arrived')
  <2>1. ASSUME NEW n \in 1 .. MaxEvents, NEW i \in 1 .. Len(queue), arrived'[n] # 0
        PROVE  n < queue[i].n
    <3>1. CASE arrived[n] # 0
      BY <1>0, <3>1 DEF QueueFits
    <3>2. CASE Out(n)
      <4>1. At(n) \in 1 .. Len(s) /\ s[At(n)].n = n
        BY <3>2, Places
      <4>2. s[At(n)].n < queue[i].n
        BY <1>0, <4>1 DEF BatchFits
      <4> QED
        BY <4>1, <4>2
    <3> QED
      BY <1>7, <2>1, <3>1, <3>2
  <2> QED
    BY <1>0, <2>1 DEF QueueFits
<1>10. BatchFits(sending, queue, emitted, arrived')
  <2>1. ASSUME NEW i \in 1 .. Len(s) PROVE arrived'[s[i].n] # 0
    <3>1. s[i].n \in 1 .. MaxEvents
      <4>1. s[i] \in Event
        BY <1>0, ElementOfSeq
      <4> QED
        BY <4>1 DEF Event
    <3>2. PICK n \in 1 .. MaxEvents : n = s[i].n /\ Out(n)
      BY <1>0, <3>1, LenProperties DEF Out
    <3> SUFFICES arrived'[n] # 0
      BY <3>2
    <3>3. CASE arrived[n] # 0
      BY <1>5, <3>1, <3>3 DEF Late
    <3>4. CASE arrived[n] = 0
      <4>1. arrived'[n] = rollup.total + At(n) /\ At(n) \in 1 .. Len(s)
        BY <1>5, <3>1, <3>2, <3>4 DEF Late
      <4> QED
        BY <1>3, <4>1
    <3> QED
      BY <3>3, <3>4
  <2> QED
    BY <1>0, <2>1 DEF BatchFits
<1>11. ASSUME NEW m \in 1 .. MaxEvents, NEW n \in 1 .. MaxEvents, m < n,
              arrived'[m] # 0, arrived'[n] # 0
       PROVE  arrived'[m] < arrived'[n]
  <2>1. CASE ~ Late(m) /\ ~ Late(n)
    BY <1>0, <1>5, <1>11, <2>1
  <2>2. CASE Late(m) /\ Late(n)
    <3>1. At(m) < At(n) /\ At(m) \in 1 .. Len(s) /\ At(n) \in 1 .. Len(s)
      BY <1>11, <2>2, Places DEF Late
    <3> QED
      BY <1>3, <1>5, <2>2, <3>1
  <2>3. CASE ~ Late(m) /\ Late(n)
    <3>1. arrived'[m] = arrived[m] /\ arrived[m] \in Nat /\ arrived[m] <= rollup.total
      BY <1>0, <1>5, <1>11, <2>3
    <3>2. arrived'[n] = rollup.total + At(n) /\ At(n) \in 1 .. Len(s)
      BY <1>5, <2>3
    <3> QED
      BY <1>3, <3>1, <3>2
  <2>4. CASE Late(m) /\ ~ Late(n)
    <3>1. arrived[n] # 0 /\ arrived[m] = 0 /\ Out(m)
      BY <1>5, <1>11, <2>4 DEF Late
    <3>2. At(m) \in 1 .. Len(s) /\ s[At(m)].n = m
      BY <3>1, Places
    <3>3. \A l \in 1 .. MaxEvents, i \in 1 .. Len(s) : arrived[l] # 0 => l < s[i].n
      BY <1>0, <3>1, <3>2 DEF BatchFits
    <3>4. n < m
      BY <3>1, <3>2, <3>3
    <3> QED
      BY <1>3, <1>11, <3>4
  <2> QED
    BY <2>1, <2>2, <2>3, <2>4
<1> QED
  BY <1>2, <1>4, <1>6, <1>8, <1>9, <1>10, <1>11


\* A batch has been sent: it is done with, kept for another attempt, or given up
\* (flushInternal, onSendFailure).
LEMMA SentKeeps ==
  ASSUME UsageInv, sending.attempt > 0, sending' = Usage!NoBatch,
         UNCHANGED <<emitted, queue, disposed>>,
         Usage!Succeed \/ Usage!Fail,
         arrived' \in [1 .. MaxEvents -> Nat], bucket' \in 0 .. BucketCapacity,
         RollupFits(rollup'),
         QueueFits(queue, emitted, arrived'), BatchFits(sending, queue, emitted, arrived'),
         \A n \in 1 .. MaxEvents : arrived'[n] # 0 => n <= emitted /\ arrived'[n] <= rollup'.total,
         \A m, n \in 1 .. MaxEvents :
           m < n /\ arrived'[m] # 0 /\ arrived'[n] # 0 => arrived'[m] < arrived'[n]
  PROVE  UsageInv'
<1>0. /\ emitted' = emitted /\ queue' = queue /\ disposed' = disposed
      /\ sending.attempt \in 0 .. MaxSendAttempts /\ retry.attempt = 0 /\ retry.events = <<>>
      /\ sending \in Batch /\ sending.events \in Seq(Event) /\ sending.events # <<>>
      /\ counters \in [sent : Nat, overflown : Nat, unsent : Nat]
      /\ queue \in Seq(Event) /\ disposed \in BOOLEAN /\ timer \in BOOLEAN
  <2>1. sending.attempt \in 0 .. MaxSendAttempts
    BY DEF BatchFits, Batch
  <2>2. retry.attempt = 0
    BY <2>1 DEF UsageInv, WaitingFits
  <2>3. retry.events = <<>>
    BY <2>2 DEF UsageInv, BatchFits
  <2> QED
    BY <2>1, <2>2, <2>3 DEF UsageInv, UsageTyped, BatchFits, Batch, QueueFits
<1>1. BatchFits(sending', queue', emitted', arrived') /\ sending'.attempt = 0 /\ Len(sending'.events) = 0
  BY NoBatchFits
<1> DEFINE n == Len(sending.events)
<1>2. n \in Nat
  BY <1>0
<1>3. /\ BatchFits(retry', queue', emitted', arrived')
      /\ counters' \in [sent : Nat, overflown : Nat, unsent : Nat]
      /\ timer' = (~ disposed /\ (timer \/ (retry'.attempt > 0 \/ Len(queue) > 0)))
      /\ Len(retry'.events) + counters'.sent + counters'.overflown + counters'.unsent
           = n + counters.sent + counters.overflown + counters.unsent
      /\ backoff' \in BOOLEAN
  <2>0. BatchFits(retry, queue, emitted, arrived') /\ Len(retry.events) = 0
    <3>1. retry = Usage!NoBatch
      <4>1. retry \in Batch
        BY DEF UsageInv, BatchFits
      <4>2. retry = [events |-> retry.events, attempt |-> retry.attempt]
        BY <4>1 DEF Batch
      <4> QED
        BY <1>0, <4>2 DEF Usage!NoBatch
    <3> QED
      BY <3>1, NoBatchFits
  <2>1. CASE Usage!Succeed
    <3>1. /\ counters' = [counters EXCEPT !.sent = @ + n] /\ backoff' = FALSE /\ retry' = retry
          /\ timer' = (~ disposed /\ (timer \/ (retry.attempt > 0 \/ Len(queue) > 0)))
      BY <2>1 DEF Usage!Succeed, Usage!ScheduleNext
    <3> HIDE DEF n
    <3>2. /\ counters' \in [sent : Nat, overflown : Nat, unsent : Nat]
          /\ counters'.sent = counters.sent + n /\ counters'.overflown = counters.overflown
          /\ counters'.unsent = counters.unsent
      BY <1>0, <1>2, <3>1
    <3>3. 0 + (counters.sent + n) + counters.overflown + counters.unsent
            = n + counters.sent + counters.overflown + counters.unsent
      BY <1>0, <1>2
    <3> QED
      BY <1>0, <2>0, <3>1, <3>2, <3>3
  <2>2. CASE Usage!Fail /\ sending.attempt < MaxSendAttempts
    <3>1. /\ retry' = [sending EXCEPT !.attempt = @ + 1] /\ counters' = counters /\ backoff' = TRUE
          /\ timer' = (~ disposed /\ (timer \/ (retry'.attempt > 0 \/ Len(queue) > 0)))
      BY <2>2 DEF Usage!Fail, Usage!ScheduleNext
    <3>2. /\ retry' \in Batch /\ retry'.events = sending.events
          /\ retry'.attempt = sending.attempt + 1 /\ retry'.attempt # 0
      <4>1. sending.attempt + 1 \in 0 .. MaxSendAttempts /\ sending.attempt + 1 # 0
        <5>1. MaxSendAttempts \in Nat /\ sending.attempt < MaxSendAttempts
          BY <2>2, UsageAssumption
        <5>2. sending.attempt \in 0 .. MaxSendAttempts
          BY <1>0
        <5> QED
          BY <5>1, <5>2
      <4>2. retry' = [sending EXCEPT !.attempt = sending.attempt + 1]
        BY <3>1
      <4> QED
        BY <1>0, <4>1, <4>2 DEF Batch
    <3>3. BatchFits(retry', queue, emitted, arrived')
      BY <1>0, <3>2 DEF BatchFits
    <3> QED
      BY <1>0, <3>1, <3>2, <3>3
  <2>3. CASE Usage!Fail /\ ~ (sending.attempt < MaxSendAttempts)
    <3>1. /\ retry' = retry /\ counters' = [counters EXCEPT !.unsent = @ + n] /\ backoff' = TRUE
          /\ timer' = (~ disposed /\ (timer \/ (retry'.attempt > 0 \/ Len(queue) > 0)))
      BY <2>3 DEF Usage!Fail, Usage!ScheduleNext
    <3> HIDE DEF n
    <3>2. /\ counters' \in [sent : Nat, overflown : Nat, unsent : Nat]
          /\ counters'.sent = counters.sent /\ counters'.overflown = counters.overflown
          /\ counters'.unsent = counters.unsent + n
      <4>1. counters \in [sent : Nat, overflown : Nat, unsent : Nat]
        BY <1>0
      <4>2. PICK x : x = counters.unsent + n
        OBVIOUS
      <4>3. x \in Nat
        BY <1>2, <4>1, <4>2
      <4>4. counters' = [counters EXCEPT !.unsent = x]
        BY <3>1, <4>2
      <4> QED
        BY <4>1, <4>2, <4>3, <4>4
    <3>3. 0 + counters.sent + counters.overflown + (counters.unsent + n)
            = n + counters.sent + counters.overflown + counters.unsent
      BY <1>0, <1>2
    <3> QED
      BY <1>0, <2>0, <3>1, <3>2, <3>3
  <2> QED
    BY <2>1, <2>2, <2>3
<1> HIDE DEF n
<1>4. UsageTyped'
  <2>1. timer' \in BOOLEAN
    BY <1>3
  <2> QED
    BY <1>0, <1>3, <2>1 DEF UsageInv, UsageTyped
<1>5. WaitingFits'
  <2>1. Usage!WaitingIsScheduled'
    <3>1. queue # <<>> => Len(queue) > 0
      BY <1>0, EmptySeq
    <3>2. ~ disposed /\ (queue # <<>> \/ retry'.attempt > 0) => timer'
      BY <1>3, <3>1
    <3> QED
      BY <1>0, <3>2 DEF Usage!WaitingIsScheduled
  <2>2. Usage!EventsAddUp'
    <3>1. ~ disposed => emitted = Len(queue) + Len(retry.events) + n
                               + counters.sent + counters.overflown + counters.unsent
      BY DEF UsageInv, WaitingFits, Usage!EventsAddUp, n
    <3>2. Len(retry.events) = 0
      BY <1>0, EmptySeq
    <3>3. Len(queue) \in Nat /\ Len(retry'.events) \in Nat
      BY <1>0, <1>3 DEF BatchFits, Batch
    <3>4. /\ counters.sent \in Nat /\ counters.overflown \in Nat /\ counters.unsent \in Nat
          /\ counters'.sent \in Nat /\ counters'.overflown \in Nat /\ counters'.unsent \in Nat
      BY <1>0, <1>3
    <3>5. Len(queue) + 0 + n + counters.sent + counters.overflown + counters.unsent
            = Len(queue) + Len(retry'.events) + 0
                + counters'.sent + counters'.overflown + counters'.unsent
      <4>1. ASSUME NEW q \in Nat, q = Len(queue), NEW r \in Nat, r = Len(retry'.events),
                   NEW s1 \in Nat, s1 = counters'.sent, NEW o1 \in Nat, o1 = counters'.overflown,
                   NEW u1 \in Nat, u1 = counters'.unsent,
                   NEW s0 \in Nat, s0 = counters.sent, NEW o0 \in Nat, o0 = counters.overflown,
                   NEW u0 \in Nat, u0 = counters.unsent, NEW m \in Nat, m = n
            PROVE  Len(queue) + 0 + n + counters.sent + counters.overflown + counters.unsent
                     = Len(queue) + Len(retry'.events) + 0
                         + counters'.sent + counters'.overflown + counters'.unsent
        <5>1. r + s1 + o1 + u1 = m + s0 + o0 + u0
          BY <1>3, <4>1, Zenon
        <5>2. q + 0 + m + s0 + o0 + u0 = q + r + 0 + s1 + o1 + u1
          BY <5>1
        <5> QED
          BY <4>1, <5>2, Zenon
      <4> QED
        BY <1>2, <3>3, <3>4, <4>1, Zenon
    <3>6. ~ disposed => emitted = Len(queue) + 0 + n
                               + counters.sent + counters.overflown + counters.unsent
      BY <3>1, <3>2, Zenon
    <3>7. ~ disposed => emitted = Len(queue) + Len(retry'.events) + 0
                               + counters'.sent + counters'.overflown + counters'.unsent
      BY <3>5, <3>6, Zenon
    <3>8. ~ disposed' => emitted' = Len(queue') + Len(retry'.events) + Len(sending'.events)
                               + counters'.sent + counters'.overflown + counters'.unsent
      <4>1. Len(sending'.events) = 0 /\ emitted' = emitted /\ queue' = queue /\ disposed' = disposed
        BY <1>0, <1>1
      <4> QED
        BY <3>7, <4>1
    <3> QED
      BY <3>8 DEF Usage!EventsAddUp
  <2>3. disposed' => queue' = <<>>
    BY <1>0 DEF UsageInv, WaitingFits
  <2> QED
    BY <1>1, <2>1, <2>2, <2>3 DEF WaitingFits
<1>6. RollupFits(rollup)' /\ QueueFits(queue, emitted, arrived)'
  BY <1>0
<1>7. BatchFits(retry, queue, emitted, arrived)' /\ BatchFits(sending, queue, emitted, arrived)'
  BY <1>1, <1>3
<1>8. Usage!ArrivedInOrder'
  BY DEF Usage!ArrivedInOrder
<1>9. (\A m \in 1 .. MaxEvents : arrived[m] # 0 => m <= emitted /\ arrived[m] <= rollup.total)'
  BY <1>0
<1> QED
  BY <1>4, <1>5, <1>6, <1>7, <1>8, <1>9 DEF UsageInv

\* A send ends, whether or not the api took the batch and whatever the app learns of it
\* (sendBatch).
LEMMA SendEndsKeeps == ASSUME UsageInv, Usage!SendEnds PROVE UsageInv'
<1>1. /\ sending.attempt > 0 /\ sending' = Usage!NoBatch /\ UNCHANGED <<emitted, queue, disposed>>
      /\ Usage!Succeed \/ Usage!Fail
      /\ Usage!Received \/ UNCHANGED <<rollup, arrived, bucket>>
  BY DEF Usage!SendEnds
<1>2. CASE Usage!Received
  <2>1. /\ arrived' \in [1 .. MaxEvents -> Nat] /\ bucket' \in 0 .. BucketCapacity
        /\ RollupFits(rollup')
        /\ QueueFits(queue, emitted, arrived') /\ BatchFits(sending, queue, emitted, arrived')
        /\ \A n \in 1 .. MaxEvents : arrived'[n] # 0 => n <= emitted /\ arrived'[n] <= rollup'.total
        /\ \A m, n \in 1 .. MaxEvents :
              m < n /\ arrived'[m] # 0 /\ arrived'[n] # 0 => arrived'[m] < arrived'[n]
    BY <1>2, ReceivedFits
  <2> QED
    BY <1>1, <2>1, SentKeeps
<1>3. CASE UNCHANGED <<rollup, arrived, bucket>>
  <2>1. rollup' = rollup /\ arrived' = arrived /\ bucket' = bucket
    BY <1>3
  <2>2. /\ arrived' \in [1 .. MaxEvents -> Nat] /\ bucket' \in 0 .. BucketCapacity
        /\ RollupFits(rollup')
        /\ QueueFits(queue, emitted, arrived') /\ BatchFits(sending, queue, emitted, arrived')
        /\ \A n \in 1 .. MaxEvents : arrived'[n] # 0 => n <= emitted /\ arrived'[n] <= rollup'.total
    BY <2>1 DEF UsageInv, UsageTyped
  <2>3. \A m, n \in 1 .. MaxEvents :
              m < n /\ arrived'[m] # 0 /\ arrived'[n] # 0 => arrived'[m] < arrived'[n]
    BY <2>1 DEF UsageInv, Usage!ArrivedInOrder
  <2> QED
    BY <1>1, <2>2, <2>3, SentKeeps
<1> QED
  BY <1>1, <1>2, <1>3

\* Each step of the apps keeps the invariant.
LEMMA UsageSteps == UsageInv /\ [Next]_vars => UsageInv'
<1> SUFFICES ASSUME UsageInv, [Next]_vars PROVE UsageInv'
  OBVIOUS
<1>1. CASE Usage!TelemetryNext
  <2>1. CASE Usage!Use
    <3>1. (CHOOSE k \in Key : TRUE) \in Key
      BY UsageAssumption
    <3>2. PICK kind \in Usage!Kind, key \in Key : Usage!Emit(kind, key)
      BY <2>1, <3>1 DEF Usage!Use, Usage!Kind
    <3> QED
      BY <3>2, EmitKeeps
  <2>2. CASE Usage!TimerFires
    BY <2>2, FlushKeeps DEF Usage!TimerFires
  <2>3. CASE Usage!Background
    <3>1. timer \in BOOLEAN
      BY DEF UsageInv, UsageTyped
    <3> QED
      BY <2>3, <3>1, FlushKeeps DEF Usage!Background
  <2>4. CASE Usage!BackoffEnds
    BY <2>4, AloneKeeps DEF Usage!BackoffEnds, UsageInv, UsageTyped
  <2>5. CASE Usage!Dispose
    BY <2>5, DisposeKeeps
  <2>6. CASE Usage!SendEnds
    BY <2>6, SendEndsKeeps
  <2>7. CASE Usage!Refill
    <3>1. bucket' \in 0 .. BucketCapacity /\ backoff' \in BOOLEAN
      BY <2>7, UsageAssumption DEF Usage!Refill, UsageInv, UsageTyped
    <3> QED
      BY <2>7, <3>1, AloneKeeps DEF Usage!Refill
  <2> QED
    BY <1>1, <2>1, <2>2, <2>3, <2>4, <2>5, <2>6, <2>7 DEF Usage!TelemetryNext
<1>2. CASE UNCHANGED telemetryVars
  BY <1>2, UsageRests
<1>3. Usage!TelemetryNext \/ UNCHANGED telemetryVars
  BY DEF Next, ScreensNext, OnScreens, SessionNext, PartsNext, UsageNext, vars
<1> QED
  BY <1>1, <1>2, <1>3

\* What the invariant says of the events.
LEMMA UsageInvAddsUp == UsageInv => EventsAddUp
<1> SUFFICES ASSUME UsageInv PROVE EventsAddUp
  OBVIOUS
<1>1. Usage!TelemetryTypeOK
  BY SameUsageCount DEF UsageInv, UsageTyped, QueueFits, BatchFits, Batch, RollupFits,
                        Usage!TelemetryTypeOK
<1>2. Usage!ViewsAddUp
  BY SameUsageCount DEF UsageInv, RollupFits, Viewed, Usage!ViewsAddUp
<1> QED
  BY <1>1, <1>2 DEF UsageInv, WaitingFits, EventsAddUp

\* Usage events add up: what waits has a timer or a send under way, every event is waiting, on
\* its way, sent or counted as dropped, none overtakes an earlier one on its first arrival, and
\* the counts per content and those that found no room make up the playbacks (enqueue,
\* flushInternal, onSendFailure, ingest, record).
THEOREM UsageAddsUp == Spec => []EventsAddUp
<1>1. Init => UsageInv
  BY UsageBegins
<1>2. UsageInv /\ [Next]_vars => UsageInv'
  BY UsageSteps
<1>3. UsageInv => EventsAddUp
  BY UsageInvAddsUp
<1> QED
  BY <1>1, <1>2, <1>3, PTL DEF Spec

-------------------------------------------------------------------------------
(* An upload in parts *)

PartsTyped ==
  /\ part \in [PartsUp!Part -> {"waiting", "sending", "tagged"}]
  /\ loaded \in [PartsUp!Part -> 0 .. PartSize] /\ cursor \in 1 .. Parts + 1
  /\ worker \in [PartsUp!Worker -> 0 .. Parts + 1]
  /\ stopped \in BOOLEAN /\ signalled \in BOOLEAN
  /\ firstError \in {"none", "aborted", "transport"}
  /\ outcome \in {"running", "complete", "failed"}

\* A part is sent by the one worker that took it, and is whole again or not at all when that
\* worker is done with it.
PartsFit ==
  /\ \A p \in PartsUp!Part : p >= cursor => part[p] = "waiting"
  /\ \A p \in PartsUp!Part : p < cursor /\ part[p] = "waiting" => firstError # "none"
  /\ \A w \in PartsUp!Worker :
       worker[w] \in PartsUp!Part => worker[w] < cursor /\ part[worker[w]] = "sending"
  /\ \A p \in PartsUp!Part : part[p] = "sending" => \E w \in PartsUp!Worker : worker[w] = p
  /\ \A v, w \in PartsUp!Worker :
       v # w /\ worker[v] \in PartsUp!Part => worker[v] # worker[w]

\* A worker ends when there is nothing left to take or the pool was stopped, which an error or
\* the user did.
PoolFits ==
  /\ stopped <=> firstError # "none" \/ signalled
  /\ \A w \in PartsUp!Worker : worker[w] = Parts + 1 => stopped \/ cursor > Parts
  /\ outcome # "running" => \A w \in PartsUp!Worker : worker[w] = Parts + 1
  /\ outcome = "complete" => firstError = "none" /\ ~ signalled

PartsInv == PartsTyped /\ PartsFit /\ PoolFits

\* What the parts count together, one after the other.
Total(l) == CHOOSE f : f = [n \in 0 .. Parts |-> IF n = 0 THEN 0 ELSE f[n - 1] + l[n]]

Sums(f, l, m) ==
  /\ f = [i \in 0 .. m |-> f[i]] /\ f[0] = 0
  /\ \A i \in 1 .. m : f[i] = f[i - 1] + l[i]

LEMMA SumsExist ==
  ASSUME NEW l, NEW n \in Nat
  PROVE  \E f : Sums(f, l, n)
<1> DEFINE T == {m \in Nat : ~ \E f : Sums(f, l, m)}
<1>1. CASE T = {}
  BY <1>1
<1>2. CASE T # {}
  <2>1. PICK m \in T : \A k \in T : m <= k
    BY <1>2, Least
  <2>2. m # 0
    <3>1. Sums([i \in 0 .. 0 |-> 0], l, 0)
      BY DEF Sums
    <3> QED
      BY <2>1, <3>1
  <2>3. m \in Nat /\ m - 1 \in Nat /\ m - 1 \notin T
    BY <2>1, <2>2
  <2>4. PICK f : Sums(f, l, m - 1)
    BY <2>3
  <2> DEFINE g == [i \in 0 .. m |-> IF i < m THEN f[i] ELSE f[m - 1] + l[m]]
  <2>5. Sums(g, l, m)
    <3>1. g = [i \in 0 .. m |-> g[i]]
      OBVIOUS
    <3>2. g[0] = 0
      BY <2>3, <2>2, <2>4 DEF Sums
    <3>3. ASSUME NEW i \in 1 .. m PROVE g[i] = g[i - 1] + l[i]
      <4>0. i - 1 \in 0 .. m /\ i - 1 < m /\ g[i - 1] = f[i - 1]
        BY <2>3
      <4>1. CASE i < m
        <5>1. i \in 1 .. m - 1 /\ g[i] = f[i]
          BY <2>3, <4>1
        <5>2. f[i] = f[i - 1] + l[i]
          BY <2>4, <5>1 DEF Sums
        <5> QED
          BY <4>0, <5>1, <5>2
      <4>2. CASE i = m
        BY <4>0, <4>2, <2>3
      <4> QED
        BY <4>1, <4>2, <2>3
    <3> HIDE DEF g
    <3> QED
      BY <3>1, <3>2, <3>3 DEF Sums
  <2> QED
    BY <2>1, <2>5
<1> QED
  BY <1>1, <1>2

LEMMA TotalSums ==
  ASSUME NEW l
  PROVE  Sums(Total(l), l, Parts)
<1> DEFINE Rule(f) == [n \in 0 .. Parts |-> IF n = 0 THEN 0 ELSE f[n - 1] + l[n]]
<1>0. Parts \in Nat
  BY PartAssumption
<1>1. PICK g : Sums(g, l, Parts)
  BY <1>0, SumsExist
<1>2. g = Rule(g)
  <2>1. ASSUME NEW i \in 0 .. Parts
        PROVE  g[i] = IF i = 0 THEN 0 ELSE g[i - 1] + l[i]
    <3>1. CASE i = 0
      BY <1>1, <3>1 DEF Sums
    <3>2. CASE i # 0
      <4>1. i \in 1 .. Parts
        BY <1>0, <3>2
      <4> QED
        BY <1>1, <4>1, <3>2 DEF Sums
    <3> QED
      BY <3>1, <3>2
  <2>2. g = [i \in 0 .. Parts |-> g[i]]
    BY <1>1 DEF Sums
  <2> QED
    BY <2>1, <2>2
<1>3. Total(l) = Rule(Total(l))
  BY <1>2 DEF Total
<1> DEFINE at == Total(l)
<1> HIDE DEF at
<1>4. at = Rule(at)
  BY <1>3 DEF at
<1>5. at[0] = 0
  BY <1>0, <1>4
<1>6. ASSUME NEW i \in 1 .. Parts PROVE at[i] = at[i - 1] + l[i]
  BY <1>0, <1>4
<1>7. at = [i \in 0 .. Parts |-> at[i]]
  BY <1>4
<1>8. Sums(at, l, Parts)
  BY <1>5, <1>6, <1>7 DEF Sums
<1> QED
  BY <1>8 DEF at

\* The total follows the parts up.
LEMMA TotalsGrow ==
  ASSUME NEW l \in [PartsUp!Part -> Nat], NEW k \in [PartsUp!Part -> Nat],
         \A p \in PartsUp!Part : l[p] <= k[p]
  PROVE  Total(k)[Parts] >= Total(l)[Parts]
<1> DEFINE low == Total(l)
           high == Total(k)
           T == {i \in 0 .. Parts : ~ (low[i] \in Nat /\ high[i] \in Nat /\ low[i] <= high[i])}
<1> HIDE DEF low, high
<1>0. Parts \in Nat
  BY PartAssumption
<1>1. Sums(low, l, Parts) /\ Sums(high, k, Parts)
  BY TotalSums DEF low, high
<1>2. CASE T # {}
  <2>1. T \in SUBSET Nat
    OBVIOUS
  <2>2. PICK m \in T : \A i \in T : m <= i
    BY <1>2, <2>1, Least
  <2>3. m # 0
    <3>1. low[0] = 0 /\ high[0] = 0
      BY <1>1 DEF Sums
    <3>2. 0 \notin T
      BY <3>1
    <3> QED
      BY <2>2, <3>2
  <2>4. m \in 1 .. Parts /\ m - 1 \in 0 .. Parts /\ m - 1 \notin T
    BY <1>0, <2>2, <2>3
  <2>5. low[m] = low[m - 1] + l[m] /\ high[m] = high[m - 1] + k[m]
    BY <1>1, <2>4 DEF Sums
  <2>6. l[m] \in Nat /\ k[m] \in Nat /\ l[m] <= k[m]
    BY <2>4 DEF PartsUp!Part
  <2>7. low[m - 1] \in Nat /\ high[m - 1] \in Nat /\ low[m - 1] <= high[m - 1]
    BY <2>4
  <2>8. low[m] \in Nat /\ high[m] \in Nat /\ low[m] <= high[m]
    BY <2>5, <2>6, <2>7
  <2> QED
    BY <2>2, <2>8
<1>3. CASE T = {}
  <2>1. Parts \in 0 .. Parts
    BY <1>0
  <2>2. low[Parts] \in Nat /\ high[Parts] \in Nat /\ low[Parts] <= high[Parts]
    BY <1>3, <2>1
  <2> QED
    BY <2>2 DEF low, high
<1> QED
  BY <1>2, <1>3

LEMMA PartsBegin == PartsUp!PartInit => PartsInv
<1> SUFFICES ASSUME PartsUp!PartInit PROVE PartsInv
  OBVIOUS
<1>1. PartsTyped
  <2>1. part \in [PartsUp!Part -> {"waiting", "sending", "tagged"}]
    BY DEF PartsUp!PartInit
  <2>2. loaded \in [PartsUp!Part -> 0 .. PartSize] /\ cursor \in 1 .. Parts + 1
        /\ worker \in [PartsUp!Worker -> 0 .. Parts + 1]
    BY PartAssumption DEF PartsUp!PartInit
  <2>3. stopped = FALSE /\ signalled = FALSE /\ firstError = "none" /\ outcome = "running"
    BY DEF PartsUp!PartInit
  <2> QED
    BY <2>1, <2>2, <2>3 DEF PartsTyped
<1>2. PartsFit
  BY PartAssumption DEF PartsUp!PartInit, PartsFit, PartsUp!Part
<1>3. PoolFits
  BY PartAssumption DEF PartsUp!PartInit, PoolFits
<1> QED
  BY <1>1, <1>2, <1>3 DEF PartsInv

\* What is shown counts the parts together.
LEMMA ShownIsTotal ==
  PartsUp!Shown = Total(loaded)[Parts] /\ PartsUp!Shown' = Total(loaded')[Parts]
BY DEF PartsUp!Shown, Total

LEMMA ProgressStays ==
  ASSUME PartsInv, PartsInv', \A p \in PartsUp!Part : loaded[p] <= loaded'[p]
  PROVE  PartsUp!Shown' >= PartsUp!Shown
<1>1. loaded \in [PartsUp!Part -> Nat] /\ loaded' \in [PartsUp!Part -> Nat]
  BY PartAssumption DEF PartsInv, PartsTyped
<1>2. Total(loaded')[Parts] >= Total(loaded)[Parts]
  BY <1>1, TotalsGrow
<1> QED
  BY <1>2, ShownIsTotal

LEMMA PartsSteps ==
  ASSUME PartsInv, PartsUp!PartNext \/ UNCHANGED partVars
  PROVE  PartsInv' /\ \A p \in PartsUp!Part : loaded[p] <= loaded'[p]
<1> DEFINE Grows == \A p \in PartsUp!Part : loaded[p] <= loaded'[p]
<1>0. Parts \in Nat /\ PartSize \in Nat /\ Concurrency \in Nat \ {0}
  BY PartAssumption
<1>1. PartsTyped /\ PartsFit /\ PoolFits
  BY DEF PartsInv
<1>2. ASSUME loaded' = loaded PROVE Grows
  <2>1. \A p \in PartsUp!Part : loaded[p] \in Nat
    BY <1>0, <1>1 DEF PartsTyped
  <2> QED
    BY <1>2, <2>1
<1>3. ASSUME NEW w \in PartsUp!Worker, PartsUp!Take(w) PROVE PartsInv' /\ Grows
  <2>0. worker[w] = 0 /\ UNCHANGED <<loaded, stopped, signalled, firstError, outcome>>
    BY <1>3 DEF PartsUp!Take
  <2>1. outcome = "running"
    BY <1>0, <1>1, <2>0 DEF PoolFits
  <2>2. CASE stopped \/ cursor > Parts
    <3>1. worker' = [worker EXCEPT ![w] = Parts + 1] /\ UNCHANGED <<part, cursor>>
      BY <1>3, <2>2 DEF PartsUp!Take
    <3>2. PartsTyped'
      BY <1>0, <1>1, <2>0, <3>1 DEF PartsTyped
    <3>3. PartsFit'
      BY <1>0, <1>1, <2>0, <3>1 DEF PartsFit, PartsTyped, PartsUp!Part
    <3>4. PoolFits'
      BY <1>0, <1>1, <2>0, <2>1, <2>2, <3>1 DEF PoolFits, PartsTyped
    <3> QED
      BY <1>2, <2>0, <3>2, <3>3, <3>4 DEF PartsInv
  <2>3. CASE ~ (stopped \/ cursor > Parts)
    <3>1. /\ worker' = [worker EXCEPT ![w] = cursor] /\ part' = [part EXCEPT ![cursor] = "sending"]
          /\ cursor' = cursor + 1
      BY <1>3, <2>3 DEF PartsUp!Take
    <3>2. cursor \in PartsUp!Part /\ part[cursor] = "waiting"
      BY <1>0, <1>1, <2>3 DEF PartsTyped, PartsFit, PartsUp!Part
    <3>3. PartsTyped'
      BY <1>0, <1>1, <2>0, <3>1, <3>2 DEF PartsTyped, PartsUp!Part
    <3>4. PartsFit'
      <4>1. \A p \in PartsUp!Part : part'[p] = IF p = cursor THEN "sending" ELSE part[p]
        BY <1>1, <3>1, <3>2 DEF PartsTyped
      <4>2. \A v \in PartsUp!Worker : worker'[v] = IF v = w THEN cursor ELSE worker[v]
        BY <1>1, <3>1 DEF PartsTyped
      <4>3. \A p \in PartsUp!Part : p >= cursor' => part'[p] = "waiting"
        BY <1>0, <1>1, <3>1, <3>2, <4>1 DEF PartsFit, PartsUp!Part
      <4>4. \A p \in PartsUp!Part : p < cursor' /\ part'[p] = "waiting" => firstError' # "none"
        BY <1>0, <1>1, <2>0, <3>1, <3>2, <4>1 DEF PartsFit, PartsUp!Part
      <4>5. \A v \in PartsUp!Worker :
              worker'[v] \in PartsUp!Part => worker'[v] < cursor' /\ part'[worker'[v]] = "sending"
        BY <1>0, <1>1, <3>1, <3>2, <4>1, <4>2 DEF PartsFit, PartsUp!Part
      <4>6. \A p \in PartsUp!Part : part'[p] = "sending" => \E v \in PartsUp!Worker : worker'[v] = p
        BY <1>0, <1>1, <2>0, <3>2, <4>1, <4>2 DEF PartsFit, PartsUp!Part
      <4>7. \A u, v \in PartsUp!Worker :
              u # v /\ worker'[u] \in PartsUp!Part => worker'[u] # worker'[v]
        BY <1>0, <1>1, <3>2, <4>2 DEF PartsFit, PartsUp!Part
      <4> QED
        BY <4>3, <4>4, <4>5, <4>6, <4>7 DEF PartsFit
    <3>5. PoolFits'
      BY <1>0, <1>1, <2>0, <2>1, <2>3, <3>1, <3>2 DEF PoolFits, PartsTyped, PartsUp!Part
    <3> QED
      BY <1>2, <2>0, <3>3, <3>4, <3>5 DEF PartsInv
  <2> QED
    BY <2>2, <2>3
<1>4. ASSUME NEW w \in PartsUp!Worker, PartsUp!Progresses(w) PROVE PartsInv' /\ Grows
  <2>0. /\ worker[w] \in PartsUp!Part
        /\ UNCHANGED <<part, cursor, worker, stopped, signalled, firstError, outcome>>
    BY <1>4 DEF PartsUp!Progresses, PartsUp!Sending
  <2>1. PICK n \in 0 .. PartSize :
          loaded' = [loaded EXCEPT ![worker[w]] = PartsUp!Counted(worker[w], n)]
    BY <1>4 DEF PartsUp!Progresses
  <2>2. PICK c \in 0 .. PartSize : c = PartsUp!Counted(worker[w], n) /\ c >= loaded[worker[w]]
    BY <1>0, <1>1, <2>0 DEF PartsUp!Counted, PartsTyped
  <2>3. loaded' = [loaded EXCEPT ![worker[w]] = c]
    BY <2>1, <2>2
  <2>4. loaded' \in [PartsUp!Part -> 0 .. PartSize] /\ Grows
    BY <1>0, <1>1, <2>0, <2>2, <2>3 DEF PartsTyped
  <2> QED
    BY <1>1, <2>0, <2>4 DEF PartsInv, PartsTyped, PartsFit, PoolFits
<1>5. ASSUME NEW w \in PartsUp!Worker, PartsUp!PartTagged(w) PROVE PartsInv' /\ Grows
  <2>0. /\ worker[w] \in PartsUp!Part
        /\ part' = [part EXCEPT ![worker[w]] = "tagged"]
        /\ loaded' = [loaded EXCEPT ![worker[w]] = PartSize]
        /\ worker' = [worker EXCEPT ![w] = 0]
        /\ UNCHANGED <<cursor, stopped, signalled, firstError, outcome>>
    BY <1>5 DEF PartsUp!PartTagged, PartsUp!Sending
  <2>1. Grows
    BY <1>0, <1>1, <2>0 DEF PartsTyped
  <2>2. PartsTyped'
    BY <1>0, <1>1, <2>0 DEF PartsTyped
  <2>3. \A p \in PartsUp!Part : part'[p] = IF p = worker[w] THEN "tagged" ELSE part[p]
    BY <1>1, <2>0 DEF PartsTyped
  <2>4. \A v \in PartsUp!Worker : worker'[v] = IF v = w THEN 0 ELSE worker[v]
    BY <1>1, <2>0 DEF PartsTyped
  <2>5. outcome = "running"
    BY <1>0, <1>1, <2>0 DEF PoolFits, PartsUp!Part
  <2>6. PartsFit'
    <3>1. \A p \in PartsUp!Part : p >= cursor' => part'[p] = "waiting"
      BY <1>0, <1>1, <2>0, <2>3 DEF PartsFit, PartsTyped, PartsUp!Part
    <3>2. \A p \in PartsUp!Part : p < cursor' /\ part'[p] = "waiting" => firstError' # "none"
      BY <1>1, <2>0, <2>3 DEF PartsFit
    <3>3. \A v \in PartsUp!Worker :
            worker'[v] \in PartsUp!Part => worker'[v] < cursor' /\ part'[worker'[v]] = "sending"
      <4> SUFFICES ASSUME NEW v \in PartsUp!Worker, worker'[v] \in PartsUp!Part
                   PROVE  worker'[v] < cursor' /\ part'[worker'[v]] = "sending"
        OBVIOUS
      <4>1. v # w /\ worker'[v] = worker[v]
        BY <1>0, <2>4 DEF PartsUp!Part
      <4>2. worker[v] # worker[w] /\ worker[v] < cursor /\ part[worker[v]] = "sending"
        BY <1>1, <4>1 DEF PartsFit
      <4> QED
        BY <2>0, <2>3, <4>1, <4>2
    <3>4. \A p \in PartsUp!Part : part'[p] = "sending" => \E v \in PartsUp!Worker : worker'[v] = p
      <4> SUFFICES ASSUME NEW p \in PartsUp!Part, part'[p] = "sending"
                   PROVE  \E v \in PartsUp!Worker : worker'[v] = p
        OBVIOUS
      <4>1. p # worker[w] /\ part[p] = "sending"
        BY <2>3
      <4>2. PICK v \in PartsUp!Worker : worker[v] = p
        BY <1>1, <4>1 DEF PartsFit
      <4> QED
        BY <2>4, <4>1, <4>2
    <3>5. \A u, v \in PartsUp!Worker :
            u # v /\ worker'[u] \in PartsUp!Part => worker'[u] # worker'[v]
      <4>1. 0 \notin PartsUp!Part
        BY <1>0 DEF PartsUp!Part
      <4> QED
        BY <1>1, <2>4, <4>1 DEF PartsFit
    <3> QED
      BY <3>1, <3>2, <3>3, <3>4, <3>5 DEF PartsFit
  <2>7. PoolFits'
    BY <1>0, <1>1, <2>0, <2>4, <2>5 DEF PoolFits
  <2> QED
    BY <2>1, <2>2, <2>6, <2>7 DEF PartsInv
<1>6. ASSUME NEW w \in PartsUp!Worker, PartsUp!PartFails(w) PROVE PartsInv' /\ Grows
  <2>0. /\ worker[w] \in PartsUp!Part /\ firstError' # "none"
        /\ firstError' \in {"none", "aborted", "transport"} /\ stopped' = TRUE
        /\ part' = [part EXCEPT ![worker[w]] = "waiting"]
        /\ worker' = [worker EXCEPT ![w] = Parts + 1]
        /\ UNCHANGED <<loaded, cursor, signalled, outcome>>
    BY <1>1, <1>6 DEF PartsUp!PartFails, PartsUp!Sending, PartsUp!Reason, PartsTyped
  <2>2. PartsTyped'
    BY <1>0, <1>1, <2>0 DEF PartsTyped
  <2>3. \A p \in PartsUp!Part : part'[p] = IF p = worker[w] THEN "waiting" ELSE part[p]
    BY <1>1, <2>0 DEF PartsTyped
  <2>4. \A v \in PartsUp!Worker : worker'[v] = IF v = w THEN Parts + 1 ELSE worker[v]
    BY <1>1, <2>0 DEF PartsTyped
  <2>5. outcome = "running"
    BY <1>0, <1>1, <2>0 DEF PoolFits, PartsUp!Part
  <2>6. PartsFit'
    <3>1. \A p \in PartsUp!Part : p >= cursor' => part'[p] = "waiting"
      BY <1>1, <2>0, <2>3 DEF PartsFit
    <3>3. \A v \in PartsUp!Worker :
            worker'[v] \in PartsUp!Part => worker'[v] < cursor' /\ part'[worker'[v]] = "sending"
      <4> SUFFICES ASSUME NEW v \in PartsUp!Worker, worker'[v] \in PartsUp!Part
                   PROVE  worker'[v] < cursor' /\ part'[worker'[v]] = "sending"
        OBVIOUS
      <4>1. v # w /\ worker'[v] = worker[v]
        BY <1>0, <2>4 DEF PartsUp!Part
      <4>2. worker[v] # worker[w] /\ worker[v] < cursor /\ part[worker[v]] = "sending"
        BY <1>1, <4>1 DEF PartsFit
      <4> QED
        BY <2>0, <2>3, <4>1, <4>2
    <3>4. \A p \in PartsUp!Part : part'[p] = "sending" => \E v \in PartsUp!Worker : worker'[v] = p
      <4> SUFFICES ASSUME NEW p \in PartsUp!Part, part'[p] = "sending"
                   PROVE  \E v \in PartsUp!Worker : worker'[v] = p
        OBVIOUS
      <4>1. p # worker[w] /\ part[p] = "sending"
        BY <2>3
      <4>2. PICK v \in PartsUp!Worker : worker[v] = p
        BY <1>1, <4>1 DEF PartsFit
      <4> QED
        BY <2>4, <4>1, <4>2
    <3>5. \A u, v \in PartsUp!Worker :
            u # v /\ worker'[u] \in PartsUp!Part => worker'[u] # worker'[v]
      <4>1. Parts + 1 \notin PartsUp!Part
        BY <1>0 DEF PartsUp!Part
      <4> QED
        BY <1>1, <2>4, <4>1 DEF PartsFit
    <3> QED
      BY <2>0, <3>1, <3>3, <3>4, <3>5 DEF PartsFit
  <2>7. PoolFits'
    BY <1>0, <1>1, <2>0, <2>4, <2>5 DEF PoolFits
  <2> QED
    BY <1>2, <2>0, <2>2, <2>6, <2>7 DEF PartsInv
<1>7. CASE PartsUp!Abort
  <2>0. /\ outcome = "running" /\ signalled' = TRUE /\ stopped' = TRUE
        /\ UNCHANGED <<part, loaded, cursor, worker, firstError, outcome>>
    BY <1>7 DEF PartsUp!Abort
  <2>1. PartsTyped' /\ PartsFit'
    BY <1>1, <2>0 DEF PartsTyped, PartsFit
  <2>2. PoolFits'
    BY <1>1, <2>0 DEF PoolFits
  <2> QED
    BY <1>2, <2>0, <2>1, <2>2 DEF PartsInv
<1>8. CASE PartsUp!PoolEnds
  <2>0. /\ \A w \in PartsUp!Worker : worker[w] = Parts + 1
        /\ outcome' \in {"complete", "failed"}
        /\ outcome' = "complete" => firstError = "none" /\ ~ signalled
        /\ UNCHANGED <<part, loaded, cursor, worker, stopped, signalled, firstError>>
    BY <1>8 DEF PartsUp!PoolEnds
  <2>1. PartsTyped' /\ PartsFit'
    BY <1>1, <2>0 DEF PartsTyped, PartsFit
  <2>2. PoolFits'
    BY <1>1, <2>0 DEF PoolFits
  <2> QED
    BY <1>2, <2>0, <2>1, <2>2 DEF PartsInv
<1>9. CASE UNCHANGED partVars
  <2>1. UNCHANGED <<part, loaded, cursor, worker, stopped, signalled, firstError, outcome>>
    BY <1>9 DEF partVars
  <2> QED
    BY <1>1, <1>2, <2>1 DEF PartsInv, PartsTyped, PartsFit, PoolFits
<1> QED
  BY <1>3, <1>4, <1>5, <1>6, <1>7, <1>8, <1>9 DEF PartsUp!PartNext, PartsUp!Pool

\* What the invariant says of the upload.
LEMMA PartsHold ==
  ASSUME PartsInv
  PROVE  PartsUp!PartTypeOK /\ PartsUp!CompleteIsWhole /\ PartsUp!GivenUpIsQuiet
<1>0. Parts \in Nat /\ 1 \in PartsUp!Worker
  BY PartAssumption DEF PartsUp!Worker
<1>1. PartsUp!PartTypeOK
  BY DEF PartsInv, PartsTyped, PartsUp!PartTypeOK
<1>2. ASSUME outcome # "running", NEW p \in PartsUp!Part PROVE part[p] # "sending"
  <2>1. \A w \in PartsUp!Worker : worker[w] # p
    BY <1>0, <1>2 DEF PartsInv, PoolFits, PartsUp!Part
  <2> QED
    BY <2>1 DEF PartsInv, PartsFit
<1>3. ASSUME outcome = "complete", NEW p \in PartsUp!Part PROVE part[p] = "tagged"
  <2>1. worker[1] = Parts + 1 /\ firstError = "none" /\ ~ stopped
    BY <1>0, <1>3 DEF PartsInv, PoolFits
  <2>2. cursor > Parts
    BY <1>0, <2>1 DEF PartsInv, PoolFits
  <2>3. p < cursor
    BY <1>0, <2>2 DEF PartsInv, PartsTyped, PartsUp!Part
  <2>4. part[p] # "waiting"
    BY <2>1, <2>3 DEF PartsInv, PartsFit
  <2> QED
    BY <1>2, <1>3, <2>4 DEF PartsInv, PartsTyped
<1> QED
  BY <1>1, <1>2, <1>3 DEF PartsUp!CompleteIsWhole, PartsUp!GivenUpIsQuiet

\* The other apps do not touch the upload.
LEMMA UploadStep ==
  ASSUME Next \/ UNCHANGED vars
  PROVE  PartsUp!PartNext \/ UNCHANGED partVars
BY DEF Next, ScreensNext, OnScreens, SessionNext, PartsNext, UsageNext, vars

\* PartsBecomeOne: an upload that completes has the tag of every part, one that is given up
\* has no part under way, in whatever order the workers end and fail, and the progress shown
\* never falls (uploadMultipart).
THEOREM PartsAreOne == Spec => PartsBecomeOne
<1> DEFINE Rises == PartsUp!Shown' >= PartsUp!Shown
           Whole == focus = "parts" =>
                      PartsUp!PartTypeOK /\ PartsUp!CompleteIsWhole /\ PartsUp!GivenUpIsQuiet
<1>1. Init => PartsInv
  BY PartsBegin DEF Init
<1>2. PartsInv /\ [Next]_vars => PartsInv'
  BY UploadStep, PartsSteps
<1>3. PartsInv /\ PartsInv' /\ [Next]_vars => [Rises]_(PartsUp!partVars)
  <2> SUFFICES ASSUME PartsInv, PartsInv', [Next]_vars PROVE Rises
    OBVIOUS
  <2> QED
    BY UploadStep, PartsSteps, ProgressStays
<1>4. PartsInv => Whole
  BY PartsHold
<1> QED
  BY <1>1, <1>2, <1>3, <1>4, PTL DEF Spec, PartsBecomeOne, PartsUp!ProgressNeverFalls

-------------------------------------------------------------------------------
(* What the screens offer, and what the api accepts *)

LEMMA ScreenMap ==
  /\ Screens!Status =
       {"draft", "uploading", "upload_failed", "uploaded", "processing", "processing_failed",
        "analyzing", "analysis_failed", "preview_generating", "preview_failed",
        "awaiting_reporter_review", "revision_requested", "regenerating",
        "regeneration_failed", "reporter_approved", "awaiting_center_review",
        "center_approved", "publishing", "publish_failed", "published", "rejected",
        "canceled", "archived"}
  /\ Screens!FailureStatus =
       {"upload_failed", "processing_failed", "analysis_failed", "preview_failed",
        "regeneration_failed", "publish_failed"}
  /\ Screens!CONTENT_RETRY_TARGET["upload_failed"] = "uploading"
  /\ Screens!CONTENT_RETRY_TARGET["processing_failed"] = "processing"
  /\ Screens!CONTENT_RETRY_TARGET["analysis_failed"] = "analyzing"
  /\ Screens!CONTENT_RETRY_TARGET["preview_failed"] = "preview_generating"
  /\ Screens!CONTENT_RETRY_TARGET["regeneration_failed"] = "regenerating"
  /\ Screens!CONTENT_RETRY_TARGET["publish_failed"] = "publishing"
BY DEF Screens!Status, Screens!CONTENT_STATUS_TRANSITIONS, Screens!FailureStatus,
       Screens!CONTENT_RETRY_TARGET

LEMMA ScreenEdges ==
  /\ Screens!CONTENT_STATUS_TRANSITIONS["draft"] = {"uploading", "canceled"}
  /\ Screens!CONTENT_STATUS_TRANSITIONS["uploading"] = {"uploaded", "upload_failed"}
  /\ Screens!CONTENT_STATUS_TRANSITIONS["upload_failed"] = {"uploading", "canceled"}
  /\ Screens!CONTENT_STATUS_TRANSITIONS["uploaded"] = {"processing", "canceled"}
  /\ Screens!CONTENT_STATUS_TRANSITIONS["processing"] =
       {"analyzing", "preview_generating", "processing_failed", "canceled"}
  /\ Screens!CONTENT_STATUS_TRANSITIONS["processing_failed"] = {"processing", "canceled"}
  /\ Screens!CONTENT_STATUS_TRANSITIONS["analyzing"] =
       {"preview_generating", "analysis_failed", "canceled"}
  /\ Screens!CONTENT_STATUS_TRANSITIONS["analysis_failed"] =
       {"analyzing", "preview_generating", "canceled"}
  /\ Screens!CONTENT_STATUS_TRANSITIONS["preview_generating"] =
       {"awaiting_reporter_review", "awaiting_center_review", "preview_failed"}
  /\ Screens!CONTENT_STATUS_TRANSITIONS["preview_failed"] = {"preview_generating", "canceled"}
  /\ Screens!CONTENT_STATUS_TRANSITIONS["awaiting_reporter_review"] =
       {"reporter_approved", "revision_requested", "rejected", "canceled"}
  /\ Screens!CONTENT_STATUS_TRANSITIONS["revision_requested"] = {"regenerating", "canceled"}
  /\ Screens!CONTENT_STATUS_TRANSITIONS["regenerating"] =
       {"analyzing", "preview_generating", "regeneration_failed"}
  /\ Screens!CONTENT_STATUS_TRANSITIONS["regeneration_failed"] = {"regenerating", "canceled"}
  /\ Screens!CONTENT_STATUS_TRANSITIONS["reporter_approved"] =
       {"awaiting_center_review", "publishing"}
  /\ Screens!CONTENT_STATUS_TRANSITIONS["awaiting_center_review"] =
       {"center_approved", "revision_requested", "rejected"}
  /\ Screens!CONTENT_STATUS_TRANSITIONS["center_approved"] = {"publishing"}
  /\ Screens!CONTENT_STATUS_TRANSITIONS["publishing"] = {"published", "publish_failed"}
  /\ Screens!CONTENT_STATUS_TRANSITIONS["publish_failed"] = {"publishing", "canceled"}
  /\ Screens!CONTENT_STATUS_TRANSITIONS["published"] = {"archived"}
  /\ Screens!CONTENT_STATUS_TRANSITIONS["rejected"] = {}
  /\ Screens!CONTENT_STATUS_TRANSITIONS["canceled"] = {}
  /\ Screens!CONTENT_STATUS_TRANSITIONS["archived"] = {}
BY DEF Screens!CONTENT_STATUS_TRANSITIONS

\* An edge leads to a status, and the statuses that move by themselves are these.
LEMMA EdgesLead ==
  ASSUME NEW s \in Screens!Status
  PROVE  Screens!CONTENT_STATUS_TRANSITIONS[s] \subseteq Screens!Status
BY ScreenMap, ScreenEdges

LEMMA AutoIs ==
  Screens!AutoProgress =
    {"uploading", "uploaded", "processing", "analyzing", "preview_generating",
     "reporter_approved", "regenerating", "publishing"}
<1>1. Screens!AutoProgress \subseteq Screens!SystemDriven
  BY DEF Screens!AutoProgress
<1>2. ASSUME NEW s \in Screens!SystemDriven PROVE s \in Screens!AutoProgress
  <2>1. \E to \in Screens!CONTENT_STATUS_TRANSITIONS[s] :
          s \notin {"analysis_failed", "published"}
    BY ScreenEdges DEF Screens!SystemDriven
  <2> QED
    BY <1>2, <2>1 DEF Screens!AutoProgress, Screens!Unimplemented
<1> QED
  BY <1>1, <1>2 DEF Screens!SystemDriven

ScreenOp ==
  {"approve", "requestRevision", "reject", "retry", "distribute", "regenerate", "recover",
   "archive", "cancel", "startUpload"}

\* What an operation leads to is a status.
LEMMA TargetsAre ==
  ASSUME NEW op \in ScreenOp, NEW s \in Screens!Status
  PROVE  Screens!Targets(op, s) \subseteq Screens!Status
<1>1. \A p : Screens!AfterReporterApproval(p) \in Screens!Status
  BY ScreenMap DEF Screens!AfterReporterApproval
<1>2. s \in Screens!FailureStatus => Screens!CONTENT_RETRY_TARGET[s] \in Screens!Status
  BY ScreenMap
<1>3. CASE op = "approve"
  BY <1>1, <1>3, ScreenMap DEF Screens!Targets
<1>4. CASE op = "retry"
  BY <1>2, <1>4, ScreenMap DEF Screens!Targets
<1>5. CASE op \in {"distribute", "requestRevision", "reject", "regenerate"}
  BY <1>5, ScreenMap DEF Screens!Targets
<1>6. CASE op \in {"recover", "archive", "cancel", "startUpload"}
  BY <1>6, ScreenMap DEF Screens!Targets
<1> QED
  BY <1>3, <1>4, <1>5, <1>6 DEF ScreenOp

\* What is offered where: the tables of the two apps, read by operation.
LEMMA OffersAre ==
  ASSUME NEW who \in Screens!Role, NEW s \in Screens!Status, NEW op \in Screens!Offered(who, s)
  PROVE  /\ op \in ScreenOp
         /\ op \in Screens!Decision =>
              s = IF who = "center" THEN "awaiting_center_review" ELSE "awaiting_reporter_review"
         /\ op = "retry" => s \in Screens!FailureStatus /\ (who = "center" \/ s = "upload_failed")
         /\ op = "distribute" => s = "center_approved" /\ who = "center"
         /\ op = "regenerate" => "regenerating" \in Screens!CONTENT_STATUS_TRANSITIONS[s]
         /\ op = "recover" => s = "uploading"
         /\ op = "startUpload" => s = "draft"
         /\ op = "archive" => "archived" \in Screens!CONTENT_STATUS_TRANSITIONS[s] /\ who = "center"
         /\ op = "cancel" => "canceled" \in Screens!CONTENT_STATUS_TRANSITIONS[s]
<1>1. \A to \in Screens!ManualTargets(s) : to \in Screens!CONTENT_STATUS_TRANSITIONS[s]
  BY DEF Screens!ManualTargets
<1>2. CASE who = "center"
  <2>1. op \in Screens!CenterActions(s)
    BY <1>2 DEF Screens!Offered
  <2> QED
    BY <1>1, <1>2, <2>1, ScreenMap, ScreenEdges
       DEF Screens!CenterActions, ScreenOp, Screens!Decision
<1>3. CASE who # "center"
  <2>1. op \in Screens!ReporterActions(s)
    BY <1>3 DEF Screens!Offered
  <2> QED
    BY <1>3, <2>1, ScreenMap
       DEF Screens!ReporterActions, ScreenOp, Screens!Decision, Screens!CanTransitionContent
<1> QED
  BY <1>2, <1>3

\* OfferedIsAccepted, of any status.
LEMMA OfferIsAccepted ==
  ASSUME NEW who \in Screens!Role, NEW s \in Screens!Status, NEW op \in Screens!Offered(who, s)
  PROVE  Screens!Accepts(who, op, s)
<1>1. who \in {"owner", "center"}
  BY DEF Screens!Role
<1>2. CASE op \in Screens!Decision
  <2>1. s = IF who = "center" THEN "awaiting_center_review" ELSE "awaiting_reporter_review"
    BY <1>2, OffersAre
  <2>2. who = Screens!Reviewer(s)
    BY <1>1, <2>1 DEF Screens!Reviewer
  <2>3. CASE op = "approve"
    <3>1. Screens!Targets(op, s) # {}
      BY <2>3 DEF Screens!Targets, Screens!ReviewPolicies
    <3> QED
      BY <2>1, <2>2, <2>3, <3>1 DEF Screens!Accepts
  <2>4. CASE op = "requestRevision"
    <3>1. Screens!Targets(op, s) = {"revision_requested"}
      BY <2>4 DEF Screens!Targets
    <3>2. "revision_requested" \in Screens!CONTENT_STATUS_TRANSITIONS[s]
      BY <2>1, ScreenEdges
    <3> QED
      BY <2>2, <2>4, <3>1, <3>2 DEF Screens!Accepts, Screens!CanTransitionContent
  <2>5. CASE op = "reject"
    <3>1. Screens!Targets(op, s) = {"rejected"}
      BY <2>5 DEF Screens!Targets
    <3>2. "rejected" \in Screens!CONTENT_STATUS_TRANSITIONS[s]
      BY <2>1, ScreenEdges
    <3> QED
      BY <2>2, <2>5, <3>1, <3>2 DEF Screens!Accepts, Screens!CanTransitionContent
  <2> QED
    BY <1>2, <2>3, <2>4, <2>5 DEF Screens!Decision
<1>3. CASE op = "retry"
  <2>1. s \in Screens!FailureStatus /\ (who = "center" \/ s = "upload_failed")
    BY <1>3, OffersAre
  <2>2. Screens!Targets(op, s) = {Screens!CONTENT_RETRY_TARGET[s]}
    BY <1>3, <2>1 DEF Screens!Targets
  <2>3. Screens!CONTENT_RETRY_TARGET[s] \in Screens!CONTENT_STATUS_TRANSITIONS[s]
    BY <2>1, ScreenMap, ScreenEdges
  <2> QED
    BY <1>3, <2>1, <2>2, <2>3 DEF Screens!Accepts, Screens!CanTransitionContent
<1>4. CASE op = "distribute"
  <2>1. s = "center_approved" /\ who = "center"
    BY <1>4, OffersAre
  <2>2. Screens!Targets(op, s) = {"publishing"}
    BY <1>4, <2>1 DEF Screens!Targets
  <2> QED
    BY <1>4, <2>1, <2>2, ScreenEdges DEF Screens!Accepts, Screens!CanTransitionContent
<1>5. CASE op \in {"regenerate", "cancel", "archive"}
  <2>1. /\ op = "regenerate" => Screens!Targets(op, s) = {"regenerating"}
        /\ op = "cancel" => Screens!Targets(op, s) = {"canceled"}
        /\ op = "archive" => Screens!Targets(op, s) = {"archived"} /\ who = "center"
    BY OffersAre DEF Screens!Targets
  <2>2. /\ Screens!Targets(op, s) # {}
        /\ \A to \in Screens!Targets(op, s) : to \in Screens!CONTENT_STATUS_TRANSITIONS[s]
    BY <1>5, <2>1, OffersAre
  <2> QED
    BY <1>5, <2>1, <2>2 DEF Screens!Accepts, Screens!CanTransitionContent
<1>6. CASE op \in {"recover", "startUpload"}
  <2>1. /\ op = "recover" => s = "uploading" /\ Screens!Targets(op, s) = {"upload_failed"}
        /\ op = "startUpload" => s = "draft" /\ Screens!Targets(op, s) = {"uploading"}
    BY OffersAre DEF Screens!Targets
  <2>2. /\ Screens!Targets(op, s) # {}
        /\ \A to \in Screens!Targets(op, s) : to \in Screens!CONTENT_STATUS_TRANSITIONS[s]
    BY <1>6, <2>1, ScreenEdges
  <2> QED
    BY <1>6, <2>1, <2>2 DEF Screens!Accepts, Screens!CanTransitionContent
<1> QED
  BY <1>2, <1>3, <1>4, <1>5, <1>6, OffersAre DEF ScreenOp, Screens!Decision

\* NobodyIsStuck, of any status.
LEMMA EveryStatusGoesOn ==
  ASSUME NEW s \in Screens!Status
  PROVE  \/ s \in Screens!TerminalStatus \union Screens!AutoProgress
         \/ \E who \in Screens!Role : Screens!Offered(who, s) # {}
<1>1. CASE s \in {"rejected", "canceled", "archived"}
  BY <1>1, ScreenEdges DEF Screens!TerminalStatus
<1>2. CASE s \in {"draft", "upload_failed", "processing_failed", "analysis_failed",
                  "preview_failed", "awaiting_reporter_review", "revision_requested",
                  "regeneration_failed", "publish_failed"}
  <2>1. "canceled" \in Screens!CONTENT_STATUS_TRANSITIONS[s]
    BY <1>2, ScreenEdges
  <2>2. "cancel" \in Screens!Offered("owner", s)
    BY <2>1 DEF Screens!Offered, Screens!ReporterActions, Screens!CanTransitionContent
  <2> QED
    BY <2>2 DEF Screens!Role
<1>3. CASE s \in {"awaiting_center_review", "center_approved"}
  <2>1. "approve" \in Screens!Offered("center", s) \/ "distribute" \in Screens!Offered("center", s)
    BY <1>3 DEF Screens!Offered, Screens!CenterActions
  <2> QED
    BY <2>1 DEF Screens!Role
<1>4. CASE s = "published"
  <2>1. ~Screens!Dedicated(s) /\ s \notin Screens!AutoProgress
    BY <1>4, AutoIs, ScreenMap DEF Screens!Dedicated
  <2>2. Screens!CONTENT_STATUS_TRANSITIONS[s] \cap Screens!AutoProgress = {}
    BY <1>4, AutoIs, ScreenEdges
  <2>3. "archived" \in Screens!ManualTargets(s)
    BY <1>4, <2>1, <2>2, ScreenEdges DEF Screens!ManualTargets
  <2>4. "archive" \in Screens!Offered("center", s)
    BY <2>3 DEF Screens!Offered, Screens!CenterActions
  <2> QED
    BY <2>4 DEF Screens!Role
<1> QED
  BY <1>1, <1>2, <1>3, <1>4, AutoIs, ScreenMap

-------------------------------------------------------------------------------
(* A screen, its copy and its commands *)

ScreenDialog == [op : ScreenOp, looked : 1 .. MaxGeneration]
ScreenCommand ==
  [op : ScreenOp, looked : 1 .. MaxGeneration,
   answer : Screens!Row \union {Screens!NoRefresh, Screens!Refused}]

ScreenTyped ==
  /\ Screens!ScreenTypeOK /\ role \in Screens!Role
  /\ dialog \in ScreenDialog \union {Screens!None}
  /\ command \in ScreenCommand \union {Screens!None}
  /\ dialog # Screens!None /\ dialog.op \notin Screens!Sheet => command = Screens!None

\* A copy is the row, or the row has moved on by itself.
IsCurrent(x) == x.status \notin Screens!AutoProgress => row = x
\* No command of this screen has been carried out whose answer is still to come.
Unanswered == command = Screens!None \/ command.answer \in {Screens!NoRefresh, Screens!Refused}

\* Unless somebody else came in between, the copy is current or an answer will make it so.
CopyFits ==
  ~overtaken =>
    /\ Unanswered => IsCurrent(shown) /\ (refresh \in Screens!Row => IsCurrent(refresh))
    /\ command # Screens!None /\ command.answer \in Screens!Row => IsCurrent(command.answer)

\* ... and a decision, from its confirmation on, is about the row as it is.
IsLookedAt(d) == row.status \notin Screens!AutoProgress /\ d.looked = row.generation
DecisionFits ==
  ~overtaken =>
    /\ dialog # Screens!None /\ dialog.op \in Screens!Decision
         /\ (command = Screens!None \/ command.answer = Screens!NoRefresh)
         => IsLookedAt(dialog)
    /\ command # Screens!None /\ command.op \in Screens!Decision
         /\ command.answer = Screens!NoRefresh
         => IsLookedAt(command)

ScreenInv == ScreenTyped /\ CopyFits /\ DecisionFits

\* The markers are no rows, and no records of the others' kind.
LEMMA MarkersAre ==
  /\ Screens!NoRefresh \notin Screens!Row /\ Screens!Asked \notin Screens!Row
  /\ Screens!Refused \notin Screens!Row /\ Screens!NoRefresh # Screens!Asked
  /\ Screens!Refused # Screens!NoRefresh
  /\ \A d \in ScreenDialog : d # Screens!None
  /\ \A c \in ScreenCommand : c # Screens!None
<1>1. /\ Screens!NoRefresh.generation = 0 /\ Screens!Asked.generation = 0
      /\ Screens!Refused.generation = 0 /\ Screens!NoRefresh.status = "none"
      /\ Screens!Asked.status = "asked" /\ Screens!Refused.status = "conflict"
  BY DEF Screens!NoRefresh, Screens!Asked, Screens!Refused
<1>2. \A r \in Screens!Row : r.generation # 0
  BY ScreenAssumption DEF Screens!Row
<1>3. Screens!None.op = "none" /\ "none" \notin ScreenOp
  BY DEF Screens!None, ScreenOp
<1>4. (\A d \in ScreenDialog : d.op \in ScreenOp) /\ (\A c \in ScreenCommand : c.op \in ScreenOp)
  BY DEF ScreenDialog, ScreenCommand
<1> QED
  BY <1>1, <1>2, <1>3, <1>4

LEMMA ScreenBegins == ASSUME Screens!ScreenInit PROVE ScreenInv
<1>1. /\ row = [status |-> "draft", generation |-> 1] /\ row \in Screens!Row /\ shown = row
      /\ refresh = Screens!NoRefresh /\ dialog = Screens!None /\ command = Screens!None
      /\ lost \in 0 .. MaxLost /\ role \in Screens!Role
  BY ScreenAssumption, ScreenMap DEF Screens!ScreenInit, Screens!Row
<1>2. ScreenTyped
  BY <1>1 DEF ScreenTyped, Screens!ScreenTypeOK
<1> QED
  BY <1>1, <1>2, MarkersAre DEF ScreenInv, CopyFits, DecisionFits, IsCurrent

LEMMA MovesToRow ==
  ASSUME row \in Screens!Row, NEW to \in Screens!Status, Screens!Moved(to)
  PROVE  row' \in Screens!Row
<1>1. PICK s \in Screens!Status, g \in 1 .. MaxGeneration :
        row.status = s /\ row.generation = g
  BY DEF Screens!Row
<1>2. CASE to = "regenerating"
  <2>1. g < MaxGeneration /\ row' = [status |-> to, generation |-> g + 1]
    BY <1>1, <1>2 DEF Screens!Moved
  <2>2. g + 1 \in 1 .. MaxGeneration
    BY <1>1, <2>1, ScreenAssumption
  <2> QED
    BY <2>1, <2>2 DEF Screens!Row
<1>3. CASE to # "regenerating"
  BY <1>1, <1>3 DEF Screens!Moved, Screens!Row
<1> QED
  BY <1>2, <1>3

\* The system moves the content, or somebody else does.
LEMMA ContentMoves == ASSUME ScreenInv, Screens!SystemMoves \/ Screens!OthersMove PROVE ScreenInv'
<1>1. /\ UNCHANGED <<role, shown, refresh, dialog, command, lost>>
      /\ row \in Screens!Row /\ row.status \in Screens!Status
  BY DEF Screens!SystemMoves, Screens!OthersMove, ScreenInv, ScreenTyped, Screens!ScreenTypeOK,
         Screens!Row
<1>2. row' \in Screens!Row
  <2>1. CASE Screens!SystemMoves
    <3>1. PICK to \in Screens!CONTENT_STATUS_TRANSITIONS[row.status] : Screens!Moved(to)
      BY <2>1 DEF Screens!SystemMoves
    <3> QED
      BY <1>1, <3>1, EdgesLead, MovesToRow
  <2>2. CASE Screens!OthersMove
    <3>1. PICK who \in Screens!Role : \E op \in Screens!Offered(who, row.status) :
            \E to \in Screens!Targets(op, row.status) : Screens!Moved(to)
      BY <2>2 DEF Screens!OthersMove
    <3>3. PICK op \in Screens!Offered(who, row.status) :
            \E to \in Screens!Targets(op, row.status) : Screens!Moved(to)
      BY <3>1
    <3>2. op \in ScreenOp
      BY <1>1, OffersAre
    <3> QED
      BY <1>1, <3>3, <3>2, TargetsAre, MovesToRow
  <2> QED
    BY <2>1, <2>2
<1>3. ScreenTyped'
  BY <1>1, <1>2 DEF ScreenInv, ScreenTyped, Screens!ScreenTypeOK
<1>4. ~overtaken' => Screens!SystemMoves /\ ~overtaken /\ row.status \in Screens!AutoProgress
  BY DEF Screens!SystemMoves, Screens!OthersMove
<1>5. CopyFits'
  BY <1>1, <1>4 DEF ScreenInv, CopyFits, IsCurrent, Unanswered
<1>6. DecisionFits'
  BY <1>1, <1>4 DEF ScreenInv, DecisionFits, IsLookedAt
<1> QED
  BY <1>3, <1>5, <1>6 DEF ScreenInv

LEMMA ScreenAsks ==
  ASSUME ScreenInv, Screens!Poll \/ Screens!Revisit \/ Screens!Read
  PROVE  ScreenInv'
<1>1. /\ UNCHANGED <<role, row, shown, dialog, command, overtaken, lost>>
      /\ refresh' \in {Screens!Asked, row}
  BY DEF Screens!Poll, Screens!Revisit, Screens!Read, Screens!Asks
<1>2. ScreenTyped'
  BY <1>1 DEF ScreenInv, ScreenTyped, Screens!ScreenTypeOK
<1>3. refresh' \in Screens!Row => refresh' = row
  BY <1>1, MarkersAre
<1>4. CopyFits' /\ DecisionFits'
  BY <1>1, <1>3
     DEF ScreenInv, CopyFits, DecisionFits, IsCurrent, Unanswered, IsLookedAt
<1> QED
  BY <1>2, <1>4 DEF ScreenInv

LEMMA CopyArrives == ASSUME ScreenInv, Screens!Deliver PROVE ScreenInv'
<1>1. /\ UNCHANGED <<role, row, dialog, command, lost>> /\ shown' = refresh
      /\ refresh' = Screens!NoRefresh /\ refresh \in Screens!Row
      /\ overtaken' = (overtaken /\ ~(/\ dialog = Screens!None /\ command = Screens!None
                                       /\ refresh = row))
  BY DEF Screens!Deliver, ScreenInv, ScreenTyped, Screens!ScreenTypeOK
<1>2. ScreenTyped'
  BY <1>1 DEF ScreenInv, ScreenTyped, Screens!ScreenTypeOK
<1>3. CASE overtaken /\ ~overtaken'
  <2>1. dialog = Screens!None /\ command = Screens!None /\ shown' = row
    BY <1>1, <1>3
  <2>2. CopyFits' /\ DecisionFits'
    BY <1>1, <2>1, MarkersAre DEF CopyFits, DecisionFits, IsCurrent
  <2> QED
    BY <1>2, <2>2 DEF ScreenInv
<1>4. CASE ~(overtaken /\ ~overtaken')
  <2>1. ~overtaken' => ~overtaken
    BY <1>4
  <2>2. CopyFits' /\ DecisionFits'
    BY <1>1, <2>1, MarkersAre
       DEF ScreenInv, CopyFits, DecisionFits, IsCurrent, Unanswered, IsLookedAt
  <2> QED
    BY <1>2, <2>2 DEF ScreenInv
<1> QED
  BY <1>3, <1>4

\* The confirmation of a decision opens on a status that does not move by itself.
LEMMA DialogOpens ==
  ASSUME ScreenInv, Screens!CenterAsks \/ Screens!OwnerReviews \/ Screens!OwnerAsks
  PROVE  ScreenInv'
<1>1. /\ UNCHANGED <<role, row, shown, refresh, command, overtaken, lost>>
      /\ command = Screens!None /\ shown \in Screens!Row /\ shown.status \in Screens!Status
      /\ shown.generation \in 1 .. MaxGeneration /\ role \in Screens!Role
  BY DEF Screens!CenterAsks, Screens!OwnerReviews, Screens!OwnerAsks, Screens!Ask, ScreenInv,
         ScreenTyped, Screens!ScreenTypeOK, Screens!Row
<1>2. PICK op \in Screens!Offered(role, shown.status) :
        dialog' = [op |-> op, looked |-> IF op \in Screens!Decision THEN shown.generation ELSE 1]
  BY DEF Screens!CenterAsks, Screens!OwnerReviews, Screens!OwnerAsks, Screens!Ask,
         Screens!Offered
<1>3. /\ op \in ScreenOp
      /\ op \in Screens!Decision => shown.status \in {"awaiting_center_review", "awaiting_reporter_review"}
  BY <1>1, OffersAre
<1>4. PICK g \in 1 .. MaxGeneration : g = IF op \in Screens!Decision THEN shown.generation ELSE 1
  BY <1>1, ScreenAssumption
<1>5. dialog' = [op |-> op, looked |-> g]
  BY <1>2, <1>4
<1>6. dialog' \in ScreenDialog /\ dialog'.op = op /\ dialog'.looked = g
  BY <1>3, <1>5 DEF ScreenDialog
<1>7. ScreenTyped'
  BY <1>1, <1>6 DEF ScreenInv, ScreenTyped, Screens!ScreenTypeOK
<1>8. CopyFits'
  BY <1>1 DEF ScreenInv, CopyFits, IsCurrent, Unanswered
<1>9. DecisionFits'
  <2>1. ASSUME ~overtaken, op \in Screens!Decision
        PROVE  row.status \notin Screens!AutoProgress /\ g = row.generation
    <3>1. shown.status \notin Screens!AutoProgress /\ g = shown.generation
      BY <1>3, <1>4, <2>1, AutoIs
    <3> QED
      BY <1>1, <2>1, <3>1 DEF ScreenInv, CopyFits, Unanswered, IsCurrent
  <2> QED
    BY <1>1, <1>6, <2>1 DEF DecisionFits, IsLookedAt
<1> QED
  BY <1>7, <1>8, <1>9 DEF ScreenInv

LEMMA CommandIsSent ==
  ASSUME ScreenInv, Screens!CenterConfirms \/ Screens!CenterSubmits
                    \/ Screens!OwnerConfirms \/ Screens!OwnerSubmits
  PROVE  ScreenInv'
<1>1. /\ UNCHANGED <<role, row, shown, refresh, overtaken, lost>>
      /\ dialog # Screens!None /\ dialog' \in {dialog, Screens!None}
      /\ command' \in {command, Screens!None, Screens!Sent}
      /\ command = Screens!None
      /\ dialog' = dialog => dialog.op \in Screens!Sheet
  BY DEF Screens!CenterConfirms, Screens!CenterSubmits, Screens!OwnerConfirms,
         Screens!OwnerSubmits, Screens!Confirm, Screens!Submit, ScreenInv, ScreenTyped
<1>2. dialog \in ScreenDialog /\ dialog.op \in ScreenOp /\ dialog.looked \in 1 .. MaxGeneration
  BY <1>1 DEF ScreenInv, ScreenTyped, ScreenDialog
<1>3. /\ Screens!Sent \in ScreenCommand /\ Screens!Sent.op = dialog.op
      /\ Screens!Sent.looked = dialog.looked /\ Screens!Sent.answer = Screens!NoRefresh
  BY <1>2 DEF Screens!Sent, ScreenCommand
<1>4. ScreenTyped'
  BY <1>1, <1>2, <1>3 DEF ScreenInv, ScreenTyped, Screens!ScreenTypeOK
<1>5. CASE command' = Screens!None
  BY <1>1, <1>4, <1>5
     DEF ScreenInv, CopyFits, DecisionFits, IsCurrent, Unanswered, IsLookedAt
<1>6. CASE command' = Screens!Sent
  <2>1. CopyFits'
    BY <1>1, <1>3, <1>6, MarkersAre DEF ScreenInv, CopyFits, IsCurrent, Unanswered
  <2>2. DecisionFits'
    BY <1>1, <1>3, <1>6 DEF ScreenInv, DecisionFits, IsLookedAt
  <2> QED
    BY <1>4, <2>1, <2>2 DEF ScreenInv
<1> QED
  BY <1>1, <1>5, <1>6

LEMMA CommandIsApplied == ASSUME ScreenInv, Screens!Apply PROVE ScreenInv'
<1>1. /\ UNCHANGED <<role, shown, refresh, dialog, overtaken, lost>>
      /\ command # Screens!None /\ command.answer = Screens!NoRefresh
      /\ row \in Screens!Row /\ row.status \in Screens!Status
  BY DEF Screens!Apply, ScreenInv, ScreenTyped, Screens!ScreenTypeOK, Screens!Row
<1>2. command \in ScreenCommand /\ command.op \in ScreenOp
  BY <1>1 DEF ScreenInv, ScreenTyped, ScreenCommand
<1>3. CASE /\ \E to \in Screens!Targets(command.op, row.status) : Screens!Moved(to)
           /\ command' = [command EXCEPT !.answer = row']
  <2>1. row' \in Screens!Row
    BY <1>1, <1>2, <1>3, TargetsAre, MovesToRow
  <2>2. command' \in ScreenCommand /\ command'.answer = row'
    BY <1>2, <1>3, <2>1 DEF ScreenCommand
  <2>3. ScreenTyped'
    BY <1>1, <2>1, <2>2, MarkersAre DEF ScreenInv, ScreenTyped, Screens!ScreenTypeOK
  <2>4. CopyFits' /\ DecisionFits'
    BY <2>1, <2>2, MarkersAre DEF CopyFits, DecisionFits, IsCurrent, Unanswered
  <2> QED
    BY <2>3, <2>4 DEF ScreenInv
<1>4. CASE command' = [command EXCEPT !.answer = Screens!Refused] /\ UNCHANGED row
  <2>1. command' \in ScreenCommand /\ command'.answer = Screens!Refused
    BY <1>2, <1>4 DEF ScreenCommand
  <2>2. ScreenTyped'
    BY <1>1, <1>4, <2>1, MarkersAre DEF ScreenInv, ScreenTyped, Screens!ScreenTypeOK
  <2>3. CopyFits' /\ DecisionFits'
    BY <1>1, <1>4, <2>1, MarkersAre
       DEF ScreenInv, CopyFits, DecisionFits, IsCurrent, Unanswered
  <2> QED
    BY <2>2, <2>3 DEF ScreenInv
<1> QED
  BY <1>3, <1>4 DEF Screens!Apply

LEMMA AnswerIsShown == ASSUME ScreenInv, Screens!Answer \/ Screens!LoseAnswer PROVE ScreenInv'
<1>1. CASE Screens!Answer
  <2>1. /\ UNCHANGED <<role, row, overtaken, lost>> /\ refresh' = Screens!Asked
        /\ command' = Screens!None /\ dialog' = Screens!None
        /\ shown' = IF command.answer = Screens!Refused THEN shown ELSE command.answer
        /\ command # Screens!None /\ command.answer # Screens!NoRefresh
    BY <1>1 DEF Screens!Answer
  <2>2. command.answer \in Screens!Row \union {Screens!Refused}
    BY <2>1 DEF ScreenInv, ScreenTyped, ScreenCommand
  <2>3. ScreenTyped'
    BY <2>1, <2>2 DEF ScreenInv, ScreenTyped, Screens!ScreenTypeOK
  <2>4. CopyFits' /\ DecisionFits'
    BY <2>1, <2>2, MarkersAre
       DEF ScreenInv, CopyFits, DecisionFits, IsCurrent, Unanswered
  <2> QED
    BY <2>3, <2>4 DEF ScreenInv
<1>2. CASE Screens!LoseAnswer
  <2>1. /\ UNCHANGED <<role, row, shown, refresh, dialog>> /\ command' = Screens!None
        /\ overtaken' = TRUE /\ lost < MaxLost /\ lost' = lost + 1
    BY <1>2 DEF Screens!LoseAnswer
  <2>2. lost' \in 0 .. MaxLost
    BY <2>1, ScreenAssumption DEF ScreenInv, ScreenTyped, Screens!ScreenTypeOK
  <2>3. ScreenTyped'
    BY <2>1, <2>2 DEF ScreenInv, ScreenTyped, Screens!ScreenTypeOK
  <2> QED
    BY <2>1, <2>3 DEF ScreenInv, CopyFits, DecisionFits
<1> QED
  BY <1>1, <1>2

LEMMA ScreenSteps ==
  ASSUME ScreenInv, Screens!ScreenNext \/ UNCHANGED screenVars
  PROVE  ScreenInv'
<1>1. CASE UNCHANGED screenVars
  BY <1>1 DEF screenVars, ScreenInv, ScreenTyped, Screens!ScreenTypeOK, CopyFits, DecisionFits,
              IsCurrent, Unanswered, IsLookedAt
<1> QED
  BY <1>1, ContentMoves, ScreenAsks, CopyArrives, DialogOpens, CommandIsSent, CommandIsApplied,
     AnswerIsShown DEF Screens!ScreenNext

LEMMA ScreenHolds ==
  ASSUME ScreenInv
  PROVE  Screens!ScreenTypeOK /\ Screens!OfferedIsAccepted /\ Screens!NobodyIsStuck
<1>1. row.status \in Screens!Status
  BY DEF ScreenInv, ScreenTyped, Screens!ScreenTypeOK, Screens!Row
<1> QED
  BY <1>1, OfferIsAccepted, EveryStatusGoesOn
     DEF ScreenInv, ScreenTyped, Screens!OfferedIsAccepted, Screens!NobodyIsStuck

\* DecidedIsWhatWasSeen's step.
LEMMA DecisionStep ==
  ASSUME ScreenInv, Screens!Accepted(command'), command.op \in Screens!Decision
  PROVE  command.looked = row.generation \/ overtaken
BY DEF ScreenInv, DecisionFits, IsLookedAt, Screens!Accepted

LEMMA ScreenStep ==
  ASSUME Next \/ UNCHANGED vars
  PROVE  Screens!ScreenNext \/ UNCHANGED screenVars
BY DEF Next, ScreensNext, OnScreens, SessionNext, PartsNext, UsageNext, vars

\* ScreensAreUsable but for its liveness: no screen that is up to date offers what the api
\* refuses, every content has a way on, and what a reviewer decides is about the cut that was
\* looked at, unless somebody else acted meanwhile or an answer was lost (the screens of the
\* two apps over contents.controller.ts).
THEOREM ScreensStayTrue == Spec => ScreensAgree
<1> DEFINE Sees == Screens!Accepted(command') /\ command.op \in Screens!Decision
                     => command.looked = row.generation \/ overtaken
           Agrees == focus = "screens" =>
                       Screens!ScreenTypeOK /\ Screens!OfferedIsAccepted /\ Screens!NobodyIsStuck
<1>1. Init => ScreenInv
  BY ScreenBegins DEF Init
<1>2. ScreenInv /\ [Next]_vars => ScreenInv'
  BY ScreenStep, ScreenSteps
<1>3. ScreenInv /\ [Next]_vars => [Sees]_(Screens!screenVars)
  BY DecisionStep
<1>4. ScreenInv => Agrees
  BY ScreenHolds
<1> QED
  BY <1>1, <1>2, <1>3, <1>4, PTL DEF Spec, ScreensAgree, Screens!DecidedIsWhatWasSeen
===============================================================================
