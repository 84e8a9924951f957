------------------------ MODULE SessionsLoginProofs ------------------------
(***************************************************************************)
(* Proofs about the tokens of one login: a login that is over stays over,  *)
(* it has one usable token as long as its refreshes do not overlap, and a  *)
(* detected reuse ends it for clients that keep their device id.           *)
(***************************************************************************)
EXTENDS SessionsRefinement

USE NullsAssumption, SessionsAssumption

(* A claim is on a stored token. *)
LEMMA ClaimStored ==
  ASSUME IInv, NEW c \in ClaimsOnTokens
  PROVE  /\ c[1] \in Requests /\ c[2] \in Tokens /\ c = <<c[1], c[2]>>
         /\ HasClaim(c[1], c[2])
         /\ Exists(sessions, c[2])
<1>1. c[1] \in Requests /\ c[2] \in Tokens /\ c = <<c[1], c[2]>> /\ HasClaim(c[1], c[2])
  BY DEF ClaimsOnTokens, HasClaim
<1>2. Exists(sessions, req[c[1]].token)
  BY <1>1 DEF HasClaim, IInv, RequestInv, SnapshotAgrees
<1> QED
  BY <1>1, <1>2 DEF HasClaim

(* A claim is only made on a token that can be used. *)
LEMMA ClaimStep ==
  ASSUME IInv, [Next]_vars, NEW c \in ClaimsOnTokens'
  PROVE  c \in ClaimsOnTokens \/ Usable(c[2])
<1>1. [Ledger!Next]_Ledger!ledger
  BY LedgerStep
<1>2. CASE UNCHANGED Ledger!ledger
  BY <1>2 DEF Ledger!ledger
<1>3. ASSUME NEW r \in Requests, NEW t \in Tokens, Ledger!Claim(r, t)
      PROVE  c \in ClaimsOnTokens \/ Usable(c[2])
  BY <1>3 DEF Ledger!Claim, Ledger!Live, IssuedTokens, SpentTokens, RevokedTokens, Usable
<1> QED
  BY <1>1, <1>2, <1>3 DEF Ledger!Next, Ledger!Expire, Ledger!Issue, Ledger!Logout,
     Ledger!Reuse, Ledger!Withdraw, Ledger!Redeem

-----------------------------------------------------------------------------
(* What becomes usable.                                                    *)

OnlyNew(t) == \A x : Exists(sessions', x) /\ ~ Exists(sessions, x) => x = t

(* A rotation by r trades a token that it has a claim on for t. *)
Trades(r, t) ==
  \E old \in Tokens :
    /\ <<r, old>> \in ClaimsOnTokens
    /\ ClaimsOnTokens' \subseteq ClaimsOnTokens \ {<<r, old>>}
    /\ ~ Usable(old)'
    /\ root'[t] = root[old]

LEMMA RotationTrades ==
  ASSUME IInv, [Next]_vars, NEW r \in Requests, NEW t \in Tokens, RotateSession(r, t)
  PROVE  Trades(r, t) /\ OnlyNew(t)
<1> DEFINE s == NewSession(req[r].sess.user, req[r].device, req[r].at, RefreshTTL)
<1>1. PICK old \in Tokens :
        /\ old = req[r].token /\ sessions[old] # NoRow /\ old # t
        /\ s \in Row /\ s # NoRow
        /\ sessions' = Rotate(sessions, old, t, s)
        /\ root' = [root EXCEPT ![t] = root[old]]
  BY RotationFacts
<1> HIDE DEF s
<1>2. sessions \in Table /\ root \in [Tokens -> Tokens \cup {None}]
  BY DEF IInv, TypeOK
<1>3. /\ ReplacedAs(sessions'[old], sessions[old], t)
      /\ \A x \in Tokens \ {old, t} : sessions'[x] = sessions[x]
  BY <1>1, <1>2, RotateFacts
<1>4. ~ Usable(old)'
  <2>1. sessions'[old] # NoRow /\ sessions'[old].replaced_by # None
    BY <1>3, RowFacts DEF ReplacedAs, SameIdentity
  <2> QED
    BY <2>1 DEF Usable, Replaced, Exists
<1>5. OnlyNew(t)
  BY <1>1, <1>3 DEF OnlyNew, Exists
<1>6. <<r, old>> \in ClaimsOnTokens
  BY <1>1, ClaimFacts DEF HasClaim, RotateSession
<1>7. /\ \A q \in Requests \ {r} : req'[q] = req[q]
      /\ req'[r].pc = "reply" /\ now' = now
  BY DEF RotateSession, Issue, Answer, Return, IInv, TypeOK, Idle
<1>8. ClaimsOnTokens' = ClaimsOnTokens \ Ledger!ClaimsOf(r)
  BY <1>7, ClaimsWithdrawn DEF HasClaim
<1>9. <<r, old>> \in Ledger!ClaimsOf(r)
  BY <1>6 DEF Ledger!ClaimsOf
<1>10. root'[t] = root[old]
  BY <1>1, <1>2
<1> QED
  BY <1>4, <1>5, <1>6, <1>8, <1>9, <1>10 DEF Trades

(* A token that can be used could be used before, or is the only new one:   *)
(* of a new login, or traded for an older one.                              *)
LEMMA UsableStep ==
  ASSUME IInv, [Next]_vars, NEW t \in Tokens, Usable(t)'
  PROVE  \/ Usable(t) /\ root'[t] = root[t]
         \/ /\ ~ Exists(sessions, t) /\ OnlyNew(t)
            /\ root'[t] = t \/ \E r \in Requests : Trades(r, t)
<1>1. TypeOK /\ TypeOK' /\ Evolution
  BY TypeStep, EvolutionStep DEF IInv
<1>2. CASE Exists(sessions, t)
  <2>1. RowEvolves(t) /\ root'[t] = root[t]
    BY <1>1, <1>2, Kept
  <2> QED
    BY <1>2, <2>1 DEF Usable, Revoked, Replaced, RowEvolves, Exists
<1>3. CASE ~ Exists(sessions, t)
  <2>1. Exists(sessions', t)
    BY DEF Usable, Exists
  <2>2. ASSUME NEW r \in Requests, NEW u \in Tokens, CreateSession(r, u)
        PROVE  OnlyNew(t) /\ root'[t] = t
    <3>1. \A x \in Tokens \ {u} : sessions'[x] = sessions[x]
      BY <1>1, <2>2 DEF CreateSession, Create, TypeOK, Table
    <3>2. t = u
      BY <1>3, <2>1, <3>1 DEF Exists
    <3> QED
      BY <1>1, <2>2, <3>1, <3>2 DEF CreateSession, OnlyNew, Exists, TypeOK
  <2>3. ASSUME NEW r \in Requests, NEW u \in Tokens, RotateSession(r, u)
        PROVE  OnlyNew(t) /\ Trades(r, t)
    <3>1. Trades(r, u) /\ OnlyNew(u)
      BY <2>3, RotationTrades
    <3>2. t = u
      BY <1>3, <2>1, <3>1 DEF OnlyNew
    <3> QED
      BY <3>1, <3>2
  <2>4. ASSUME NEW r \in Requests, RevokeAll(r) \/ RevokeHash(r)
        PROVE  FALSE
    <3>1. req[r].at \in Nat /\ now \in Nat /\ sessions \in Table
      BY <1>1 DEF TypeOK, Request
    <3> QED
      BY <1>3, <2>1, <2>4, <3>1, RevokeAllFacts, RevokeHashFacts
      DEF RevokeAll, RevokeHash, Exists
  <2>5. CASE sessions' = sessions
    BY <1>3, <2>1, <2>5
  <2> QED
    BY <1>3, <2>2, <2>3, <2>4, <2>5, TableStep
<1> QED
  BY <1>2, <1>3

(* Whoever has a token keeps its login. *)
LEMMA SameLogin ==
  ASSUME IInv, [Next]_vars, NEW t, Exists(sessions, t)
  PROVE  Exists(sessions', t) /\ root'[t] = root[t] /\ t \in Tokens
BY TypeStep, EvolutionStep DEF Evolution, RowEvolves, Exists

(* No interleaving of refreshes, replays and logouts, and no fault, brings  *)
(* a login back whose tokens are all dead and not being traded              *)
(* (handlers/refresh.go:43, service/refresh.go:41-54).                      *)
THEOREM LoginsStayOver == Spec => OverForGood
<1>1. ASSUME IInv, [Next]_vars, NEW k \in Tokens, Exists(sessions, k), Over(k)
      PROVE  Over(k)'
  <2>1. ASSUME NEW t \in Tokens, Usable(t)', root'[t] = k
        PROVE  FALSE
    <3>1. CASE Usable(t) /\ root'[t] = root[t]
      BY <1>1, <2>1, <3>1 DEF Over
    <3>2. CASE ~ Exists(sessions, t) /\ root'[t] = t
      BY <1>1, <2>1, <3>2
    <3>3. ASSUME NEW r \in Requests, Trades(r, t)
          PROVE  FALSE
      BY <1>1, <2>1, <3>3 DEF Trades, Over
    <3> QED
      BY <1>1, <2>1, <3>1, <3>2, <3>3, UsableStep
  <2>2. ASSUME NEW c \in ClaimsOnTokens', root'[c[2]] = k
        PROVE  FALSE
    <3>1. CASE c \in ClaimsOnTokens
      <4>1. Exists(sessions, c[2])
        BY <1>1, <3>1, ClaimStored
      <4> QED
        BY <1>1, <2>2, <3>1, <4>1, SameLogin DEF Over
    <3>2. CASE Usable(c[2])
      <4>1. Exists(sessions, c[2])
        BY <3>2 DEF Usable
      <4> QED
        BY <1>1, <2>2, <3>2, <4>1, SameLogin DEF Over
    <3> QED
      BY <1>1, <2>2, <3>1, <3>2, ClaimStep
  <2> QED
    BY <2>1, <2>2 DEF Over
<1>2. IInv /\ [Next]_vars =>
        [\A k \in Tokens : Exists(sessions, k) /\ Over(k) => Over(k)']_vars
  BY <1>1
<1> QED
  BY <1>2, Invariance, PTL DEF Spec, OverForGood

-----------------------------------------------------------------------------
(* The invariant behind the theorems about one login.                      *)

(* Who reports a reuse has just revoked the device; who answers 204 has     *)
(* just revoked the row, or was given no cookie.                            *)
LEMMA ReportStep ==
  ASSUME IInv, [Next]_vars, NEW r \in Requests, req'[r] # req[r],
         NEW e \in {"ErrReusedRefresh", "NoContent"}, req'[r].result = e
  PROVE  \/ e = "ErrReusedRefresh" /\ req'[r].token = req[r].token /\ RevokeAll(r)
         \/ e = "NoContent" /\ req'[r].token = req[r].token /\ RevokeHash(r)
         \/ e = "NoContent" /\ req'[r].token = None
<1>1. TypeOK
  BY DEF IInv
<1>2. ASSUME NEW q \in Requests, NEW x, req' = [req EXCEPT ![q] = x]
      PROVE  q = r /\ x.result = e /\ req'[r] = x
  BY <1>1, <1>2 DEF TypeOK
<1>3. ASSUME NEW q \in Requests, NEW result, NEW t, Return(q, result, t)
      PROVE  q = r /\ result = e /\ req'[r].token = req[r].token
  <2>1. req' = [req EXCEPT ![q] = req'[q]] /\ req'[q].result = result
        /\ req'[q].token = req[q].token
    BY <1>1, <1>3, ReturnFields
  <2> QED
    BY <1>2, <2>1
<1>4. ASSUME NEW q \in Requests, RevokeAll(q)
      PROVE  RevokeAll(r) /\ e = "ErrReusedRefresh" /\ req'[r].token = req[r].token
  BY <1>3, <1>4 DEF RevokeAll, Answer
<1>5. ASSUME NEW q \in Requests, RevokeHash(q)
      PROVE  RevokeHash(r) /\ e = "NoContent" /\ req'[r].token = req[r].token
  BY <1>3, <1>5 DEF RevokeHash, Answer
<1>6. ASSUME NEW q \in Requests, FindSession(q) \/ CheckSession(q)
      PROVE  FALSE
  <2>1. req[q] \in Request /\ req[q].result = "none"
    BY <1>1, <1>6
    DEF FindSession, CheckSession, IInv, RequestInv, NewOnlyInReply, TypeOK
  <2>2. ASSUME NEW s, req' = [req EXCEPT ![q] = [@ EXCEPT !.pc = "check", !.sess = s]]
        PROVE  FALSE
    <3>1. [req[q] EXCEPT !.pc = "check", !.sess = s].result = "none"
      BY <2>1 DEF Request
    <3> QED
      BY <1>2, <2>2, <3>1
  <2>3. ASSUME NEW label, Pass(q, label) PROVE FALSE
    <3>1. [req[q] EXCEPT !.pc = label, !.at = now].result = "none"
      BY <2>1 DEF Request
    <3> QED
      BY <1>2, <2>3, <3>1 DEF Pass
  <2>4. ASSUME NEW result, Answer(q, result) PROVE result = e
    BY <1>3, <2>4 DEF Answer
  <2> QED
    BY <1>6, <2>2, <2>3, <2>4 DEF FindSession, CheckSession
<1>7. ASSUME NEW q \in Requests, NEW u \in Users, NEW d \in Devices, Login(q, u, d)
      PROVE  FALSE
  BY <1>2, <1>7 DEF Login, Idle
<1>8. ASSUME NEW q \in Requests, LoginRefused(q) PROVE FALSE
  BY <1>2, <1>8 DEF LoginRefused, Idle
<1>9. ASSUME NEW q \in Requests, NEW c, NEW h, Refresh(q, c, h) PROVE FALSE
  BY <1>1, <1>9 DEF Refresh, Idle, TypeOK
<1>10. ASSUME NEW q \in Requests, NEW c, Logout(q, c)
       PROVE  e = "NoContent" /\ req'[r].token = None
  BY <1>1, <1>10 DEF Logout, Idle, TypeOK
<1>11. ASSUME NEW q \in Requests, Reply(q) \/ Drop(q) PROVE FALSE
  <2>1. Idle.result = "none" /\ req' = [req EXCEPT ![q] = Idle]
    BY <1>11 DEF Reply, Drop, Idle
  <2> QED
    BY <1>2, <2>1
<1>12. ASSUME NEW q \in Requests, NEW t, CreateSession(q, t) \/ RotateSession(q, t)
       PROVE  FALSE
  BY <1>3, <1>12 DEF CreateSession, RotateSession, Issue, Answer
<1>13. ASSUME NEW q \in Requests, CreateFails(q) \/ RotateFails(q) PROVE FALSE
  BY <1>3, <1>13 DEF CreateFails, RotateFails, Answer
<1> QED
  BY <1>4, <1>5, <1>6, <1>7, <1>8, <1>9, <1>10, <1>11, <1>12, <1>13
  DEF Next, Arrive, Serve, vars, Tick

(* A reuse is reported by RevokeAll, and until the answer is delivered. *)
LEMMA ReusedStep ==
  ASSUME IInv, [Next]_vars, NEW r \in Requests,
         req'[r].result = "ErrReusedRefresh"
  PROVE  /\ req'[r].token = req[r].token
         /\ RevokeAll(r) \/ req'[r] = req[r]
BY ReportStep

(* A stored token, and the login it belongs to, are what they were. *)
LEMMA RootKept ==
  ASSUME IInv, [Next]_vars, RootsStored, NEW t, Exists(sessions, t)
  PROVE  /\ Exists(sessions', root'[t])
         /\ sessions'[root'[t]].user = sessions'[t].user
<1>1. /\ Exists(sessions, root[t])
      /\ sessions[root[t]].user = sessions[t].user
      /\ root'[t] = root[t]
  BY SameLogin DEF RootsStored
<1>2. \A x : Exists(sessions, x) =>
        Exists(sessions', x) /\ sessions'[x].user = sessions[x].user
  BY TypeStep, EvolutionStep DEF Evolution, RowEvolves, Exists
<1> QED
  BY <1>1, <1>2

LEMMA RootsStoredStep == IInv /\ RootsStored /\ [Next]_vars => RootsStored'
<1> SUFFICES ASSUME IInv, RootsStored, [Next]_vars,
                    NEW t \in Tokens, Exists(sessions', t)
             PROVE  /\ Exists(sessions', root'[t])
                    /\ sessions'[root'[t]].user = sessions'[t].user
  BY DEF RootsStored
<1>1. TypeOK
  BY DEF IInv
<1>2. CASE Exists(sessions, t)
  BY <1>2, RootKept
<1>3. ASSUME NEW r \in Requests, NEW u \in Tokens, CreateSession(r, u),
             ~ Exists(sessions, t)
      PROVE  root'[t] = t
  <2>1. \A x \in Tokens \ {u} : sessions'[x] = sessions[x]
    BY <1>1, <1>3 DEF CreateSession, Create, TypeOK, Table
  <2>2. t = u
    BY <1>3, <2>1 DEF Exists
  <2> QED
    BY <1>1, <1>3, <2>2 DEF CreateSession, TypeOK
<1>4. ASSUME NEW r \in Requests, NEW u \in Tokens, RotateSession(r, u),
             ~ Exists(sessions, t)
      PROVE  /\ Exists(sessions', root'[t])
             /\ sessions'[root'[t]].user = sessions'[t].user
  <2> DEFINE s == NewSession(req[r].sess.user, req[r].device, req[r].at, RefreshTTL)
  <2>1. PICK old \in Tokens :
          /\ sessions[old] # NoRow /\ old # u
          /\ s \in Row /\ s.user = sessions[old].user
          /\ sessions' = Rotate(sessions, old, u, s)
          /\ root' = [root EXCEPT ![u] = root[old]]
    BY <1>4, RotationFacts
  <2> HIDE DEF s
  <2>2. /\ sessions'[u] = s
        /\ ReplacedAs(sessions'[old], sessions[old], u)
        /\ \A x \in Tokens \ {old, u} : sessions'[x] = sessions[x]
    BY <1>1, <2>1, RotateFacts DEF TypeOK
  <2>3. t = u
    BY <1>4, <2>1, <2>2 DEF Exists
  <2>4. root'[t] = root[old] /\ root'[old] = root[old]
    BY <1>1, <2>1, <2>3 DEF TypeOK
  <2>5. sessions'[t].user = sessions'[old].user
    BY <2>1, <2>2, <2>3 DEF ReplacedAs, SameIdentity
  <2> QED
    BY <2>1, <2>4, <2>5, RootKept DEF Exists
<1>5. ASSUME NEW r \in Requests, RevokeAll(r) \/ RevokeHash(r)
      PROVE  Exists(sessions, t)
  <2>1. req[r].at \in Nat /\ now \in Nat /\ sessions \in Table
    BY <1>1 DEF TypeOK, Request
  <2> QED
    BY <1>5, <2>1, RevokeAllFacts, RevokeHashFacts DEF RevokeAll, RevokeHash, Exists
<1> QED
  BY <1>2, <1>3, <1>4, <1>5, TableStep

LEMMA ReusedStoredStep == IInv /\ ReusedStored /\ [Next]_vars => ReusedStored'
<1> SUFFICES ASSUME IInv, ReusedStored, [Next]_vars, NEW r \in Requests,
                    req'[r].result = "ErrReusedRefresh"
             PROVE  Exists(sessions', req'[r].token)
  BY DEF ReusedStored
<1>1. req'[r].token = req[r].token /\ (RevokeAll(r) \/ req'[r] = req[r])
  BY ReusedStep
<1>2. Exists(sessions, req[r].token)
  BY <1>1 DEF ReusedStored, RevokeAll, IInv, RequestInv, SnapshotAgrees
<1>3. \A x : Exists(sessions, x) => Exists(sessions', x)
  BY SameLogin
<1> QED
  BY <1>1, <1>2, <1>3

(* A request keeps its cookie until it is answered. *)
LEMMA TokenStep ==
  ASSUME IInv, [Next]_vars, NEW r \in Requests
  PROVE  req'[r].token \in {req[r].token, None} \cup Presentable
<1>1. TypeOK
  BY DEF IInv
<1>2. ASSUME NEW q \in Requests, NEW x, req' = [req EXCEPT ![q] = x],
             x.token \in {req[q].token, None} \cup Presentable
      PROVE  req'[r].token \in {req[r].token, None} \cup Presentable
  BY <1>1, <1>2 DEF TypeOK
<1>3. ASSUME NEW q \in Requests, NEW result, NEW t, Return(q, result, t)
      PROVE  req'[r].token \in {req[r].token, None} \cup Presentable
  <2>1. req' = [req EXCEPT ![q] = req'[q]] /\ req'[q].token = req[q].token
    BY <1>1, <1>3, ReturnFields
  <2> QED
    BY <1>2, <2>1
<1>4. ASSUME NEW q \in Requests, FindSession(q) \/ CheckSession(q)
      PROVE  req'[r].token \in {req[r].token, None} \cup Presentable
  <2>1. req[q] \in Request
    BY <1>1 DEF TypeOK
  <2>2. ASSUME NEW s, req' = [req EXCEPT ![q] = [@ EXCEPT !.pc = "check", !.sess = s]]
        PROVE  req'[r].token \in {req[r].token, None} \cup Presentable
    <3>1. [req[q] EXCEPT !.pc = "check", !.sess = s].token = req[q].token
      BY <2>1 DEF Request
    <3> QED
      BY <1>2, <2>2, <3>1
  <2>3. ASSUME NEW label, Pass(q, label)
        PROVE  req'[r].token \in {req[r].token, None} \cup Presentable
    <3>1. [req[q] EXCEPT !.pc = label, !.at = now].token = req[q].token
      BY <2>1 DEF Request
    <3> QED
      BY <1>2, <2>3, <3>1 DEF Pass
  <2>4. ASSUME NEW result, Answer(q, result)
        PROVE  req'[r].token \in {req[r].token, None} \cup Presentable
    BY <1>3, <2>4 DEF Answer
  <2> QED
    BY <1>4, <2>2, <2>3, <2>4 DEF FindSession, CheckSession
<1>5. ASSUME NEW q \in Requests, NEW u \in Users, NEW d \in Devices, Login(q, u, d)
      PROVE  req'[r].token \in {req[r].token, None} \cup Presentable
  BY <1>2, <1>5 DEF Login, Idle
<1>6. ASSUME NEW q \in Requests, LoginRefused(q)
      PROVE  req'[r].token \in {req[r].token, None} \cup Presentable
  BY <1>2, <1>6 DEF LoginRefused, Idle
<1>7. ASSUME NEW q \in Requests, NEW c \in Presentable, NEW h,
             Refresh(q, c, h) \/ Logout(q, c)
      PROVE  req'[r].token \in {req[r].token, None} \cup Presentable
  <2>1. req'[q].token = c /\ req' = [req EXCEPT ![q] = req'[q]]
    <3>1. CASE Refresh(q, c, h)
      BY <1>1, <3>1 DEF Refresh, Idle, TypeOK
    <3>2. CASE Logout(q, c)
      BY <1>1, <3>2 DEF Logout, Idle, TypeOK
    <3> QED
      BY <1>7, <3>1, <3>2
  <2> QED
    BY <1>2, <1>7, <2>1
<1>8. ASSUME NEW q \in Requests, Reply(q) \/ Drop(q)
      PROVE  req'[r].token \in {req[r].token, None} \cup Presentable
  <2>1. Idle.token = None /\ req' = [req EXCEPT ![q] = Idle]
    BY <1>8 DEF Reply, Drop, Idle
  <2> QED
    BY <1>2, <2>1
<1>9. ASSUME NEW q \in Requests, NEW t, CreateSession(q, t) \/ RotateSession(q, t)
      PROVE  req'[r].token \in {req[r].token, None} \cup Presentable
  BY <1>3, <1>9 DEF CreateSession, RotateSession, Issue, Answer
<1>10. ASSUME NEW q \in Requests,
              CreateFails(q) \/ RotateFails(q) \/ RevokeAll(q) \/ RevokeHash(q)
       PROVE  req'[r].token \in {req[r].token, None} \cup Presentable
  BY <1>3, <1>10 DEF CreateFails, RotateFails, RevokeAll, RevokeHash, Answer
<1> QED
  BY <1>4, <1>5, <1>6, <1>7, <1>8, <1>9, <1>10
  DEF Next, Arrive, Serve, vars, Tick

LEMMA PresentedStoredStep ==
  IInv /\ PresentedStored /\ [Next]_vars => PresentedStored'
<1> SUFFICES ASSUME IInv, PresentedStored, [Next]_vars, NEW r \in Requests,
                    NEW t \in Tokens, req'[r].token = t
             PROVE  Exists(sessions', t)
  BY DEF PresentedStored
<1>1. t # None /\ t # Junk
  BY RowFacts
<1>2. t = req[r].token \/ t \in held
  BY <1>1, TokenStep DEF Presentable
<1>3. Exists(sessions, t)
  BY <1>2 DEF PresentedStored, IInv
<1> QED
  BY <1>3, SameLogin

(* Every stored token belongs to a stored login of its user, cookies are    *)
(* tokens of stored sessions or made up, and a reuse is reported for a      *)
(* stored token (service/refresh.go:49-86).                                 *)
LEMMA LoginInvariance == Spec => []LoginInv
<1>1. Init => LoginInv
  BY RowFacts DEF Init, LoginInv, RootsStored, ReusedStored, PresentedStored,
                  EmptyTable, Exists, Idle
<1>2. IInv /\ LoginInv /\ [Next]_vars => LoginInv'
  BY RootsStoredStep, ReusedStoredStep, PresentedStoredStep DEF LoginInv
<1> QED
  BY <1>1, <1>2, Invariance, PTL DEF Spec

-----------------------------------------------------------------------------
(* One usable token per login.                                             *)

(* Claims are on tokens that were stored before the step. *)
LEMMA ClaimOld ==
  ASSUME IInv, [Next]_vars, NEW c \in ClaimsOnTokens'
  PROVE  /\ Exists(sessions, c[2]) /\ root'[c[2]] = root[c[2]]
         /\ c \in ClaimsOnTokens \/ Usable(c[2])
<1>1. c \in ClaimsOnTokens \/ Usable(c[2])
  BY ClaimStep
<1>2. c \in ClaimsOnTokens => Exists(sessions, c[2])
  BY ClaimStored
<1>3. Usable(c[2]) => Exists(sessions, c[2])
  BY DEF Usable
<1>4. Exists(sessions, c[2])
  BY <1>1, <1>2, <1>3
<1> QED
  BY <1>1, <1>4, SameLogin

(* A new usable token of the login k is its only one, and not yet claimed. *)
LEMMA NewIsAlone ==
  ASSUME IInv, LoginInv, [Next]_vars, NEW k \in Tokens, Single(k), ~ Overlap(k),
         NEW u \in Tokens, Usable(u)', ~ Exists(sessions, u), root'[u] = k
  PROVE  /\ \A t \in Tokens : Usable(t)' /\ root'[t] = k => t = u
         /\ \A c \in ClaimsOnTokens' : root'[c[2]] # k
<1>1. OnlyNew(u) /\ (root'[u] = u \/ \E r \in Requests : Trades(r, u))
  BY UsableStep DEF Usable
<1>2. ASSUME NEW t \in Tokens, t # u, Usable(t)', root'[t] = k
      PROVE  Usable(t) /\ root[t] = k
  <2>1. Exists(sessions, t)
    BY <1>1, <1>2 DEF OnlyNew, Usable
  <2> QED
    BY <1>2, <2>1, UsableStep
<1>3. CASE root'[u] = u
  <2>1. \A t : Exists(sessions, t) => root[t] # k
    BY <1>3 DEF LoginInv, RootsStored, Exists
  <2>2. \A c \in ClaimsOnTokens' : root'[c[2]] # k
    BY <2>1, ClaimOld
  <2> QED
    BY <1>2, <2>1, <2>2 DEF Usable
<1>4. ASSUME NEW r \in Requests, Trades(r, u)
      PROVE  /\ \A t \in Tokens : Usable(t)' /\ root'[t] = k => t = u
             /\ \A c \in ClaimsOnTokens' : root'[c[2]] # k
  <2>1. PICK old \in Tokens :
          /\ <<r, old>> \in ClaimsOnTokens
          /\ ClaimsOnTokens' \subseteq ClaimsOnTokens \ {<<r, old>>}
          /\ ~ Usable(old)'
          /\ root[old] = k
    BY <1>4 DEF Trades
  <2>2. \A t \in Tokens : Usable(t) /\ root[t] = k => t = old
    BY <2>1 DEF Single
  <2>3. \A c \in ClaimsOnTokens : root[c[2]] = k => c = <<r, old>>
    BY <2>1 DEF Overlap
  <2>4. \A c \in ClaimsOnTokens' : root'[c[2]] # k
    BY <2>1, <2>3, ClaimOld
  <2> QED
    BY <1>2, <2>1, <2>2, <2>4
<1> QED
  BY <1>1, <1>3, <1>4

(* No step forks a login unless two of its refreshes overlap. *)
LEMMA SingleStep ==
  ASSUME IInv, LoginInv, [Next]_vars, NEW k \in Tokens, Single(k), ~ Overlap(k)
  PROVE  Single(k)'
<1>1. ASSUME NEW t \in Tokens, Usable(t)', root'[t] = k, Exists(sessions, t)
      PROVE  Usable(t) /\ root[t] = k
  BY <1>1, UsableStep
<1>2. ASSUME NEW t \in Tokens, NEW u \in Tokens, Usable(t)', Usable(u)',
             root'[t] = k, root'[u] = k
      PROVE  t = u
  <2>1. CASE Exists(sessions, t) /\ Exists(sessions, u)
    BY <1>1, <1>2, <2>1 DEF Single
  <2>2. CASE ~ Exists(sessions, u)
    BY <1>2, <2>2, NewIsAlone
  <2>3. CASE ~ Exists(sessions, t)
    BY <1>2, <2>3, NewIsAlone
  <2> QED
    BY <2>1, <2>2, <2>3
<1>3. ASSUME NEW c \in ClaimsOnTokens', NEW t \in Tokens, root'[c[2]] = k,
             Usable(t)', root'[t] = k
      PROVE  t = c[2]
  <2>1. CASE ~ Exists(sessions, t)
    BY <1>3, <2>1, NewIsAlone
  <2>2. CASE Exists(sessions, t)
    <3>1. Usable(t) /\ root[t] = k
      BY <1>1, <1>3, <2>2
    <3>2. root[c[2]] = k /\ c[2] \in Tokens /\ (c \in ClaimsOnTokens \/ Usable(c[2]))
      BY <1>3, ClaimOld DEF Exists
    <3> QED
      BY <3>1, <3>2 DEF Single
  <2> QED
    BY <2>1, <2>2
<1> QED
  BY <1>2, <1>3 DEF Single

(* A login gets a second usable token only where two of its refreshes       *)
(* overlap, whatever answers are lost, tokens replayed or logged out and    *)
(* statements failing meanwhile (service/refresh.go:54-86).                 *)
THEOREM OverlapsFork == Spec => ForkedOnlyByOverlap
<1>1. IInv /\ LoginInv /\ [Next]_vars =>
        [\A k \in Tokens : ~ Single(k)' => ~ Single(k) \/ Overlap(k)]_vars
  BY SingleStep
<1> QED
  BY <1>1, Invariance, LoginInvariance, PTL DEF Spec, ForkedOnlyByOverlap

(* A login whose refreshes never overlap has at most one usable token,      *)
(* in every interleaving with other logins (service/refresh.go:54-86).      *)
THEOREM OneUsable ==
  Spec /\ [](\A k \in Tokens : ~ Overlap(k)) => []OneUsablePerFamily
<1>1. Init => \A k \in Tokens : Single(k)
  BY DEF Init, Single, Usable, Exists, EmptyTable
<1>2. IInv /\ LoginInv /\ (\A k \in Tokens : ~ Overlap(k))
        /\ (\A k \in Tokens : Single(k)) /\ [Next]_vars
        => (\A k \in Tokens : Single(k))'
  BY SingleStep
<1>3. IInv /\ LoginInv /\ (\A k \in Tokens : Single(k)) => OneUsablePerFamily
  <2> SUFFICES ASSUME LoginInv, \A k \in Tokens : Single(k),
                      NEW t \in Tokens, NEW u \in Tokens,
                      Usable(t), Usable(u), root[t] = root[u]
               PROVE  t = u
    BY DEF OneUsablePerFamily
  <2>1. root[t] \in Tokens
    BY DEF LoginInv, RootsStored, Usable, Exists
  <2> QED
    BY <2>1 DEF Single
<1> QED
  BY <1>1, <1>2, <1>3, Invariance, LoginInvariance, PTL DEF Spec

(* A server that takes one request at a time never forks a login, whatever  *)
(* fails, and however many users, devices and tokens there are.             *)
COROLLARY OneUsableSerially ==
  ASSUME NEW r, Requests = {r}
  PROVE  Spec => []OneUsablePerFamily
<1>1. \A k \in Tokens : ~ Overlap(k)
  <2> SUFFICES ASSUME NEW c \in ClaimsOnTokens, NEW d \in ClaimsOnTokens
               PROVE  c = d
    BY DEF Overlap
  <2> QED
    BY DEF ClaimsOnTokens
<1> QED
  BY <1>1, OneUsable, PTL

-----------------------------------------------------------------------------
(* A detected reuse ends the login.                                        *)

(* The step that reports a reuse revokes what is left of the login. *)
LEMMA ReuseRevokes ==
  ASSUME IInv, LoginInv, [Next]_vars, "db" \notin Faults, Steady,
         NEW r \in Requests, RevokeAll(r),
         NEW t \in Tokens, root'[t] = root'[req[r].token]
  PROVE  ~ Usable(t)'
<1> SUFFICES ASSUME Exists(sessions', t) PROVE Revoked(t)'
  BY DEF Usable
<1> DEFINE old == req[r].token
           s   == req[r].sess
<1>1. /\ Exists(sessions, old)
      /\ s.user = sessions[old].user /\ s.device = sessions[old].device
  BY DEF RevokeAll, IInv, RequestInv, SnapshotAgrees
<1>2. /\ req[r].at \in Nat /\ sessions \in Table
      /\ sessions' = RevokeAllByUserAndDevice(sessions, s.user, s.device, req[r].at)
      /\ root' = root
  BY DEF RevokeAll, IInv, TypeOK, Request
<1>3. Exists(sessions, t)
  BY <1>2, RevokeAllFacts DEF Exists
<1>4. sessions[t].user = s.user /\ sessions[t].device = s.device
  BY <1>1, <1>2, <1>3 DEF Steady, LoginInv, RootsStored, Exists
<1>5. sessions'[t].revoked_at # None
  BY <1>2, <1>3, <1>4, RowFacts
  DEF RevokeAllByUserAndDevice, RevokeWhere, Exists, Table, Row
<1> QED
  BY <1>5 DEF Revoked

LEMMA ReuseStep ==
  ASSUME IInv, LoginInv, [Next]_vars, "db" \notin Faults, Steady, Quiet,
         ReuseRevokesChain
  PROVE  ReuseRevokesChain'
<1> SUFFICES ASSUME NEW r \in Requests, req'[r].result = "ErrReusedRefresh",
                    NEW t \in Tokens, Usable(t)', root'[t] = root'[req'[r].token]
             PROVE  FALSE
  BY DEF ReuseRevokesChain
<1>1. req'[r].token = req[r].token /\ (RevokeAll(r) \/ req'[r] = req[r])
  BY ReusedStep
<1>2. CASE RevokeAll(r)
  BY <1>1, <1>2, ReuseRevokes
<1>3. CASE req'[r] = req[r]
  <2> DEFINE k == root[req[r].token]
  <2>1. /\ Exists(sessions, req[r].token) /\ root'[req[r].token] = k
        /\ Exists(sessions, k)
    BY <1>3, SameLogin DEF LoginInv, ReusedStored, RootsStored
  <2>2. ~ (Usable(t) /\ root[t] = k)
    BY <1>3 DEF ReuseRevokesChain
  <2>3. \A c \in ClaimsOnTokens : root[c[2]] # k
    BY <1>3 DEF Quiet
  <2>4. CASE Usable(t) /\ root'[t] = root[t]
    BY <1>1, <2>1, <2>2, <2>4
  <2>5. CASE ~ Exists(sessions, t) /\ root'[t] = t
    BY <1>1, <2>1, <2>5
  <2>6. ASSUME NEW q \in Requests, Trades(q, t) PROVE FALSE
    BY <1>1, <2>1, <2>3, <2>6 DEF Trades
  <2> QED
    BY <2>4, <2>5, <2>6, UsableStep
<1> QED
  BY <1>1, <1>2, <1>3

(* "Reuse detected -> revoke chain -> require fresh login"                  *)
(* (handlers/refresh.go:43) is true of clients that keep their device id    *)
(* and do not refresh while they are being told, when the UPDATE does not   *)
(* fail: each of the three is needed.                                       *)
THEOREM ReuseEndsLogin ==
  ASSUME "db" \notin Faults
  PROVE  Spec /\ []Steady /\ []Quiet => []ReuseRevokesChain
<1>1. Init => ReuseRevokesChain
  BY DEF Init, ReuseRevokesChain, Idle
<1>2. IInv /\ LoginInv /\ Steady /\ Quiet /\ ReuseRevokesChain /\ [Next]_vars
        => ReuseRevokesChain'
  BY ReuseStep
<1> QED
  BY <1>1, <1>2, Invariance, LoginInvariance, PTL DEF Spec

(* With one request at a time, no X-Device-ID and no failing statement, a   *)
(* detected reuse ends the login (handlers/refresh.go:43).                  *)
COROLLARY ReuseEndsLoginSerially ==
  ASSUME NEW r, Requests = {r}, NEW d, Devices = {d}, "db" \notin Faults
  PROVE  Spec => []ReuseRevokesChain
<1>1. IInv => Steady
  BY DEF IInv, TypeOK, Table, Row, Exists, Steady
<1>2. IInv => Quiet
  BY DEF IInv, RequestInv, NewOnlyInReply, Quiet, ClaimsOnTokens
<1> QED
  BY <1>1, <1>2, Invariance, ReuseEndsLogin, PTL

-----------------------------------------------------------------------------
(* A session is rotated once.                                              *)

(* A row gets another successor from a request with a claim on it only. *)
LEMMA OnlyClaimantsReplace ==
  ASSUME IInv, [Next]_vars, NEW t \in Tokens, Exists(sessions, t),
         sessions'[t].replaced_by # sessions[t].replaced_by
  PROVE  \E r \in Requests :
           /\ <<r, t>> \in ClaimsOnTokens
           /\ ClaimsOnTokens' \subseteq ClaimsOnTokens \ {<<r, t>>}
<1>1. TypeOK
  BY DEF IInv
<1>2. ASSUME NEW r \in Requests, NEW u \in Tokens, CreateSession(r, u)
      PROVE  FALSE
  BY <1>1, <1>2 DEF CreateSession, Create, Fresh, TypeOK, Table, Exists
<1>3. ASSUME NEW r \in Requests, RevokeAll(r) \/ RevokeHash(r)
      PROVE  FALSE
  <2>1. req[r].at \in Nat /\ now \in Nat /\ sessions \in Table
    BY <1>1 DEF TypeOK, Request
  <2>2. \/ sessions'[t] = sessions[t]
        \/ \E at : RevokedAs(sessions'[t], sessions[t], at)
    BY <1>3, <2>1, RevokeAllFacts, RevokeHashFacts DEF RevokeAll, RevokeHash
  <2> QED
    BY <2>2 DEF RevokedAs
<1>4. ASSUME NEW r \in Requests, NEW u \in Tokens, RotateSession(r, u)
      PROVE  /\ <<r, t>> \in ClaimsOnTokens
             /\ ClaimsOnTokens' \subseteq ClaimsOnTokens \ {<<r, t>>}
  <2> DEFINE s == NewSession(req[r].sess.user, req[r].device, req[r].at, RefreshTTL)
  <2>1. PICK old \in Tokens :
          /\ old = req[r].token /\ sessions[old] # NoRow /\ old # u
          /\ sessions[u] = NoRow /\ s \in Row
          /\ sessions' = Rotate(sessions, old, u, s)
    BY <1>4, RotationFacts
  <2> HIDE DEF s
  <2>2. \A x \in Tokens \ {old, u} : sessions'[x] = sessions[x]
    BY <1>1, <2>1, RotateFacts DEF TypeOK
  <2>3. t = old
    BY <2>1, <2>2 DEF Exists
  <2>4. <<r, t>> \in ClaimsOnTokens
    BY <1>4, <2>1, <2>3, ClaimFacts DEF HasClaim, RotateSession
  <2>5. /\ \A q \in Requests \ {r} : req'[q] = req[q]
        /\ req'[r].pc = "reply" /\ now' = now
    <3>1. PICK result, n : Return(r, result, n) /\ now' = now
      BY <1>4 DEF RotateSession, Issue, Answer
    <3>2. req' = [req EXCEPT ![r] = req'[r]] /\ req'[r].pc = "reply"
      BY <1>1, <3>1, ReturnFields
    <3> QED
      BY <1>1, <3>1, <3>2 DEF TypeOK
  <2>6. ClaimsOnTokens' = ClaimsOnTokens \ Ledger!ClaimsOf(r)
    BY <2>5, ClaimsWithdrawn DEF HasClaim
  <2> QED
    BY <2>4, <2>6 DEF Ledger!ClaimsOf
<1> QED
  BY <1>2, <1>3, <1>4, TableStep

(* Nobody has a claim on a token that has its successor. *)
ClaimsFirm == \A c \in ClaimsOnTokens : ~ Replaced(c[2])

LEMMA ClaimsFirmStep ==
  ASSUME IInv, [Next]_vars, ClaimsFirm, \A t \in Tokens : ~ Contested(t)
  PROVE  ClaimsFirm'
<1> SUFFICES ASSUME NEW c \in ClaimsOnTokens', Replaced(c[2])' PROVE FALSE
  BY DEF ClaimsFirm
<1>1. Exists(sessions, c[2]) /\ (c \in ClaimsOnTokens \/ Usable(c[2]))
  BY ClaimOld
<1>2. ~ Replaced(c[2])
  BY <1>1 DEF ClaimsFirm, Usable
<1>3. sessions'[c[2]].replaced_by # sessions[c[2]].replaced_by
  BY <1>1, <1>2 DEF Replaced
<1>4. PICK r \in Requests :
        /\ <<r, c[2]>> \in ClaimsOnTokens
        /\ c \in ClaimsOnTokens \ {<<r, c[2]>>}
  BY <1>1, <1>3, OnlyClaimantsReplace DEF Exists
<1>5. c[1] \in Requests /\ c = <<c[1], c[2]>>
  BY <1>4, ClaimStored
<1> QED
  BY <1>1, <1>4, <1>5 DEF Contested, Exists

(* "After rotation, old session should not be accepted again"               *)
(* (domain/session.go:100) is true of tokens that no two refreshes have     *)
(* read and found good at the same time: the UPDATE that has no condition   *)
(* on replaced_by (repo/postgres/sessions.go:75) relies on nothing else.    *)
THEOREM RotatedOnceUncontested ==
  Spec /\ [](\A t \in Tokens : ~ Contested(t)) => RotatedOnce
<1>1. Init => ClaimsFirm
  BY DEF Init, ClaimsFirm, Replaced, Exists, EmptyTable
<1>2. IInv /\ ClaimsFirm /\ (\A t \in Tokens : ~ Contested(t)) /\ [Next]_vars
        => ClaimsFirm'
  BY ClaimsFirmStep
<1>3. IInv /\ ClaimsFirm /\ [Next]_vars =>
        [\A t \in Tokens :
           Replaced(t) => sessions'[t].replaced_by = sessions[t].replaced_by]_vars
  <2> SUFFICES ASSUME IInv, ClaimsFirm, [Next]_vars, NEW t \in Tokens, Replaced(t),
                      sessions'[t].replaced_by # sessions[t].replaced_by
               PROVE  FALSE
    OBVIOUS
  <2>1. PICK r \in Requests : <<r, t>> \in ClaimsOnTokens
    BY OnlyClaimantsReplace DEF Replaced
  <2>2. <<r, t>>[2] = t
    OBVIOUS
  <2> QED
    BY <2>1, <2>2 DEF ClaimsFirm
<1> QED
  BY <1>1, <1>2, <1>3, Invariance, PTL DEF Spec, RotatedOnce

-----------------------------------------------------------------------------
(* A logout revokes.                                                       *)

LEMMA LogoutStep ==
  ASSUME IInv, LoginInv, [Next]_vars, "db" \notin Faults, LogoutRevokes
  PROVE  LogoutRevokes'
<1> SUFFICES ASSUME NEW r \in Requests, req'[r].result = "NoContent",
                    NEW t \in Tokens, req'[r].token = t, Exists(sessions', t)
             PROVE  Revoked(t)'
  BY DEF LogoutRevokes, Exists
<1>1. now \in Nat /\ sessions \in Table
  BY DEF IInv, TypeOK
<1>2. CASE req'[r] = req[r]
  <2>1. Exists(sessions, t)
    BY <1>2 DEF LoginInv, PresentedStored
  <2>2. Revoked(t)
    BY <1>2, <2>1 DEF LogoutRevokes
  <2> QED
    BY <2>2, TypeStep, EvolutionStep DEF Evolution, RowEvolves, Revoked, Exists
<1>3. CASE RevokeHash(r) /\ req'[r].token = req[r].token
  <2>1. sessions' = RevokeByHash(sessions, t, now)
    BY <1>3 DEF RevokeHash
  <2>2. sessions'[t].revoked_at # None
    BY <1>1, <2>1, RowFacts
    DEF RevokeByHash, RevokeWhere, Exists, Table, Row
  <2> QED
    BY <2>2 DEF Revoked
<1> QED
  BY <1>2, <1>3, ReportStep, RowFacts

(* "revoke refresh session + clear cookie" (README.md:30): a logout that is *)
(* answered 204 has revoked its session, unless the UPDATE fails, whose     *)
(* error is dropped (service/logout.go:17).                                 *)
THEOREM LogoutTrue ==
  ASSUME "db" \notin Faults
  PROVE  Spec => []LogoutRevokes
<1>1. Init => LogoutRevokes
  BY DEF Init, LogoutRevokes, Idle
<1>2. IInv /\ LoginInv /\ LogoutRevokes /\ [Next]_vars => LogoutRevokes'
  BY LogoutStep
<1> QED
  BY <1>1, <1>2, Invariance, LoginInvariance, PTL DEF Spec
=============================================================================
