------------------------- MODULE SessionsRefinement -------------------------
(***************************************************************************)
(* Sessions implements TokenLedger, for every value of the constants: every *)
(* statement of the service is a step of the ledger or leaves it unchanged. *)
(***************************************************************************)
EXTENDS SessionsProofs

HasClaim(r, t) ==
  /\ req[r].token = t
  /\ \/ req[r].pc = "check" /\ ~ Dead(req[r].sess, now)
     \/ req[r].pc = "rotate"

LEMMA ClaimFacts ==
  /\ ClaimsOnTokens \subseteq Requests \X Tokens
  /\ \A r \in Requests, t \in Tokens :
       <<r, t>> \in ClaimsOnTokens <=> HasClaim(r, t)
BY DEF ClaimsOnTokens, HasClaim

(* A request without a claim, next to requests that are left alone. *)
LEMMA ClaimsWithdrawn ==
  ASSUME NEW r \in Requests, now' = now,
         \A q \in Requests \ {r} : req'[q] = req[q],
         \A t \in Tokens : ~ HasClaim(r, t)'
  PROVE  ClaimsOnTokens' = ClaimsOnTokens \ Ledger!ClaimsOf(r)
BY DEF ClaimsOnTokens, HasClaim, Ledger!ClaimsOf

LEMMA ClaimsKept ==
  ASSUME NEW r \in Requests, now' = now,
         \A q \in Requests \ {r} : req'[q] = req[q],
         \A t \in Tokens : HasClaim(r, t)' <=> HasClaim(r, t)
  PROVE  ClaimsOnTokens' = ClaimsOnTokens
BY DEF ClaimsOnTokens, HasClaim

LEMMA ClaimMade ==
  ASSUME NEW r \in Requests, NEW t \in Tokens, now' = now,
         \A q \in Requests \ {r} : req'[q] = req[q],
         HasClaim(r, t)',
         \A u \in Tokens : ~ HasClaim(r, u)
  PROVE  /\ ClaimsOnTokens' = ClaimsOnTokens \cup {<<r, t>>}
         /\ Ledger!ClaimsOf(r) = {}
BY DEF ClaimsOnTokens, HasClaim, Ledger!ClaimsOf

-----------------------------------------------------------------------------
(* Steps of the ledger.                                                    *)

(* A step that touches neither the table nor the clock, and leaves the      *)
(* request without a claim, withdraws the claim it had.                     *)
LEMMA Withdrawal ==
  ASSUME NEW r \in Requests, sessions' = sessions, now' = now,
         \A q \in Requests \ {r} : req'[q] = req[q],
         req'[r].pc \notin {"check", "rotate"}
  PROVE  Ledger!Next
<1>1. Ledger!Withdraw(r)
  BY ClaimsWithdrawn
  DEF Ledger!Withdraw, HasClaim, IssuedTokens, SpentTokens, RevokedTokens,
      ExpiredTokens, Exists, Replaced, Revoked, PastExpiry
<1> QED
  BY <1>1 DEF Ledger!Next

LEMMA TableUnchanged ==
  ASSUME sessions' = sessions, now' = now
  PROVE  UNCHANGED <<IssuedTokens, SpentTokens, RevokedTokens, ExpiredTokens>>
BY DEF IssuedTokens, SpentTokens, RevokedTokens, ExpiredTokens,
       Exists, Replaced, Revoked, PastExpiry

(* A new row that is neither replaced nor revoked is a token entered. *)
LEMMA Entering ==
  ASSUME TypeOK, NEW t \in Tokens, NEW s \in Row, s # NoRow,
         s.replaced_by = None, s.revoked_at = None, now' = now,
         sessions[t] = NoRow, sessions'[t] = s,
         \A x \in Tokens \ {t} :
           \/ sessions'[x] = sessions[x]
           \/ \E n : ReplacedAs(sessions'[x], sessions[x], n) /\ Exists(sessions, x)
  PROVE  Ledger!Enter(t) /\ UNCHANGED RevokedTokens
<1>1. \A x \in Tokens \ {t} :
        /\ Exists(sessions', x) <=> Exists(sessions, x)
        /\ sessions'[x].expires_at = sessions[x].expires_at
        /\ sessions'[x].revoked_at = sessions[x].revoked_at
  BY DEF Exists, ReplacedAs, SameIdentity
<1>2. IssuedTokens' = IssuedTokens \cup {t} /\ t \notin IssuedTokens
  BY <1>1 DEF IssuedTokens, Exists
<1>3. ExpiredTokens' \in {ExpiredTokens, ExpiredTokens \cup {t}}
  BY <1>1 DEF ExpiredTokens, PastExpiry, Exists
<1>4. RevokedTokens' = RevokedTokens
  BY <1>1 DEF RevokedTokens, Revoked, Exists
<1> QED
  BY <1>2, <1>3, <1>4 DEF Ledger!Enter

(* A revocation touches nothing else that the ledger sees. *)
LEMMA Revoking ==
  ASSUME TypeOK, now' = now, NEW at \in Nat,
         \A x \in Tokens :
           \/ sessions'[x] = sessions[x]
           \/ sessions[x] # NoRow /\ RevokedAs(sessions'[x], sessions[x], at)
  PROVE  /\ UNCHANGED <<IssuedTokens, SpentTokens, ExpiredTokens>>
         /\ RevokedTokens \subseteq RevokedTokens'
         /\ RevokedTokens' \subseteq IssuedTokens
<1>1. \A x \in Tokens :
        /\ Exists(sessions', x) <=> Exists(sessions, x)
        /\ sessions'[x].expires_at = sessions[x].expires_at
        /\ sessions'[x].replaced_by = sessions[x].replaced_by
        /\ sessions[x].revoked_at # None => sessions'[x].revoked_at # None
  BY RowFacts DEF Exists, RevokedAs, SameIdentity
<1>2. UNCHANGED <<IssuedTokens, SpentTokens, ExpiredTokens>>
  BY <1>1 DEF IssuedTokens, SpentTokens, ExpiredTokens, Replaced, PastExpiry, Exists
<1> QED
  BY <1>1, <1>2 DEF RevokedTokens, Revoked, IssuedTokens, Exists

LEMMA LedgerStep == IInv /\ [Next]_vars => [Ledger!Next]_Ledger!ledger
<1> SUFFICES ASSUME IInv, TypeOK, [Next]_vars
             PROVE  Ledger!Next \/ UNCHANGED Ledger!ledger
  BY DEF IInv
<1>1. ASSUME NEW r \in Requests, sessions' = sessions, now' = now,
             NEW q \in Request, req' = [req EXCEPT ![r] = q],
             q.pc \notin {"check", "rotate"}
      PROVE  Ledger!Next
  BY <1>1, Withdrawal DEF TypeOK
<1>2. ASSUME NEW r \in Requests, NEW result, NEW t, Return(r, result, t)
      PROVE  /\ \A q \in Requests \ {r} : req'[q] = req[q]
             /\ req'[r].pc = "reply"
  BY <1>2 DEF Return, TypeOK, Idle
<1>3. ASSUME NEW r \in Requests, NEW result, Answer(r, result),
             sessions' = sessions, now' = now
      PROVE  Ledger!Next
  BY <1>2, <1>3, Withdrawal DEF Answer
<1>4. ASSUME NEW r \in Requests, NEW u \in Users, NEW d \in Devices,
             Login(r, u, d)
      PROVE  Ledger!Next
  <2>1. /\ \A q \in Requests \ {r} : req'[q] = req[q]
        /\ req'[r].pc = "create" /\ sessions' = sessions /\ now' = now
    BY <1>4 DEF Login, Idle, TypeOK
  <2> QED
    BY <2>1, Withdrawal
<1>5. ASSUME NEW r \in Requests, LoginRefused(r) PROVE Ledger!Next
  <2>1. /\ \A q \in Requests \ {r} : req'[q] = req[q]
        /\ req'[r].pc = "reply" /\ sessions' = sessions /\ now' = now
    BY <1>5 DEF LoginRefused, Idle, TypeOK
  <2> QED
    BY <2>1, Withdrawal
<1>6. ASSUME NEW r \in Requests, NEW t \in Tokens, CreateSession(r, t)
      PROVE  Ledger!Next
  <2> DEFINE s == req[r].sess
  <2>1. /\ s \in Row /\ s # NoRow
        /\ s.replaced_by = None /\ s.revoked_at = None
    BY <1>6 DEF CreateSession, IInv, RequestInv, NewRowUnused, TypeOK, Request
  <2>2. /\ sessions[t] = NoRow /\ sessions'[t] = s /\ now' = now
        /\ \A x \in Tokens \ {t} : sessions'[x] = sessions[x]
    BY <1>6 DEF CreateSession, Fresh, Create, TypeOK, Table
  <2>3. Ledger!Enter(t) /\ UNCHANGED RevokedTokens
    BY <2>1, <2>2, Entering
  <2>4. UNCHANGED SpentTokens
    BY <2>1, <2>2 DEF SpentTokens, Replaced, Exists
  <2>5. UNCHANGED ClaimsOnTokens
    <3>1. /\ \A q \in Requests \ {r} : req'[q] = req[q]
          /\ req'[r].pc = "reply"
      BY <1>2, <1>6 DEF CreateSession, Issue, Answer
    <3>2. req[r].pc = "create"
      BY <1>6 DEF CreateSession
    <3> QED
      BY <2>2, <3>1, <3>2, ClaimsKept DEF HasClaim
  <2>6. Ledger!Issue(t)
    BY <2>3, <2>4, <2>5 DEF Ledger!Issue
  <2> QED
    BY <2>6 DEF Ledger!Next
<1>7. ASSUME NEW r \in Requests, NEW c \in Presentable,
             NEW h \in Devices \cup {None}, Refresh(r, c, h)
      PROVE  Ledger!Next
  <2>1. /\ \A q \in Requests \ {r} : req'[q] = req[q]
        /\ req'[r].pc \in {"find", "reply"}
        /\ sessions' = sessions /\ now' = now
    BY <1>7 DEF Refresh, Idle, TypeOK
  <2> QED
    BY <2>1, Withdrawal
<1>8. ASSUME NEW r \in Requests, FindSession(r) PROVE Ledger!Next
  <2> DEFINE t == req[r].token
             s == FindByHash(sessions, t)
  <2>1. CASE /\ s # NoRow
             /\ req' = [req EXCEPT ![r] = [@ EXCEPT !.pc = "check", !.sess = s]]
    <3>1. /\ \A q \in Requests \ {r} : req'[q] = req[q]
          /\ req'[r].pc = "check" /\ req'[r].sess = s /\ req'[r].token = t
          /\ req[r].pc = "find" /\ sessions' = sessions /\ now' = now
      BY <1>8, <2>1 DEF FindSession, TypeOK, Request
    <3>2. t \in Tokens /\ s = sessions[t] /\ Exists(sessions, t)
      BY <2>1, FindFacts DEF TypeOK, Exists
    <3> HIDE DEF s
    <3>3. CASE Dead(s, now)
      <4>1. Ledger!Withdraw(r)
        BY <3>1, <3>3, ClaimsWithdrawn, TableUnchanged
        DEF Ledger!Withdraw, HasClaim
      <4> QED
        BY <4>1 DEF Ledger!Next
    <3>4. CASE ~ Dead(s, now)
      <4>1. Ledger!Live(t)
        BY <3>2, <3>4 DEF Ledger!Live, Dead, IssuedTokens, SpentTokens,
          RevokedTokens, ExpiredTokens, Replaced, Revoked, PastExpiry
      <4>2. /\ ClaimsOnTokens' = ClaimsOnTokens \cup {<<r, t>>}
            /\ Ledger!ClaimsOf(r) = {}
        <5>1. HasClaim(r, t)' /\ \A u \in Tokens : ~ HasClaim(r, u)
          BY <3>1, <3>4 DEF HasClaim
        <5> QED
          BY <3>1, <3>2, <5>1, ClaimMade
      <4>3. Ledger!Claim(r, t)
        BY <3>1, <4>1, <4>2, TableUnchanged DEF Ledger!Claim
      <4> QED
        BY <3>2, <4>3 DEF Ledger!Next
    <3> QED
      BY <3>3, <3>4
  <2> QED
    BY <1>3, <1>8, <2>1 DEF FindSession
<1>9. ASSUME NEW r \in Requests, CheckSession(r)
      PROVE  Ledger!Next \/ UNCHANGED Ledger!ledger
  <2> DEFINE s == req[r].sess
  <2>1. CASE req' = [req EXCEPT ![r] = [@ EXCEPT !.pc = "revoke_all", !.at = now]]
    <3>1. /\ \A q \in Requests \ {r} : req'[q] = req[q]
          /\ req'[r].pc = "revoke_all" /\ sessions' = sessions /\ now' = now
      BY <1>9, <2>1 DEF CheckSession, Pass, TypeOK, Request
    <3> QED
      BY <3>1, Withdrawal
  <2>2. CASE /\ req' = [req EXCEPT ![r] = [@ EXCEPT !.pc = "rotate", !.at = now]]
             /\ ~ Dead(s, now)
    <3>1. /\ \A q \in Requests \ {r} : req'[q] = req[q]
          /\ req'[r].pc = "rotate" /\ req'[r].token = req[r].token
          /\ req[r].pc = "check" /\ sessions' = sessions /\ now' = now
      BY <1>9, <2>2 DEF CheckSession, Pass, TypeOK, Request
    <3>2. UNCHANGED ClaimsOnTokens
      BY <2>2, <3>1, ClaimsKept DEF HasClaim
    <3> QED
      BY <3>1, <3>2, TableUnchanged DEF Ledger!ledger
  <2>3. CASE Answer(r, "ErrRevokedRefresh") \/ Answer(r, "ErrExpiredRefresh")
    BY <1>3, <1>9, <2>3 DEF CheckSession, Pass
  <2> QED
    BY <1>9, <2>1, <2>2, <2>3 DEF CheckSession, Pass
<1>10. ASSUME NEW r \in Requests, RevokeAll(r) PROVE Ledger!Next
  <2> DEFINE t == req[r].token
  <2>1. t \in SpentTokens /\ t \in Tokens
    BY <1>10 DEF RevokeAll, IInv, RequestInv, SnapshotAgrees, DecisionHolds,
                 SpentTokens, Replaced, Exists
  <2>2. CASE sessions' = RevokeAllByUserAndDevice(sessions, req[r].sess.user,
                           req[r].sess.device, req[r].at)
    <3>1. req[r].at \in Nat /\ sessions \in Table /\ now' = now
      BY <1>10 DEF TypeOK, Request, RevokeAll
    <3>2. \A x \in Tokens :
            \/ sessions'[x] = sessions[x]
            \/ /\ sessions[x] # NoRow
               /\ RevokedAs(sessions'[x], sessions[x], req[r].at)
      BY <2>2, <3>1, RevokeAllFacts
    <3>3. /\ UNCHANGED <<IssuedTokens, SpentTokens, ExpiredTokens>>
          /\ RevokedTokens \subseteq RevokedTokens'
          /\ RevokedTokens' \subseteq IssuedTokens
      BY <3>1, <3>2, Revoking
    <3>4. UNCHANGED ClaimsOnTokens
      BY <1>2, <1>10, <3>1, ClaimsKept DEF RevokeAll, Answer, HasClaim
    <3>5. Ledger!Reuse(t)
      BY <2>1, <3>3, <3>4 DEF Ledger!Reuse
    <3> QED
      BY <2>1, <3>5 DEF Ledger!Next
  <2>3. CASE sessions' = sessions
    BY <1>3, <1>10, <2>3 DEF RevokeAll
  <2> QED
    BY <1>10, <2>2, <2>3 DEF RevokeAll
<1>11. ASSUME NEW r \in Requests, NEW u \in Tokens, RotateSession(r, u)
       PROVE  Ledger!Next
  <2> DEFINE t == req[r].token
             s == NewSession(req[r].sess.user, req[r].device, req[r].at,
                             RefreshTTL)
  <2>1. /\ t \in Tokens /\ sessions[t] # NoRow /\ t # u
        /\ sessions[u] = NoRow /\ s \in Row /\ s # NoRow
        /\ s.replaced_by = None /\ s.revoked_at = None
        /\ sessions' = Rotate(sessions, t, u, s)
    BY <1>11, RotationFacts
  <2> HIDE DEF s
  <2>2. /\ sessions'[u] = s
        /\ ReplacedAs(sessions'[t], sessions[t], u)
        /\ \A x \in Tokens \ {t, u} : sessions'[x] = sessions[x]
    BY <2>1, RotateFacts DEF TypeOK
  <2>3. now' = now /\ req[r].pc = "rotate"
    BY <1>11 DEF RotateSession
  <2>4. Ledger!Enter(u) /\ UNCHANGED RevokedTokens
    <3>1. \A x \in Tokens \ {u} :
            \/ sessions'[x] = sessions[x]
            \/ \E n : ReplacedAs(sessions'[x], sessions[x], n) /\ Exists(sessions, x)
      BY <2>1, <2>2 DEF Exists
    <3> QED
      BY <2>1, <2>2, <2>3, <3>1, Entering
  <2>5. SpentTokens' = SpentTokens \cup {t}
    BY <2>1, <2>2, RowFacts DEF SpentTokens, Replaced, Exists, ReplacedAs, SameIdentity
  <2>6. ClaimsOnTokens' = ClaimsOnTokens \ Ledger!ClaimsOf(r)
    <3>1. /\ \A q \in Requests \ {r} : req'[q] = req[q]
          /\ req'[r].pc = "reply"
      BY <1>2, <1>11 DEF RotateSession, Issue, Answer
    <3> QED
      BY <2>3, <3>1, ClaimsWithdrawn DEF HasClaim
  <2>7. <<r, t>> \in ClaimsOnTokens
    BY <2>1, <2>3, ClaimFacts DEF HasClaim
  <2>8. Ledger!Redeem(r, t, u)
    BY <2>4, <2>5, <2>6, <2>7 DEF Ledger!Redeem
  <2> QED
    BY <2>1, <2>8 DEF Ledger!Next
<1>12. ASSUME NEW r \in Requests, NEW c \in Presentable, Logout(r, c)
       PROVE  Ledger!Next
  <2>1. /\ \A q \in Requests \ {r} : req'[q] = req[q]
        /\ req'[r].pc \in {"revoke_hash", "reply"}
        /\ sessions' = sessions /\ now' = now
    BY <1>12 DEF Logout, Idle, TypeOK
  <2> QED
    BY <2>1, Withdrawal
<1>13. ASSUME NEW r \in Requests, RevokeHash(r) PROVE Ledger!Next
  <2> DEFINE t == req[r].token
  <2>1. CASE sessions' = RevokeByHash(sessions, t, now) /\ Exists(sessions, t)
    <3>1. /\ now \in Nat /\ sessions \in Table /\ now' = now
          /\ t \in Tokens /\ t \in IssuedTokens
      BY <1>13, <2>1 DEF TypeOK, RevokeHash, Exists, IssuedTokens
    <3>2. \A x \in Tokens :
            \/ sessions'[x] = sessions[x]
            \/ /\ x = t /\ sessions[x] # NoRow
               /\ RevokedAs(sessions'[x], sessions[x], now)
      BY <2>1, <3>1, RevokeHashFacts
    <3>3. sessions'[t].revoked_at # None
      BY <2>1, <3>1, RowFacts DEF RevokeByHash, RevokeWhere, Exists, Table, Row
    <3>4. /\ UNCHANGED <<IssuedTokens, SpentTokens, ExpiredTokens>>
          /\ RevokedTokens \subseteq RevokedTokens'
          /\ RevokedTokens' \subseteq IssuedTokens
      BY <3>1, <3>2, Revoking
    <3>5. RevokedTokens' = RevokedTokens \cup {t}
      <4>1. t \in RevokedTokens'
        BY <3>1, <3>3, <3>4 DEF RevokedTokens, Revoked, IssuedTokens
      <4>2. \A x \in Tokens \ {t} : sessions'[x] = sessions[x]
        BY <3>2
      <4>3. \A x \in Tokens \ {t} : x \in RevokedTokens' => x \in RevokedTokens
        BY <4>2 DEF RevokedTokens, Revoked, Exists
      <4> QED
        BY <3>1, <3>4, <4>1, <4>3 DEF RevokedTokens
    <3>6. UNCHANGED ClaimsOnTokens
      BY <1>2, <1>13, <3>1, ClaimsKept DEF RevokeHash, Answer, HasClaim
    <3>7. Ledger!Logout(t)
      BY <3>1, <3>4, <3>5, <3>6 DEF Ledger!Logout
    <3> QED
      BY <3>1, <3>7 DEF Ledger!Next
  <2>2. CASE sessions' = sessions
    BY <1>3, <1>13, <2>2 DEF RevokeHash
  <2>3. CASE sessions' = RevokeByHash(sessions, t, now) /\ ~ Exists(sessions, t)
    <3>1. sessions' = sessions
      BY <2>3 DEF RevokeByHash, RevokeWhere, Exists, TypeOK, Table
    <3> QED
      BY <2>2, <3>1
  <2> QED
    BY <1>13, <2>1, <2>2, <2>3 DEF RevokeHash
<1>14. ASSUME NEW r \in Requests, Reply(r) \/ Drop(r) PROVE Ledger!Next
  BY <1>1, <1>14, IdleType DEF Reply, Drop, Idle
<1>15. CASE Tick
  <2>1. sessions' = sessions /\ req' = req /\ now \in Nat /\ now' = now + 1
    BY <1>15 DEF Tick, TypeOK
  <2>2. \A s \in Row : Dead(s, now) => Dead(s, now')
    BY <2>1 DEF Dead, Row
  <2>3. UNCHANGED <<IssuedTokens, SpentTokens, RevokedTokens>>
    BY <2>1 DEF IssuedTokens, SpentTokens, RevokedTokens, Exists, Replaced, Revoked
  <2>4. ExpiredTokens \subseteq ExpiredTokens' /\ ExpiredTokens' \subseteq IssuedTokens
    BY <2>1 DEF ExpiredTokens, PastExpiry, IssuedTokens, TypeOK, Table, Row, Exists
  <2>5. ClaimsOnTokens' \subseteq ClaimsOnTokens
    <3>1. \A r \in Requests : req[r].pc = "check" => req[r].sess \in Row
      BY DEF IInv, RequestInv, SnapshotAgrees, TypeOK, Request
    <3> QED
      BY <2>1, <2>2, <3>1 DEF ClaimsOnTokens
  <2>6. Ledger!Expire
    BY <2>3, <2>4, <2>5 DEF Ledger!Expire
  <2> QED
    BY <2>6 DEF Ledger!Next
<1>16. CASE UNCHANGED vars
  BY <1>16, TableUnchanged DEF vars, Ledger!ledger, ClaimsOnTokens
<1>17. ASSUME NEW r \in Requests, CreateFails(r) \/ RotateFails(r)
       PROVE  Ledger!Next
  BY <1>3, <1>17 DEF CreateFails, RotateFails
<1> QED
  BY <1>4, <1>5, <1>6, <1>7, <1>8, <1>9, <1>10, <1>11, <1>12, <1>13, <1>14,
     <1>15, <1>16, <1>17 DEF Next, Arrive, Serve

LEMMA LedgerInit == Init => Ledger!Init
BY DEF Init, Ledger!Init, EmptyTable, IssuedTokens, SpentTokens, RevokedTokens,
       ExpiredTokens, ClaimsOnTokens, Exists, Replaced, Revoked, PastExpiry, Idle

(* The service keeps a ledger of single-use tokens, whatever requests run   *)
(* at the same time and whichever of their statements fail                  *)
(* (service/refresh.go:23-97, service/logout.go:10-18).                     *)
THEOREM Refinement == Spec => KeepsLedger
<1>1. Init => Ledger!Init
  BY LedgerInit
<1>2. IInv /\ [Next]_vars => [Ledger!Next]_Ledger!ledger
  BY LedgerStep
<1> QED
  BY <1>1, <1>2, Invariance, PTL DEF Spec, KeepsLedger, Ledger!Spec
=============================================================================
