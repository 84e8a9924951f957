--------------------------- MODULE SessionsProofs ---------------------------
(***************************************************************************)
(* Proofs of the safety properties of Sessions, for any number of users,   *)
(* devices, tokens, requests and clock ticks, and any of the faults.       *)
(***************************************************************************)
EXTENDS SessionsProperties, TLAPS

USE NullsAssumption, SessionsAssumption

-----------------------------------------------------------------------------
(* The statements of the repository on a table.                            *)

LEMMA RowFacts ==
  /\ NoRow \notin Row
  /\ None \notin Tokens
  /\ None \notin Nat
BY DEF Row

(* Row n is row s with another successor, or with another revocation. *)
SameIdentity(n, s) ==
  /\ n \in Row /\ n # NoRow
  /\ n.user = s.user /\ n.device = s.device /\ n.expires_at = s.expires_at

ReplacedAs(n, s, t) ==
  SameIdentity(n, s) /\ n.replaced_by = t /\ n.revoked_at = s.revoked_at

RevokedAs(n, s, at) ==
  SameIdentity(n, s) /\ n.revoked_at = at /\ n.replaced_by = s.replaced_by

LEMMA RowUpdates ==
  ASSUME NEW s \in Row
  PROVE  /\ \A t \in Tokens : ReplacedAs([s EXCEPT !.replaced_by = t], s, t)
         /\ \A at \in Nat : RevokedAs([s EXCEPT !.revoked_at = at], s, at)
BY RowFacts DEF ReplacedAs, RevokedAs, SameIdentity, Row

(* A row made by NewSession is a row, usable and not past its expiry. *)
LEMMA NewSessionFacts ==
  ASSUME NEW u \in Users, NEW d \in Devices, NEW at \in Nat
  PROVE  LET s == NewSession(u, d, at, RefreshTTL)
         IN  /\ s \in Row /\ s # NoRow
             /\ s.user = u /\ s.device = d
             /\ s.expires_at = at + RefreshTTL
             /\ s.replaced_by = None /\ s.revoked_at = None
BY RowFacts DEF NewSession, Row

(* INSERT of a row for a token that has none adds that row only. *)
LEMMA CreateFacts ==
  ASSUME NEW table \in Table, NEW t \in Tokens, NEW s \in Row
  PROVE  /\ Create(table, t, s) \in Table
         /\ Create(table, t, s)[t] = s
         /\ \A x \in Tokens \ {t} : Create(table, t, s)[x] = table[x]
BY DEF Create, Table

(* The rotation adds the new row and changes replaced_by of the old one. *)
LEMMA RotateFacts ==
  ASSUME NEW table \in Table, NEW old \in Tokens, NEW t \in Tokens,
         NEW s \in Row, table[old] # NoRow, old # t
  PROVE  LET next == Rotate(table, old, t, s)
         IN  /\ next \in Table
             /\ next[t] = s
             /\ ReplacedAs(next[old], table[old], t)
             /\ \A x \in Tokens \ {old, t} : next[x] = table[x]
<1> DEFINE mid  == Create(table, t, s)
           next == [mid EXCEPT ![old] = [mid[old] EXCEPT !.replaced_by = t]]
<1>1. mid \in Table /\ mid[t] = s /\ \A x \in Tokens \ {t} : mid[x] = table[x]
  BY CreateFacts
<1>2. mid[old] = table[old] /\ mid[old] \in Row
  BY <1>1 DEF Table
<1> HIDE DEF mid
<1>3. next \in Table /\ next[old] = [mid[old] EXCEPT !.replaced_by = t]
      /\ \A x \in Tokens \ {old} : next[x] = mid[x]
  BY <1>1, <1>2, RowUpdates DEF Table, ReplacedAs, SameIdentity
<1>4. Rotate(table, old, t, s) = next
  BY DEF Rotate, mid
<1> HIDE DEF next
<1> QED
  BY <1>1, <1>2, <1>3, <1>4, RowUpdates

(* A revocation sets revoked_at of the selected unrevoked rows. *)
LEMMA RevokeAllFacts ==
  ASSUME NEW table \in Table, NEW u, NEW d, NEW at \in Nat
  PROVE  LET next == RevokeAllByUserAndDevice(table, u, d, at)
         IN  /\ next \in Table
             /\ \A x \in Tokens :
                  \/ next[x] = table[x]
                  \/ /\ table[x] # NoRow
                     /\ table[x].revoked_at = None
                     /\ table[x].user = u
                     /\ table[x].device = d
                     /\ RevokedAs(next[x], table[x], at)
BY RowUpdates DEF RevokeAllByUserAndDevice, RevokeWhere, Exists, Table,
                  RevokedAs, SameIdentity

(* A revocation by hash sets revoked_at of that row, if it has none yet. *)
LEMMA RevokeHashFacts ==
  ASSUME NEW table \in Table, NEW h, NEW at \in Nat
  PROVE  LET next == RevokeByHash(table, h, at)
         IN  /\ next \in Table
             /\ \A x \in Tokens :
                  \/ next[x] = table[x]
                  \/ /\ x = h
                     /\ table[x] # NoRow
                     /\ table[x].revoked_at = None
                     /\ RevokedAs(next[x], table[x], at)
BY RowUpdates DEF RevokeByHash, RevokeWhere, Exists, Table, RevokedAs,
                  SameIdentity

(* What a SELECT returns. *)
LEMMA FindFacts ==
  ASSUME NEW table \in Table, NEW h
  PROVE  /\ FindByHash(table, h) \in Row \cup {NoRow}
         /\ FindByHash(table, h) # NoRow =>
              Exists(table, h) /\ FindByHash(table, h) = table[h]
         /\ Exists(table, h) => FindByHash(table, h) = table[h]
BY DEF FindByHash, Table, Exists

-----------------------------------------------------------------------------
(* Type correctness.                                                       *)

LEMMA IdleType == Idle \in Request
BY DEF Idle, Request, PCs, Results, Cookies

(* Returning to the handler keeps the requests well typed. *)
LEMMA ReturnType ==
  ASSUME TypeOK, NEW r \in Requests, NEW result \in Results,
         NEW t \in Tokens \cup {None}, Return(r, result, t)
  PROVE  req' \in [Requests -> Request]
BY DEF Return, TypeOK, Idle, Request, PCs, Results, Cookies

(* A rotation is carried out for a stored row, and stores a new one. *)
LEMMA RotationFacts ==
  ASSUME IInv, NEW r \in Requests, NEW t \in Tokens, RotateSession(r, t)
  PROVE  LET old == req[r].token
             s   == NewSession(req[r].sess.user, req[r].device, req[r].at,
                               RefreshTTL)
         IN  /\ old \in Tokens /\ sessions[old] # NoRow /\ old # t
             /\ sessions[t] = NoRow
             /\ req[r].sess \in Row /\ s \in Row /\ s # NoRow
             /\ s.user = sessions[old].user
             /\ s.expires_at = req[r].at + RefreshTTL
             /\ s.replaced_by = None /\ s.revoked_at = None
             /\ sessions' = Rotate(sessions, old, t, s)
             /\ root' = [root EXCEPT ![t] = root[old]]
<1>1. /\ req[r].token \in Tokens /\ sessions[req[r].token] # NoRow
      /\ req[r].sess # NoRow
      /\ req[r].sess.user = sessions[req[r].token].user
  BY DEF IInv, RequestInv, SnapshotAgrees, RotateSession, Exists
<1>2. sessions[t] = NoRow
  BY DEF RotateSession, Fresh
<1>3. /\ req[r].sess \in Row /\ req[r].sess.user \in Users
      /\ req[r].device \in Devices /\ req[r].at \in Nat
  BY <1>1 DEF IInv, TypeOK, Request, Row
<1> QED
  BY <1>1, <1>2, <1>3, NewSessionFacts DEF RotateSession

(* What returning leaves in the request. *)
LEMMA ReturnFields ==
  ASSUME TypeOK, NEW r \in Requests, NEW result, NEW t, Return(r, result, t)
  PROVE  /\ req' = [req EXCEPT ![r] = req'[r]]
         /\ req'[r].pc = "reply" /\ req'[r].result = result
         /\ req'[r].new = t
         /\ req'[r].token = req[r].token /\ req'[r].dead = req[r].dead
BY DEF Return, Idle, TypeOK

(* Every action keeps every variable in its type. *)
LEMMA TypeStep == IInv /\ [Next]_vars => TypeOK'
<1> SUFFICES ASSUME IInv, TypeOK, [Next]_vars PROVE TypeOK'
  BY DEF IInv
<1> USE DEF TypeOK
<1>1. ASSUME NEW r \in Requests, NEW u \in Users, NEW d \in Devices,
             Login(r, u, d)
      PROVE  TypeOK'
  <2>1. NewSession(u, d, now, RefreshTTL) \in Row
    BY NewSessionFacts
  <2>2. [Idle EXCEPT !.pc = "create", !.device = d,
                     !.sess = NewSession(u, d, now, RefreshTTL)] \in Request
    BY <2>1 DEF Idle, Request, PCs, Results, Cookies
  <2> QED
    BY <1>1, <2>2 DEF Login
<1>2. ASSUME NEW r \in Requests, LoginRefused(r) PROVE TypeOK'
  <2>1. \A e \in Results : [Idle EXCEPT !.pc = "reply", !.result = e] \in Request
    BY DEF Idle, Request, PCs, Results, Cookies
  <2>2. PICK e \in Results :
          req' = [req EXCEPT ![r] = [Idle EXCEPT !.pc = "reply", !.result = e]]
    BY <1>2 DEF LoginRefused, Results
  <2> QED
    BY <1>2, <2>1, <2>2 DEF LoginRefused
<1>3. ASSUME NEW r \in Requests, NEW t \in Tokens, CreateSession(r, t)
      PROVE  TypeOK'
  <2>1. req' \in [Requests -> Request]
    BY <1>3, ReturnType DEF CreateSession, Issue, Answer, Results
  <2>2. sessions' \in Table
    BY <1>3 DEF CreateSession, Create, Table, Request
  <2> QED
    BY <1>3, <2>1, <2>2 DEF CreateSession
<1>4. ASSUME NEW r \in Requests, CreateFails(r) PROVE TypeOK'
  BY <1>4, ReturnType DEF CreateFails, Answer, Results
<1>5. ASSUME NEW r \in Requests, NEW c \in Presentable,
             NEW h \in Devices \cup {None}, Refresh(r, c, h)
      PROVE  TypeOK'
  <2>1. c \in Cookies /\ DeviceOf(h) \in Devices
    BY DEF Presentable, Cookies, DeviceOf
  <2> QED
    BY <1>5, <2>1, IdleType DEF Refresh, Request, PCs, Results
<1>6. ASSUME NEW r \in Requests, FindSession(r) PROVE TypeOK'
  <2>1. \A s \in Row : [req[r] EXCEPT !.pc = "check", !.sess = s] \in Request
    BY DEF Request, PCs
  <2>2. FindByHash(sessions, req[r].token) \in Row \cup {NoRow}
    BY FindFacts
  <2>3. ASSUME NEW e \in Results, Answer(r, e) PROVE req' \in [Requests -> Request]
    BY <2>3, ReturnType DEF Answer
  <2> QED
    BY <1>6, <2>1, <2>2, <2>3 DEF FindSession, Results
<1>7. ASSUME NEW r \in Requests, CheckSession(r) PROVE TypeOK'
  <2>1. \A label \in PCs :
          [req[r] EXCEPT !.pc = label, !.at = now] \in Request
    BY DEF Request
  <2>2. ASSUME NEW e \in Results, Answer(r, e) PROVE req' \in [Requests -> Request]
    BY <2>2, ReturnType DEF Answer
  <2> QED
    BY <1>7, <2>1, <2>2 DEF CheckSession, Pass, Results, PCs
<1>8. ASSUME NEW r \in Requests, RevokeAll(r) PROVE TypeOK'
  <2>1. req' \in [Requests -> Request]
    BY <1>8, ReturnType DEF RevokeAll, Answer, Results
  <2>2. sessions' \in Table
    BY <1>8, RevokeAllFacts DEF RevokeAll, Request
  <2> QED
    BY <1>8, <2>1, <2>2 DEF RevokeAll
<1>9. ASSUME NEW r \in Requests, NEW t \in Tokens, RotateSession(r, t)
      PROVE  TypeOK'
  <2>1. req' \in [Requests -> Request]
    BY <1>9, ReturnType DEF RotateSession, Issue, Answer, Results
  <2>2. sessions' \in Table
    BY <1>9, RotationFacts, RotateFacts
  <2>3. root' \in [Tokens -> Tokens \cup {None}]
    BY <1>9, RotationFacts
  <2> QED
    BY <1>9, <2>1, <2>2, <2>3 DEF RotateSession
<1>10. ASSUME NEW r \in Requests, RotateFails(r) PROVE TypeOK'
  BY <1>10, ReturnType DEF RotateFails, Answer, Results
<1>11. ASSUME NEW r \in Requests, NEW c \in Presentable, Logout(r, c)
       PROVE  TypeOK'
  <2>1. c \in Cookies
    BY DEF Presentable, Cookies
  <2> QED
    BY <1>11, <2>1, IdleType DEF Logout, Request, PCs, Results
<1>12. ASSUME NEW r \in Requests, RevokeHash(r) PROVE TypeOK'
  <2>1. req' \in [Requests -> Request]
    BY <1>12, ReturnType DEF RevokeHash, Answer, Results
  <2>2. sessions' \in Table
    BY <1>12, RevokeHashFacts DEF RevokeHash
  <2>3. loggedOut' \subseteq Tokens
    BY <1>12 DEF RevokeHash, Exists
  <2> QED
    BY <1>12, <2>1, <2>2, <2>3 DEF RevokeHash
<1>13. ASSUME NEW r \in Requests, Reply(r) PROVE TypeOK'
  BY <1>13, IdleType DEF Reply, Request
<1>14. ASSUME NEW r \in Requests, Drop(r) PROVE TypeOK'
  BY <1>14, IdleType DEF Drop
<1>15. CASE Tick
  BY <1>15 DEF Tick
<1>16. CASE UNCHANGED vars
  BY <1>16 DEF vars
<1> QED
  BY <1>1, <1>2, <1>3, <1>4, <1>5, <1>6, <1>7, <1>8, <1>9, <1>10, <1>11,
     <1>12, <1>13, <1>14, <1>15, <1>16 DEF Next, Arrive, Serve

-----------------------------------------------------------------------------
(* How the table evolves.  Requests that a step does not touch depend on    *)
(* the table only through this.                                            *)

Evolution ==
  /\ now <= now'
  /\ \A t \in Tokens :
       Exists(sessions, t) => RowEvolves(t) /\ root'[t] = root[t]

LEMMA EvolutionStep == IInv /\ [Next]_vars => Evolution
<1> SUFFICES ASSUME IInv, TypeOK, [Next]_vars PROVE Evolution
  BY DEF IInv
<1>1. CASE UNCHANGED <<sessions, root, now>>
  BY <1>1 DEF Evolution, RowEvolves, TypeOK, Exists
<1>2. ASSUME NEW r \in Requests, NEW t \in Tokens, CreateSession(r, t)
      PROVE  Evolution
  BY <1>2 DEF CreateSession, Create, Fresh, Evolution, RowEvolves, TypeOK,
              Table, Exists
<1>3. ASSUME NEW r \in Requests, RevokeAll(r) PROVE Evolution
  <2>1. req[r].at \in Nat /\ sessions \in Table
    BY DEF TypeOK, Request
  <2>2. \A x \in Tokens :
          \/ sessions'[x] = sessions[x]
          \/ /\ sessions[x] # NoRow /\ sessions[x].revoked_at = None
             /\ RevokedAs(sessions'[x], sessions[x], req[r].at)
    BY <1>3, <2>1, RevokeAllFacts DEF RevokeAll
  <2> QED
    BY <1>3, <2>1, <2>2, RowFacts
    DEF RevokeAll, Evolution, RowEvolves, TypeOK, Exists, RevokedAs,
        SameIdentity
<1>4. ASSUME NEW r \in Requests, NEW t \in Tokens, RotateSession(r, t)
      PROVE  Evolution
  <2>1. sessions \in Table
    BY DEF TypeOK
  <2>2. \A x \in Tokens \ {t} :
          \/ sessions'[x] = sessions[x]
          \/ /\ sessions[x] # NoRow
             /\ ReplacedAs(sessions'[x], sessions[x], t)
    BY <1>4, <2>1, RotationFacts, RotateFacts
  <2>3. sessions[t] = NoRow /\ now' = now
    BY <1>4 DEF RotateSession, Fresh
  <2>4. \A x \in Tokens \ {t} : root'[x] = root[x]
    BY <1>4, RotationFacts DEF TypeOK
  <2> QED
    BY <2>1, <2>2, <2>3, <2>4, RowFacts
    DEF Evolution, RowEvolves, TypeOK, Exists, ReplacedAs, SameIdentity
<1>5. ASSUME NEW r \in Requests, RevokeHash(r) PROVE Evolution
  <2>1. sessions \in Table /\ now \in Nat
    BY DEF TypeOK
  <2>2. \A x \in Tokens :
          \/ sessions'[x] = sessions[x]
          \/ /\ sessions[x] # NoRow /\ sessions[x].revoked_at = None
             /\ RevokedAs(sessions'[x], sessions[x], now)
    BY <1>5, <2>1, RevokeHashFacts DEF RevokeHash
  <2> QED
    BY <1>5, <2>1, <2>2, RowFacts
    DEF RevokeHash, Evolution, RowEvolves, TypeOK, Exists, RevokedAs,
        SameIdentity
<1>6. CASE Tick
  BY <1>6 DEF Tick, Evolution, RowEvolves, TypeOK, Exists
<1> QED
  BY <1>1, <1>2, <1>3, <1>4, <1>5, <1>6
  DEF Next, Arrive, Serve, vars, Login, LoginRefused, CreateFails, Refresh,
      FindSession, CheckSession, RotateFails, Logout, Reply, Drop

-----------------------------------------------------------------------------
(* A dead token stays dead: time, rotations and revocations only kill. *)
LEMMA DeadPersists ==
  ASSUME TypeOK, TypeOK', Evolution, NEW t,
         Exists(sessions, t), Dead(sessions[t], now)
  PROVE  Exists(sessions, t)' /\ Dead(sessions'[t], now')
<1>1. RowEvolves(t) /\ now <= now' /\ t \in Tokens
  BY DEF Evolution, Exists
<1>2. /\ sessions[t] \in Row /\ sessions'[t] \in Row
      /\ now \in Nat /\ now' \in Nat
  BY <1>1 DEF Exists, TypeOK, Table, RowEvolves
<1> QED
  BY <1>1, <1>2 DEF Dead, RowEvolves, Row, Exists

(* A request that a step does not touch keeps what it knows. *)
LEMMA Untouched ==
  ASSUME IInv, TypeOK', Evolution, NEW q \in Requests, req'[q] = req[q]
  PROVE  RequestInv(q)'
<1> USE DEF IInv, RequestInv
<1>1. now \in Nat /\ now' \in Nat /\ now <= now'
  BY DEF Evolution, TypeOK
<1>2. ASSUME NEW t, Exists(sessions, t)
      PROVE  Exists(sessions, t)' /\ RowEvolves(t) /\ root'[t] = root[t]
  BY <1>2 DEF Exists, Evolution, RowEvolves
<1>3. ASSUME NEW s \in Row, Dead(s, now) PROVE Dead(s, now')
  BY <1>1, <1>3 DEF Dead, Row
<1>4. \A t : Exists(sessions, t) => sessions[t] \in Row /\ sessions'[t] \in Row
  BY <1>2 DEF TypeOK, Table, Exists
<1>5. SnapshotAgrees(q)'
  BY <1>2 DEF SnapshotAgrees, RowEvolves
<1>6. DecisionHolds(q)'
  BY <1>1 DEF DecisionHolds, TypeOK, Request
<1>7. DeadStaysDead(q)'
  <2>1. ASSUME req[q].dead
        PROVE  Exists(sessions, req[q].token)'
               /\ Dead(sessions'[req[q].token], now')
    BY <2>1, DeadPersists DEF DeadStaysDead
  <2>2. ASSUME req[q].dead, req[q].pc = "check" PROVE Dead(req[q].sess, now')
    <3>1. req[q].sess \in Row /\ Dead(req[q].sess, now)
      BY <2>2 DEF DeadStaysDead, SnapshotAgrees, TypeOK, Request
    <3> QED
      BY <3>1, <1>3
  <2> QED
    BY <2>1, <2>2 DEF DeadStaysDead
<1>8. NewRowUnused(q)'
  <2> SUFFICES ASSUME req[q].pc = "create"
               PROVE  req[q].sess.expires_at <= now' + RefreshTTL
    BY DEF NewRowUnused
  <2>1. req[q].sess \in Row /\ req[q].sess.expires_at <= now + RefreshTTL
    BY DEF NewRowUnused, TypeOK, Request
  <2> QED
    BY <2>1, <1>1 DEF Row
<1>9. NewOnlyInReply(q)'
  BY DEF NewOnlyInReply
<1>10. HandoutBacked(q)'
  BY <1>2 DEF HandoutBacked, RowEvolves
<1> QED
  BY <1>5, <1>6, <1>7, <1>8, <1>9, <1>10

(* A request that returned without new tokens knows no more than before. *)
LEMMA Returned ==
  ASSUME IInv, TypeOK', Evolution, NEW r \in Requests, NEW result \in Results,
         result # "OK", Return(r, result, None)
  PROVE  RequestInv(r)'
<1> USE DEF IInv, RequestInv
<1>1. /\ req'[r].pc = "reply" /\ req'[r].new = None
      /\ req'[r].result = result
      /\ req'[r].token = req[r].token /\ req'[r].dead = req[r].dead
  BY DEF Return, Idle, TypeOK
<1>2. DeadStaysDead(r)'
  <2> SUFFICES ASSUME req[r].dead
               PROVE  /\ Exists(sessions, req[r].token)'
                      /\ Dead(sessions'[req[r].token], now')
    BY <1>1 DEF DeadStaysDead
  <2>1. Exists(sessions, req[r].token) /\ Dead(sessions[req[r].token], now)
    BY DEF DeadStaysDead
  <2>2. PICK t : t = req[r].token
    OBVIOUS
  <2>3. Exists(sessions, t)' /\ Dead(sessions'[t], now')
    BY <2>1, <2>2, DeadPersists
  <2> QED
    BY <2>2, <2>3, <1>1 DEF Exists
<1> QED
  BY <1>1, <1>2 DEF SnapshotAgrees, DecisionHolds, NewRowUnused, NewOnlyInReply,
                    HandoutBacked

(* An idle request slot knows nothing. *)
LEMMA IdleInv ==
  ASSUME NEW q \in Requests, req[q] = Idle
  PROVE  RequestInv(q)
BY DEF RequestInv, Idle, SnapshotAgrees, DecisionHolds, DeadStaysDead,
       NewRowUnused, NewOnlyInReply, HandoutBacked

(* Every step leaves every request with knowledge that is true. *)
LEMMA RequestStep ==
  IInv /\ [Next]_vars => \A q \in Requests : RequestInv(q)'
<1> SUFFICES ASSUME IInv, TypeOK, TypeOK', Evolution, [Next]_vars
             PROVE  \A q \in Requests : RequestInv(q)'
  BY TypeStep, EvolutionStep DEF IInv
<1>0. ASSUME NEW r \in Requests,
             \A q \in Requests \ {r} : req'[q] = req[q],
             RequestInv(r)'
      PROVE  \A q \in Requests : RequestInv(q)'
  BY <1>0, Untouched
<1> USE DEF RequestInv
<1>1. ASSUME NEW r \in Requests, NEW u \in Users, NEW d \in Devices,
             Login(r, u, d)
      PROVE  \A q \in Requests : RequestInv(q)'
  <2> DEFINE s == NewSession(u, d, now, RefreshTTL)
  <2>1. /\ s # NoRow /\ s.replaced_by = None /\ s.revoked_at = None
        /\ s.expires_at = now + RefreshTTL
    BY NewSessionFacts DEF TypeOK
  <2>2. /\ req' = [req EXCEPT ![r] = req'[r]] /\ now' = now
        /\ req'[r].pc = "create" /\ req'[r].sess = s /\ req'[r].token = None
        /\ req'[r].dead = FALSE /\ req'[r].new = None
        /\ req'[r].result = "none"
    BY <1>1 DEF Login, Idle, TypeOK
  <2> HIDE DEF s
  <2>3. RequestInv(r)'
    BY <2>1, <2>2 DEF TypeOK, SnapshotAgrees, DecisionHolds, DeadStaysDead, NewRowUnused,
                      NewOnlyInReply, HandoutBacked
  <2> QED
    BY <1>0, <2>2, <2>3 DEF TypeOK
<1>2. ASSUME NEW r \in Requests, LoginRefused(r)
      PROVE  \A q \in Requests : RequestInv(q)'
  <2>1. /\ req' = [req EXCEPT ![r] = req'[r]]
        /\ req'[r].pc = "reply" /\ req'[r].dead = FALSE /\ req'[r].new = None
        /\ req'[r].result # "OK"
    BY <1>2 DEF LoginRefused, Idle, TypeOK
  <2>2. RequestInv(r)'
    BY <2>1 DEF SnapshotAgrees, DecisionHolds, DeadStaysDead, NewRowUnused,
                NewOnlyInReply, HandoutBacked
  <2> QED
    BY <1>0, <2>1, <2>2 DEF TypeOK
<1>3. ASSUME NEW r \in Requests, NEW t \in Tokens, CreateSession(r, t)
      PROVE  \A q \in Requests : RequestInv(q)'
  <2>1. req[r].token = None /\ ~ req[r].dead
    BY <1>3 DEF CreateSession, IInv, NewRowUnused
  <2>2. Exists(sessions, t)'
    BY <1>3 DEF CreateSession, Create, Exists, IInv, NewRowUnused, TypeOK, Table
  <2>3. /\ req' = [req EXCEPT ![r] = req'[r]]
        /\ req'[r].pc = "reply" /\ req'[r].token = None
        /\ ~ req'[r].dead /\ req'[r].new \in {t, None}
    BY <1>3, <2>1, ReturnFields DEF CreateSession, Issue, Answer
  <2>4. RequestInv(r)'
    BY <2>2, <2>3, RowFacts DEF SnapshotAgrees, DecisionHolds, DeadStaysDead,
         NewRowUnused, NewOnlyInReply, HandoutBacked
  <2> QED
    BY <1>0, <2>3, <2>4 DEF TypeOK
<1>4. ASSUME NEW r \in Requests, NEW result \in Results, result # "OK",
             Answer(r, result)
      PROVE  \A q \in Requests : RequestInv(q)'
  <2>1. \A q \in Requests \ {r} : req'[q] = req[q]
    BY <1>4 DEF Answer, Return, TypeOK
  <2>2. RequestInv(r)'
    BY <1>4, Returned DEF Answer
  <2> QED
    BY <1>0, <2>1, <2>2
<1>5. ASSUME NEW r \in Requests, NEW c \in Presentable,
             NEW h \in Devices \cup {None}, Refresh(r, c, h)
      PROVE  \A q \in Requests : RequestInv(q)'
  <2> DEFINE s == FindByHash(sessions, c)
  <2>1. s # NoRow => Exists(sessions, c) /\ s = sessions[c]
    BY FindFacts DEF TypeOK
  <2>2. /\ req' = [req EXCEPT ![r] = req'[r]]
        /\ now' = now /\ sessions' = sessions
        /\ req'[r].pc \in {"find", "reply"} /\ req'[r].token = c
        /\ req'[r].new = None /\ req'[r].result # "OK"
        /\ req'[r].pc = "find" => req'[r].result = "none"
        /\ req'[r].dead = (s # NoRow /\ Dead(s, now))
    BY <1>5 DEF Refresh, Idle, TypeOK
  <2> HIDE DEF s
  <2>3. RequestInv(r)'
    BY <2>1, <2>2 DEF SnapshotAgrees, DecisionHolds, DeadStaysDead,
         NewRowUnused, NewOnlyInReply, HandoutBacked
  <2> QED
    BY <1>0, <2>2, <2>3 DEF TypeOK
<1>6. ASSUME NEW r \in Requests, FindSession(r)
      PROVE  \A q \in Requests : RequestInv(q)'
  <2> DEFINE s == FindByHash(sessions, req[r].token)
  <2>1. CASE /\ s # NoRow
             /\ req' = [req EXCEPT ![r] = [@ EXCEPT !.pc = "check", !.sess = s]]
    <3>1. Exists(sessions, req[r].token) /\ s = sessions[req[r].token]
      BY <2>1, FindFacts DEF TypeOK
    <3>2. /\ req' = [req EXCEPT ![r] = req'[r]]
          /\ now' = now /\ sessions' = sessions
          /\ req'[r].pc = "check" /\ req'[r].sess = s
          /\ req'[r].token = req[r].token /\ req'[r].dead = req[r].dead
          /\ req'[r].new = req[r].new /\ req'[r].result = req[r].result
      BY <1>6, <2>1 DEF FindSession, TypeOK, Request
    <3>3. req[r].new = None /\ req[r].result = "none"
      BY <1>6 DEF FindSession, IInv, NewOnlyInReply
    <3>4. req[r].dead => Dead(s, now)
      BY <3>1 DEF IInv, DeadStaysDead
    <3> HIDE DEF s
    <3>5. RequestInv(r)'
      BY <2>1, <3>1, <3>2, <3>3, <3>4 DEF SnapshotAgrees, DecisionHolds,
           DeadStaysDead, NewRowUnused, NewOnlyInReply, HandoutBacked
    <3> QED
      BY <1>0, <3>2, <3>5 DEF TypeOK
  <2> QED
    BY <1>4, <1>6, <2>1 DEF FindSession, Results
<1>7. ASSUME NEW r \in Requests, CheckSession(r)
      PROVE  \A q \in Requests : RequestInv(q)'
  <2> DEFINE s == req[r].sess
  <2>1. CASE \E label \in {"revoke_all", "rotate"} :
               /\ req' = [req EXCEPT ![r] = [@ EXCEPT !.pc = label, !.at = now]]
               /\ label = "revoke_all" => s.replaced_by # None
               /\ label = "rotate" => ~ Dead(s, now)
    <3>1. PICK label \in {"revoke_all", "rotate"} :
            /\ req' = [req EXCEPT ![r] = [@ EXCEPT !.pc = label, !.at = now]]
            /\ label = "revoke_all" => s.replaced_by # None
            /\ label = "rotate" => ~ Dead(s, now)
      BY <2>1
    <3>2. /\ req' = [req EXCEPT ![r] = req'[r]]
          /\ now' = now /\ sessions' = sessions
          /\ req'[r].pc = label /\ req'[r].sess = s /\ req'[r].at = now
          /\ req'[r].token = req[r].token /\ req'[r].dead = req[r].dead
          /\ req'[r].new = req[r].new /\ req'[r].result = req[r].result
      BY <1>7, <3>1 DEF CheckSession, Pass, TypeOK, Request
    <3>3. req[r].new = None /\ req[r].result = "none"
      BY <1>7 DEF CheckSession, Pass, IInv, NewOnlyInReply
    <3>4. SnapshotAgrees(r) /\ SnapshotAgrees(r)'
      BY <1>7, <3>1, <3>2 DEF CheckSession, Pass, IInv, SnapshotAgrees
    <3>5. s.expires_at <= now + RefreshTTL
      BY <1>7, <3>4 DEF CheckSession, Pass, IInv, ExpiryBounded, SnapshotAgrees, Exists
    <3>6. req[r].dead => label # "rotate"
      BY <1>7, <3>1 DEF CheckSession, Pass, IInv, DeadStaysDead
    <3>7. DecisionHolds(r)'
      BY <3>1, <3>2, <3>5, <3>6 DEF DecisionHolds, TypeOK
    <3>8. DeadStaysDead(r)'
      BY <3>1, <3>2 DEF IInv, DeadStaysDead
    <3>9. RequestInv(r)'
      BY <3>1, <3>2, <3>3, <3>4, <3>7, <3>8 DEF NewRowUnused, NewOnlyInReply,
           HandoutBacked
    <3> QED
      BY <1>0, <3>2, <3>9 DEF TypeOK
  <2>2. CASE Answer(r, "ErrRevokedRefresh") \/ Answer(r, "ErrExpiredRefresh")
    BY <1>4, <2>2 DEF Results
  <2> QED
    BY <1>7, <2>1, <2>2 DEF CheckSession, Pass
<1>9. ASSUME NEW r \in Requests, NEW t \in Tokens, RotateSession(r, t)
      PROVE  \A q \in Requests : RequestInv(q)'
  <2> DEFINE old == req[r].token
             s   == NewSession(req[r].sess.user, req[r].device, req[r].at,
                               RefreshTTL)
  <2>1. /\ old \in Tokens /\ sessions[old] # NoRow /\ old # t
        /\ s \in Row /\ s # NoRow /\ s.user = sessions[old].user
        /\ sessions' = Rotate(sessions, old, t, s)
        /\ root' = [root EXCEPT ![t] = root[old]]
    BY <1>9, RotationFacts
  <2> HIDE DEF s
  <2>2. /\ sessions'[t] = s
        /\ ReplacedAs(sessions'[old], sessions[old], t)
    BY <2>1, RotateFacts DEF TypeOK
  <2>3. root'[t] = root[old] /\ root'[old] = root[old]
    BY <2>1 DEF TypeOK
  <2>4. ~ req[r].dead
    BY <1>9 DEF RotateSession, IInv, DecisionHolds
  <2>5. /\ req' = [req EXCEPT ![r] = req'[r]]
        /\ req'[r].pc = "reply" /\ req'[r].token = old
        /\ ~ req'[r].dead /\ req'[r].new \in {t, None}
    BY <1>9, <2>4, ReturnFields DEF RotateSession, Issue, Answer
  <2>6. HandoutBacked(r)'
    BY <2>1, <2>2, <2>3, <2>5 DEF HandoutBacked, Exists, ReplacedAs, SameIdentity
  <2>7. RequestInv(r)'
    BY <2>5, <2>6 DEF SnapshotAgrees, DecisionHolds, DeadStaysDead,
         NewRowUnused, NewOnlyInReply
  <2> QED
    BY <1>0, <2>5, <2>7 DEF TypeOK
<1>11. ASSUME NEW r \in Requests, NEW c \in Presentable, Logout(r, c)
       PROVE  \A q \in Requests : RequestInv(q)'
  <2>1. /\ req' = [req EXCEPT ![r] = req'[r]]
        /\ req'[r].pc \in {"revoke_hash", "reply"}
        /\ req'[r].dead = FALSE /\ req'[r].new = None
        /\ req'[r].pc = "revoke_hash" => req'[r].result = "none"
    BY <1>11 DEF Logout, Idle, TypeOK
  <2>2. RequestInv(r)'
    BY <2>1 DEF SnapshotAgrees, DecisionHolds, DeadStaysDead, NewRowUnused,
                NewOnlyInReply, HandoutBacked
  <2> QED
    BY <1>0, <2>1, <2>2 DEF TypeOK
<1>13. ASSUME NEW r \in Requests, req' = [req EXCEPT ![r] = Idle]
       PROVE  \A q \in Requests : RequestInv(q)'
  <2>1. req'[r] = Idle /\ \A q \in Requests \ {r} : req'[q] = req[q]
    BY <1>13 DEF TypeOK
  <2>2. RequestInv(r)'
    BY <2>1 DEF Idle, SnapshotAgrees, DecisionHolds, DeadStaysDead,
                NewRowUnused, NewOnlyInReply, HandoutBacked
  <2> QED
    BY <1>0, <2>1, <2>2
<1>14. CASE UNCHANGED req
  BY <1>14, Untouched
<1>15. ASSUME NEW r \in Requests,
              CreateFails(r) \/ RevokeAll(r) \/ RotateFails(r) \/ RevokeHash(r)
       PROVE  \A q \in Requests : RequestInv(q)'
  BY <1>4, <1>15 DEF CreateFails, RevokeAll, RotateFails, RevokeHash, Results
<1> QED
  BY <1>1, <1>2, <1>3, <1>5, <1>6, <1>7, <1>9, <1>11, <1>13, <1>14, <1>15
  DEF Next, Arrive, Serve, Reply, Drop, Tick, vars

-----------------------------------------------------------------------------
(* The table itself.                                                       *)

(* How the rows of one step come about: a new row that is neither replaced *)
(* nor revoked, one row that gets its successor, or some that are revoked. *)
LEMMA TableStep ==
  ASSUME IInv, [Next]_vars
  PROVE  \/ sessions' = sessions
         \/ \E r \in Requests, t \in Tokens : CreateSession(r, t)
         \/ \E r \in Requests, t \in Tokens : RotateSession(r, t)
         \/ \E r \in Requests : RevokeAll(r)
         \/ \E r \in Requests : RevokeHash(r)
BY DEF Next, Arrive, Serve, vars, Login, LoginRefused, CreateFails, Refresh,
       FindSession, CheckSession, RotateFails, Logout, Reply, Drop, Tick

(* What is stored stays stored, under the same successor unless rotated. *)
LEMMA Kept ==
  ASSUME IInv, TypeOK', Evolution, NEW t \in Tokens, Exists(sessions, t)
  PROVE  /\ Exists(sessions', t)
         /\ sessions[t] \in Row /\ sessions'[t] \in Row
         /\ RowEvolves(t) /\ root'[t] = root[t]
BY DEF Evolution, RowEvolves, Exists, IInv, TypeOK, Table

LEMMA ExpiryStep == IInv /\ [Next]_vars => ExpiryBounded'
<1> SUFFICES ASSUME IInv, TypeOK, TypeOK', Evolution, [Next]_vars,
                    NEW t \in Tokens, Exists(sessions', t)
             PROVE  sessions'[t].expires_at <= now' + RefreshTTL
  BY TypeStep, EvolutionStep DEF IInv, ExpiryBounded
<1>1. now \in Nat /\ now' \in Nat /\ now <= now'
  BY DEF TypeOK, Evolution
<1>2. CASE Exists(sessions, t)
  <2>1. /\ sessions'[t].expires_at = sessions[t].expires_at
        /\ sessions[t].expires_at \in Nat
    BY <1>2, Kept DEF RowEvolves, Row
  <2>2. sessions[t].expires_at <= now + RefreshTTL
    BY <1>2 DEF IInv, ExpiryBounded
  <2> QED
    BY <2>1, <2>2, <1>1
<1>3. ASSUME NEW r \in Requests, NEW u \in Tokens, CreateSession(r, u),
             ~ Exists(sessions, t)
      PROVE  sessions'[t].expires_at <= now' + RefreshTTL
  <2>1. sessions'[t] = req[r].sess /\ now' = now
    BY <1>3 DEF CreateSession, Create, Exists, TypeOK, Table
  <2> QED
    BY <1>3, <2>1 DEF CreateSession, IInv, RequestInv, NewRowUnused
<1>4. ASSUME NEW r \in Requests, NEW u \in Tokens, RotateSession(r, u),
             ~ Exists(sessions, t)
      PROVE  sessions'[t].expires_at <= now' + RefreshTTL
  <2> DEFINE s == NewSession(req[r].sess.user, req[r].device, req[r].at,
                             RefreshTTL)
  <2>1. /\ req[r].token \in Tokens /\ sessions[req[r].token] # NoRow
        /\ req[r].token # u /\ s \in Row
        /\ s.expires_at = req[r].at + RefreshTTL
        /\ sessions' = Rotate(sessions, req[r].token, u, s)
    BY <1>4, RotationFacts
  <2> HIDE DEF s
  <2>2. sessions'[u] = s /\ \A x \in Tokens \ {u, req[r].token} :
                              sessions'[x] = sessions[x]
    BY <2>1, RotateFacts DEF TypeOK
  <2>3. t = u
    BY <1>4, <2>1, <2>2 DEF Exists
  <2>4. req[r].at <= now /\ req[r].at \in Nat
    BY <1>4 DEF RotateSession, IInv, RequestInv, DecisionHolds, TypeOK, Request
  <2> QED
    BY <2>1, <2>2, <2>3, <2>4, <1>1
<1>5. ASSUME NEW r \in Requests, RevokeAll(r) \/ RevokeHash(r)
      PROVE  Exists(sessions, t)
  <2>1. req[r].at \in Nat /\ now \in Nat /\ sessions \in Table
    BY DEF TypeOK, Request
  <2> QED
    BY <1>5, <2>1, RevokeAllFacts, RevokeHashFacts DEF RevokeAll, RevokeHash, Exists
<1> QED
  BY <1>2, <1>3, <1>4, <1>5, TableStep

LEMMA HeldStep == IInv /\ [Next]_vars => (\A t \in held : Exists(sessions, t))'
<1> SUFFICES ASSUME IInv, TypeOK, TypeOK', Evolution, [Next]_vars,
                    NEW t \in held'
             PROVE  Exists(sessions', t)
  BY TypeStep, EvolutionStep DEF IInv, Exists
<1>1. held' = held \/ \E r \in Requests : Reply(r)
  BY DEF Next, Arrive, Serve, vars, Login, LoginRefused, CreateFails, Refresh,
         FindSession, CheckSession, RotateFails, Logout, Drop, Tick,
         CreateSession, RevokeAll, RotateSession, RevokeHash
<1>2. Exists(sessions, t)
  BY <1>1 DEF Reply, IInv, RequestInv, HandoutBacked
<1>3. t \in Tokens
  BY DEF TypeOK
<1> QED
  BY <1>2, <1>3, Kept

LEMMA ChainStep == IInv /\ [Next]_vars => ChainWellFormed'
<1> DEFINE Linked(t, n) ==
      /\ n # t
      /\ Exists(sessions', n)
      /\ sessions'[n].user = sessions'[t].user
      /\ root'[n] = root'[t]
      /\ sessions'[t].expires_at <= sessions'[n].expires_at
<1> SUFFICES ASSUME IInv, TypeOK, TypeOK', Evolution, [Next]_vars,
                    NEW t \in Tokens, Exists(sessions', t),
                    sessions'[t].replaced_by # None
             PROVE  Linked(t, sessions'[t].replaced_by)
  BY TypeStep, EvolutionStep DEF IInv, ChainWellFormed, Exists
<1>1. ASSUME Exists(sessions, t), sessions'[t].replaced_by = sessions[t].replaced_by
      PROVE  Linked(t, sessions'[t].replaced_by)
  <2> DEFINE n == sessions[t].replaced_by
  <2>1. /\ n # t /\ Exists(sessions, n) /\ n \in Tokens
        /\ sessions[n].user = sessions[t].user /\ root[n] = root[t]
        /\ sessions[t].expires_at <= sessions[n].expires_at
    BY <1>1 DEF IInv, ChainWellFormed, Exists
  <2> HIDE DEF n
  <2>2. /\ Exists(sessions', n)
        /\ RowEvolves(n) /\ root'[n] = root[n]
        /\ RowEvolves(t) /\ root'[t] = root[t]
    BY <1>1, <2>1, Kept
  <2> QED
    BY <1>1, <2>1, <2>2 DEF RowEvolves, n
<1>2. ASSUME NEW r \in Requests, NEW u \in Tokens, CreateSession(r, u)
      PROVE  Linked(t, sessions'[t].replaced_by)
  <2>1. /\ sessions'[u] = req[r].sess
        /\ \A x \in Tokens \ {u} : sessions'[x] = sessions[x]
    BY <1>2 DEF CreateSession, Create, TypeOK, Table
  <2>2. req[r].sess.replaced_by = None
    BY <1>2 DEF CreateSession, IInv, RequestInv, NewRowUnused
  <2>3. t # u
    BY <2>1, <2>2
  <2> QED
    BY <1>1, <2>1, <2>3 DEF Exists
<1>3. ASSUME NEW r \in Requests, NEW u \in Tokens, RotateSession(r, u)
      PROVE  Linked(t, sessions'[t].replaced_by)
  <2> DEFINE old == req[r].token
             s   == NewSession(req[r].sess.user, req[r].device, req[r].at,
                               RefreshTTL)
  <2>1. /\ old \in Tokens /\ sessions[old] # NoRow /\ old # u
        /\ s \in Row /\ s # NoRow /\ s.user = sessions[old].user
        /\ s.expires_at = req[r].at + RefreshTTL
        /\ s.replaced_by = None
        /\ sessions' = Rotate(sessions, old, u, s)
        /\ root' = [root EXCEPT ![u] = root[old]]
    BY <1>3, RotationFacts
  <2> HIDE DEF s
  <2>2. /\ sessions'[u] = s
        /\ ReplacedAs(sessions'[old], sessions[old], u)
        /\ \A x \in Tokens \ {old, u} : sessions'[x] = sessions[x]
    BY <2>1, RotateFacts DEF TypeOK
  <2>3. t # u
    BY <2>1, <2>2
  <2>4. CASE t = old
    <3>1. root'[u] = root[old] /\ root'[old] = root[old]
      BY <2>1 DEF TypeOK
    <3>2. sessions[old].expires_at <= req[r].at + RefreshTTL
      BY <1>3 DEF RotateSession, IInv, RequestInv, SnapshotAgrees, DecisionHolds
    <3> QED
      BY <2>1, <2>2, <2>4, <3>1, <3>2 DEF ReplacedAs, SameIdentity, Exists
  <2>5. CASE t # old
    BY <1>1, <2>2, <2>3, <2>5 DEF Exists
  <2> QED
    BY <2>4, <2>5
<1>4. ASSUME NEW r \in Requests, RevokeAll(r) \/ RevokeHash(r)
      PROVE  Linked(t, sessions'[t].replaced_by)
  <2>1. req[r].at \in Nat /\ now \in Nat /\ sessions \in Table
    BY DEF TypeOK, Request
  <2>2. \/ sessions'[t] = sessions[t]
        \/ /\ sessions[t] # NoRow
           /\ \E at \in Nat : RevokedAs(sessions'[t], sessions[t], at)
    BY <1>4, <2>1, RevokeAllFacts, RevokeHashFacts DEF RevokeAll, RevokeHash
  <2> QED
    BY <1>1, <2>2 DEF Exists, RevokedAs
<1>5. CASE sessions' = sessions
  BY <1>1, <1>5
<1> QED
  BY <1>2, <1>3, <1>4, <1>5, TableStep

LEMMA CauseStep == IInv /\ [Next]_vars => RevocationHasCause'
<1> DEFINE Caused(t) ==
      \/ t \in loggedOut'
      \/ \E o \in Tokens :
           /\ Exists(sessions', o) /\ sessions'[o].revoked_at # None
           /\ sessions'[o].replaced_by # None
           /\ sessions'[o].user = sessions'[t].user
           /\ sessions'[o].device = sessions'[t].device
<1> SUFFICES ASSUME IInv, TypeOK, TypeOK', Evolution, [Next]_vars,
                    NEW t \in Tokens, Exists(sessions', t),
                    sessions'[t].revoked_at # None
             PROVE  Caused(t)
  BY TypeStep, EvolutionStep
  DEF IInv, RevocationHasCause, Revoked, Replaced, Exists
<1>1. ASSUME Exists(sessions, t), sessions[t].revoked_at # None
      PROVE  Caused(t)
  <2>1. CASE t \in loggedOut
    <3>1. loggedOut \subseteq loggedOut'
      BY DEF Next, Arrive, Serve, vars, Login, LoginRefused, CreateFails,
             Refresh, FindSession, CheckSession, RotateFails, Logout, Reply,
             Drop, Tick, CreateSession, RevokeAll, RotateSession, RevokeHash
    <3> QED
      BY <2>1, <3>1
  <2>2. CASE t \notin loggedOut
    <3>1. PICK o \in Tokens :
            /\ Exists(sessions, o) /\ sessions[o].revoked_at # None
            /\ sessions[o].replaced_by # None
            /\ sessions[o].user = sessions[t].user
            /\ sessions[o].device = sessions[t].device
      BY <1>1, <2>2 DEF IInv, RevocationHasCause, Revoked, Replaced
    <3>2. /\ Exists(sessions', o) /\ RowEvolves(o) /\ RowEvolves(t)
      BY <1>1, <3>1, Kept
    <3> QED
      BY <3>1, <3>2 DEF RowEvolves
  <2> QED
    BY <2>1, <2>2
<1>2. ASSUME NEW r \in Requests, NEW u \in Tokens, CreateSession(r, u)
      PROVE  Caused(t)
  <2>1. /\ sessions'[u] = req[r].sess
        /\ \A x \in Tokens \ {u} : sessions'[x] = sessions[x]
    BY <1>2 DEF CreateSession, Create, TypeOK, Table
  <2>2. req[r].sess.revoked_at = None
    BY <1>2 DEF CreateSession, IInv, RequestInv, NewRowUnused
  <2> QED
    BY <1>1, <2>1, <2>2 DEF Exists
<1>3. ASSUME NEW r \in Requests, NEW u \in Tokens, RotateSession(r, u)
      PROVE  Caused(t)
  <2> DEFINE old == req[r].token
             s   == NewSession(req[r].sess.user, req[r].device, req[r].at,
                               RefreshTTL)
  <2>1. /\ old \in Tokens /\ sessions[old] # NoRow /\ old # u
        /\ s \in Row /\ s.revoked_at = None
        /\ sessions' = Rotate(sessions, old, u, s)
    BY <1>3, RotationFacts
  <2> HIDE DEF s
  <2>2. /\ sessions'[u] = s
        /\ ReplacedAs(sessions'[old], sessions[old], u)
        /\ \A x \in Tokens \ {old, u} : sessions'[x] = sessions[x]
    BY <2>1, RotateFacts DEF TypeOK
  <2> QED
    BY <1>1, <2>1, <2>2 DEF Exists, ReplacedAs
<1>4. ASSUME NEW r \in Requests, RevokeAll(r) PROVE Caused(t)
  <2> DEFINE o == req[r].token
             s == req[r].sess
  <2>1. /\ Exists(sessions, o) /\ o \in Tokens
        /\ s.user = sessions[o].user /\ s.device = sessions[o].device
        /\ sessions[o].replaced_by # None
    BY <1>4 DEF RevokeAll, IInv, RequestInv, SnapshotAgrees, DecisionHolds, Exists
  <2>2. /\ Exists(sessions', o) /\ RowEvolves(o)
        /\ sessions'[o].replaced_by # None
        /\ sessions'[o].user = s.user /\ sessions'[o].device = s.device
    BY <2>1, Kept DEF RowEvolves
  <2>3. req[r].at \in Nat /\ sessions \in Table
    BY DEF TypeOK, Request
  <2>4. CASE sessions' = RevokeAllByUserAndDevice(sessions, s.user, s.device,
                                                  req[r].at)
    <3>1. sessions'[o].revoked_at # None
      BY <2>1, <2>3, <2>4, RowFacts
      DEF RevokeAllByUserAndDevice, RevokeWhere, Exists, Table, Row
    <3>2. \/ sessions'[t] = sessions[t]
          \/ /\ sessions[t] # NoRow
             /\ sessions[t].user = s.user /\ sessions[t].device = s.device
             /\ RevokedAs(sessions'[t], sessions[t], req[r].at)
      BY <2>3, <2>4, RevokeAllFacts
    <3> QED
      BY <1>1, <2>1, <2>2, <3>1, <3>2 DEF Exists, RevokedAs, SameIdentity
  <2>5. CASE sessions' = sessions
    BY <1>1, <2>5
  <2> QED
    BY <1>4, <2>4, <2>5 DEF RevokeAll
<1>5. ASSUME NEW r \in Requests, RevokeHash(r) PROVE Caused(t)
  <2>1. now \in Nat /\ sessions \in Table
    BY DEF TypeOK
  <2>2. CASE /\ sessions' = RevokeByHash(sessions, req[r].token, now)
             /\ loggedOut' = IF Exists(sessions, req[r].token)
                             THEN loggedOut \cup {req[r].token} ELSE loggedOut
    <3>1. \/ sessions'[t] = sessions[t]
          \/ t = req[r].token /\ sessions[t] # NoRow
      BY <2>1, <2>2, RevokeHashFacts
    <3> QED
      BY <1>1, <2>2, <3>1 DEF Exists
  <2>3. CASE sessions' = sessions
    BY <1>1, <2>3
  <2> QED
    BY <1>5, <2>2, <2>3 DEF RevokeHash
<1>6. CASE sessions' = sessions
  BY <1>1, <1>6
<1> QED
  BY <1>2, <1>3, <1>4, <1>5, <1>6, TableStep

-----------------------------------------------------------------------------
(* The theorems.                                                           *)

LEMMA IInvInit == Init => IInv
<1> SUFFICES ASSUME Init PROVE IInv
  OBVIOUS
<1>1. TypeOK
  BY IdleType DEF Init, TypeOK, EmptyTable, Table
<1>2. \A r \in Requests : RequestInv(r)
  BY IdleInv DEF Init
<1> QED
  BY <1>1, <1>2 DEF Init, IInv, ExpiryBounded, ChainWellFormed,
                    RevocationHasCause, Revoked, Exists, EmptyTable

(* The inductive invariant holds in every reachable state of every instance: *)
(* however the statements of concurrent logins, refreshes and logouts        *)
(* interleave, fail or are cut off (service/refresh.go:23-97).               *)
THEOREM Invariance == Spec => []IInv
<1>1. Init => IInv
  BY IInvInit
<1>2. IInv /\ [Next]_vars => IInv'
  BY TypeStep, RequestStep, HeldStep, ExpiryStep, ChainStep, CauseStep DEF IInv
<1> QED
  BY <1>1, <1>2, PTL DEF Spec

(* Every variable keeps its type (repo/postgres/sessions.go:19-101). *)
THEOREM TypeCorrect == Spec => []TypeOK
<1>1. IInv => TypeOK
  BY DEF IInv
<1> QED
  BY <1>1, Invariance, PTL

(* A token revoked, replaced or expired when its refresh arrives never buys *)
(* new tokens (service/refresh.go:41-53).                                   *)
THEOREM NoLateRefresh == Spec => []DeadTokenNeverRefreshes
<1>1. IInv => DeadTokenNeverRefreshes
  BY DEF IInv, RequestInv, DeadTokenNeverRefreshes
<1> QED
  BY <1>1, Invariance, PTL

(* Rotation chains stay within one user and one login and never dangle      *)
(* (repo/postgres/sessions.go:56-81).                                       *)
THEOREM ChainsWellFormed == Spec => []ChainWellFormed
<1>1. IInv => ChainWellFormed
  BY DEF IInv
<1> QED
  BY <1>1, Invariance, PTL

(* Nobody's session is revoked but by its logout or a replay on the same    *)
(* user and device (repo/postgres/sessions.go:84-101).                      *)
THEOREM RevocationsCaused == Spec => []RevocationHasCause
<1>1. IInv => RevocationHasCause
  BY DEF IInv
<1> QED
  BY <1>1, Invariance, PTL

(* Every token on its way to a client or in its hands is stored, and of the *)
(* right user and login (service/refresh.go:76-91).                         *)
THEOREM HandoutsAreBacked == Spec => []HandoutsBacked
<1>1. IInv => HandoutsBacked
  BY DEF IInv, RequestInv, HandoutsBacked
<1> QED
  BY <1>1, Invariance, PTL

(* No step drops a row, changes its owner or expiry, or revives it          *)
(* (repo/postgres/sessions.go:19-101).                                      *)
THEOREM RowsOnlyDie == Spec => LifecycleMonotone
<1>1. IInv /\ [Next]_vars =>
        [\A t \in Tokens : Exists(sessions, t) => RowEvolves(t)]_vars
  BY EvolutionStep DEF Evolution
<1> QED
  BY <1>1, Invariance, PTL DEF Spec, LifecycleMonotone
=============================================================================
