------------------------- MODULE SessionsProperties -------------------------
(***************************************************************************)
(* What the refresh sessions of Sessions promise: safety in every          *)
(* interleaving, what holds when requests come one at a time, what must    *)
(* happen eventually, the ledger of single-use tokens they implement, what *)
(* the repository's texts say and the code does not do, and the inductive  *)
(* invariant from which SessionsProofs derives the safety properties.      *)
(***************************************************************************)
EXTENDS Sessions

(* A refresh that arrives with a token already revoked, replaced or expired *)
(* is never answered with new tokens, although it reads the row, decides on *)
(* the copy and writes in three separate steps (service/refresh.go:30-89).  *)
DeadTokenNeverRefreshes ==
  \A r \in Requests : req[r].result = "OK" => ~ req[r].dead

(* replaced_by always leads to a stored row of the same user and the same   *)
(* login, which expires no earlier: neither concurrent rotations of one row *)
(* nor a lost commit answer leave a dangling, crossed or shortened chain    *)
(* (repo/postgres/sessions.go:56-81).                                       *)
ChainWellFormed ==
  \A t \in Tokens :
    LET n == sessions[t].replaced_by
    IN  Exists(sessions, t) /\ n # None =>
          /\ n # t
          /\ Exists(sessions, n)
          /\ sessions[n].user = sessions[t].user
          /\ root[n] = root[t]
          /\ sessions[t].expires_at <= sessions[n].expires_at

Revoked(t)  == Exists(sessions, t) /\ sessions[t].revoked_at # None
Replaced(t) == Exists(sessions, t) /\ sessions[t].replaced_by # None
PastExpiry(t) == Exists(sessions, t) /\ now > sessions[t].expires_at
Usable(t)   == Exists(sessions, t) /\ ~ Revoked(t) /\ ~ Replaced(t)

(* A session is revoked only by its own logout, or where a replaced token   *)
(* of the same user and the same device is revoked with it, as the reuse    *)
(* defence does: it never reaches another user or device                    *)
(* (service/refresh.go:50-52, repo/postgres/sessions.go:84-91).             *)
RevocationHasCause ==
  \A t \in Tokens :
    Revoked(t) =>
      \/ t \in loggedOut
      \/ \E o \in Tokens :
            /\ Revoked(o) /\ Replaced(o)
            /\ sessions[o].user = sessions[t].user
            /\ sessions[o].device = sessions[t].device

(* A token on its way to a client, or in a client's hands, is stored; a     *)
(* refresh hands out a token of the user and the login of the token it was  *)
(* given (service/refresh.go:76-91).                                        *)
HandoutBacked(r) ==
  LET q == req[r]
  IN  q.new # None =>
        /\ Exists(sessions, q.new)
        /\ q.token \in Tokens =>
             /\ Exists(sessions, q.token)
             /\ sessions[q.new].user = sessions[q.token].user
             /\ root[q.new] = root[q.token]

HandoutsBacked ==
  /\ \A t \in held : Exists(sessions, t)
  /\ \A r \in Requests : HandoutBacked(r)

RowEvolves(t) ==
  LET s == sessions[t]
      n == sessions'[t]
  IN  /\ n # NoRow
      /\ n.user = s.user /\ n.device = s.device
      /\ n.expires_at = s.expires_at
      /\ s.revoked_at # None => n.revoked_at = s.revoked_at
      /\ s.replaced_by # None => n.replaced_by # None

(* What no step does to a row: drop it, change whom it belongs to or when   *)
(* it expires, move or clear its revocation, or make it usable again.       *)
LifecycleMonotone ==
  [][\A t \in Tokens : Exists(sessions, t) => RowEvolves(t)]_vars

(* One request at a time: a login has at most one token that can still be   *)
(* used, however often it was refreshed, replayed or its answers lost.      *)
OneUsablePerFamily ==
  \A t, u \in Tokens : Usable(t) /\ Usable(u) /\ root[t] = root[u] => t = u

(* "Reuse detected -> revoke chain -> require fresh login"                  *)
(* (handlers/refresh.go:43): when a client is told of the reuse, no token   *)
(* of that login can be used any more.                                      *)
ReuseRevokesChain ==
  \A r \in Requests :
    req[r].result = "ErrReusedRefresh" =>
      ~ \E t \in Tokens : Usable(t) /\ root[t] = root[req[r].token]

(* "After rotation, old session should not be accepted again"               *)
(* (domain/session.go:100): a row that has its successor is not rotated     *)
(* to another one.                                                          *)
RotatedOnce ==
  [][\A t \in Tokens :
       Replaced(t) => sessions'[t].replaced_by = sessions[t].replaced_by]_vars

(* "revoke refresh session + clear cookie" (README.md:30): a logout that is *)
(* answered 204 leaves the session it was given revoked.                    *)
LogoutRevokes ==
  \A r \in Requests :
    req[r].result = "NoContent" /\ Exists(sessions, req[r].token) =>
      Revoked(req[r].token)

-----------------------------------------------------------------------------
(* What must happen eventually, under FairSpec. *)

(* Every accepted request is answered, one whose transaction fails          *)
(* included: no step of a request waits for another request                 *)
(* (handlers/refresh.go:30-58).                                             *)
Answered == \A r \in Requests : req[r].pc # "idle" ~> req[r].pc = "idle"

(* Without faults a logout takes effect, in whatever order it runs with the *)
(* refreshes of the same token (service/logout.go:10-18).                   *)
LogoutTakesEffect ==
  \A t \in Tokens :
    (\E r \in Requests : req[r].pc = "revoke_hash" /\ req[r].token = t)
      ~> Revoked(t)

(* Without faults a replayed token ends up revoked, whichever other requests *)
(* run between its SELECT and its UPDATE (service/refresh.go:30-52).        *)
ReplayTakesEffect ==
  \A t \in Tokens :
    (\E r \in Requests : req[r].pc = "find" /\ req[r].token = t /\ Replaced(t))
      ~> Revoked(t) \/ PastExpiry(t)

-----------------------------------------------------------------------------
(* Refinement: the requests are the claimants of a ledger of tokens.  The  *)
(* claim is made by the SELECT and becomes firm with the checks.           *)

IssuedTokens  == {t \in Tokens : Exists(sessions, t)}
SpentTokens   == {t \in Tokens : Replaced(t)}
RevokedTokens == {t \in Tokens : Revoked(t)}
ExpiredTokens == {t \in Tokens : PastExpiry(t)}

ClaimsOnTokens ==
  {c \in Requests \X Tokens :
     /\ req[c[1]].token = c[2]
     /\ \/ req[c[1]].pc = "check" /\ ~ Dead(req[c[1]].sess, now)
        \/ req[c[1]].pc = "rotate"}

Ledger == INSTANCE TokenLedger WITH
  Claimants <- Requests,
  issued    <- IssuedTokens,
  spent     <- SpentTokens,
  revoked   <- RevokedTokens,
  expired   <- ExpiredTokens,
  claims    <- ClaimsOnTokens

(* The service keeps a ledger of single-use tokens: it issues a token once,  *)
(* trades one for a successor only on a claim made while it was live, and    *)
(* revokes only at a logout or at a reuse (service/refresh.go, logout.go).   *)
KeepsLedger == Ledger!Spec

-----------------------------------------------------------------------------
(* A login none of whose tokens can be used any more, nor is being traded.  *)
Over(k) ==
  /\ ~ \E t \in Tokens : root[t] = k /\ Usable(t)
  /\ ~ \E c \in ClaimsOnTokens : root[c[2]] = k

(* "require fresh login" (handlers/refresh.go:43): once a login is over, no *)
(* refresh, replay or logout in any interleaving brings it back; only a new *)
(* login gives its client a usable token (service/refresh.go:41-54).        *)
OverForGood ==
  [][\A k \in Tokens : Exists(sessions, k) /\ Over(k) => Over(k)']_vars

(* The login k has one usable token at most, and only that one is traded. *)
Single(k) ==
  \A t \in Tokens : root[t] = k /\ Usable(t) =>
    /\ \A u \in Tokens : root[u] = k /\ Usable(u) => u = t
    /\ \A c \in ClaimsOnTokens : root[c[2]] = k => c[2] = t

(* Two refreshes of the login k are under way with a claim each. *)
Overlap(k) ==
  \E c, d \in ClaimsOnTokens : c # d /\ root[c[2]] = k /\ root[d[2]] = k

(* A login with one usable token gets a second one only in a step in which  *)
(* two of its refreshes overlap: neither lost answers, replays, logouts nor *)
(* refreshes of other logins fork it (service/refresh.go:54-86).            *)
ForkedOnlyByOverlap ==
  [][\A k \in Tokens : ~ Single(k)' => ~ Single(k) \/ Overlap(k)]_vars

(* Two refreshes of the token t are under way with a claim each. *)
Contested(t) ==
  \E r, q \in Requests :
    r # q /\ <<r, t>> \in ClaimsOnTokens /\ <<q, t>> \in ClaimsOnTokens

(* While a client is being told of a reuse, no refresh of that login is     *)
(* under way with a claim.                                                  *)
Quiet ==
  \A r \in Requests :
    req[r].result = "ErrReusedRefresh" =>
      ~ \E c \in ClaimsOnTokens : root[c[2]] = root[req[r].token]

(* The client of a login sends the same device id every time. *)
Steady ==
  \A t, u \in Tokens :
    Exists(sessions, t) /\ Exists(sessions, u) /\ root[t] = root[u] =>
      sessions[t].device = sessions[u].device

-----------------------------------------------------------------------------
(* The inductive invariant.                                                *)

(* What a refresh still knows of its row after reading it: its identity is  *)
(* current, and what was replaced or revoked then is so now.                *)
SnapshotAgrees(r) ==
  LET s   == req[r].sess
      row == sessions[req[r].token]
  IN  req[r].pc \in {"check", "revoke_all", "rotate"} =>
        /\ s # NoRow
        /\ Exists(sessions, req[r].token)
        /\ s.user = row.user
        /\ s.device = row.device
        /\ s.expires_at = row.expires_at
        /\ s.replaced_by # None => row.replaced_by # None
        /\ s.revoked_at # None => row.revoked_at # None

(* What the checks established, when the decision is carried out. *)
DecisionHolds(r) ==
  LET q == req[r]
  IN  /\ q.pc \in {"revoke_all", "rotate"} =>
           q.at <= now /\ q.sess.expires_at <= q.at + RefreshTTL
      /\ q.pc = "revoke_all" => q.sess.replaced_by # None
      /\ q.pc = "rotate" => ~ q.dead /\ ~ Dead(q.sess, q.at)

(* A token dead on arrival stays dead, in the table and in the copy. *)
DeadStaysDead(r) ==
  LET q == req[r]
  IN  q.dead => /\ Exists(sessions, q.token)
                /\ Dead(sessions[q.token], now)
                /\ q.pc = "check" => Dead(q.sess, now)

(* The row a login is about to store is a new one. *)
NewRowUnused(r) ==
  LET q == req[r]
  IN  q.pc = "create" =>
        /\ ~ q.dead /\ q.token = None
        /\ q.sess # NoRow
        /\ q.sess.expires_at <= now + RefreshTTL
        /\ q.sess.replaced_by = None
        /\ q.sess.revoked_at = None

(* Only a request that is being answered has a token to hand out. *)
NewOnlyInReply(r) ==
  req[r].pc # "reply" => req[r].new = None /\ req[r].result = "none"

RequestInv(r) ==
  /\ SnapshotAgrees(r)
  /\ DecisionHolds(r)
  /\ DeadStaysDead(r)
  /\ NewRowUnused(r)
  /\ NewOnlyInReply(r)
  /\ HandoutBacked(r)
  /\ req[r].result = "OK" => ~ req[r].dead

(* No stored row expires later than one created now would. *)
ExpiryBounded ==
  \A t \in Tokens :
    Exists(sessions, t) => sessions[t].expires_at <= now + RefreshTTL

(* What every step preserves (TypeOK alone is not preserved: a rotation     *)
(* writes a row built from the copy, and needs the copy to be one).  It is  *)
(* the type invariant, what the requests know about the table they read     *)
(* earlier, and the safety properties that follow from that                 *)
(* (service/refresh.go:30-89).                                              *)
IInv ==
  /\ TypeOK
  /\ \A r \in Requests : RequestInv(r)
  /\ \A t \in held : Exists(sessions, t)
  /\ ExpiryBounded
  /\ ChainWellFormed
  /\ RevocationHasCause

(* Every stored token belongs to a stored login, of the same user. *)
RootsStored ==
  \A t \in Tokens :
    Exists(sessions, t) =>
      /\ Exists(sessions, root[t])
      /\ sessions[root[t]].user = sessions[t].user

(* A reuse is only reported for a stored token. *)
ReusedStored ==
  \A r \in Requests :
    req[r].result = "ErrReusedRefresh" => Exists(sessions, req[r].token)

(* A cookie that is a token is the token of a stored session. *)
PresentedStored ==
  \A r \in Requests :
    req[r].token \in Tokens => Exists(sessions, req[r].token)

(* What the arguments about the tokens of one login rest on besides IInv. *)
LoginInv == RootsStored /\ ReusedStored /\ PresentedStored
=============================================================================
