------------------------------ MODULE Sessions ------------------------------
(***************************************************************************)
(* Refresh sessions: the login, refresh and logout endpoints of            *)
(* internal/httpserver/handlers and internal/service, run by any number of *)
(* concurrent HTTP requests (goroutines of one or several instances) over  *)
(* the shared sessions table.                                              *)
(*                                                                         *)
(* Every request is a process with a program counter.  A step is one       *)
(* statement against the database or the local code between two of them,   *)
(* so that other requests run between the SELECT of a refresh, the checks  *)
(* on the row it returned and the transaction that rotates it.             *)
(***************************************************************************)
EXTENDS SessionsRepo

CONSTANTS
  Requests,       \* request slots: how many requests may be in flight
  UnknownDevice,  \* the device id "unknown" of a refresh with no X-Device-ID
  Junk,           \* a cookie value that was never issued
  RefreshTTL,     \* cfg.RefreshTTL, in clock ticks
  MaxTime,        \* bound on the clock
  Faults          \* "db": a statement may fail; "drop": a request may die

ASSUME SessionsAssumption ==
  /\ UnknownDevice \in Devices
  /\ Junk \notin Tokens \cup {None}
  /\ RefreshTTL \in Nat
  /\ MaxTime \in Nat
  /\ Faults \subseteq {"db", "drop"}

VARIABLES
  sessions,   \* the sessions table
  req,        \* req[r]: the local state of the request in slot r
  now,        \* the clock
  held,       \* tokens some client has received in a refresh_token cookie
  root,       \* history: root[t] is the login token that t descends from
  loggedOut   \* history: tokens whose own row was revoked by a logout

vars == <<sessions, req, now, held, root, loggedOut>>

-----------------------------------------------------------------------------
(* Local state of a request.                                               *)

PCs == {"idle", "create",                          \* login
        "find", "check", "revoke_all", "rotate",   \* refresh
        "revoke_hash",                             \* logout
        "reply"}

Results == {"none", "OK", "NoContent", "Internal", "BadRequest",
            "ErrInvalidCredentials", "ErrEmailNotVerified",
            "ErrMissingRefresh", "ErrInvalidRefresh", "ErrRevokedRefresh",
            "ErrExpiredRefresh", "ErrReusedRefresh"}

Cookies == Tokens \cup {None, Junk}

Request ==
  [pc     : PCs,
   token  : Cookies,               \* the cookie it presents
   device : Devices,               \* device id it came with
   sess   : Row \cup {NoRow},      \* row it read, or is about to create
   at     : Nat,                   \* the variable now of Refresh
   new    : Tokens \cup {None},    \* refresh token it hands out
   result : Results,               \* outcome the handler will report
   dead   : BOOLEAN]               \* history: token was dead on arrival

Idle ==
  [pc |-> "idle", token |-> None, device |-> UnknownDevice, sess |-> NoRow,
   at |-> 0, new |-> None, result |-> "none", dead |-> FALSE]

(* Mutant: the default of an absent header forgotten. *)
DeviceOfRaw(header) == header

(* The device id the refresh handler uses for an X-Device-ID header.  *)
DeviceOf(header) == IF header = None THEN UnknownDevice ELSE header

(* Refresh refuses the row s at time at (revoked, expired or replaced). *)
Dead(s, at) ==
  s.revoked_at # None \/ at > s.expires_at \/ s.replaced_by # None

Fresh(t) == sessions[t] = NoRow

(* The service returns to the handler; its local variables are gone. *)
Return(r, result, t) ==
  req' = [req EXCEPT ![r] =
    [Idle EXCEPT !.pc = "reply", !.result = result, !.new = t,
                 !.token = req[r].token, !.dead = req[r].dead]]

Answer(r, result) == Return(r, result, None)
Issue(r, t)       == Return(r, "OK", t)

-----------------------------------------------------------------------------
(* POST /login                                                             *)

(* Credentials are right, tokens are generated, NewSession built the row.  *)
Login(r, u, d) ==
  /\ req[r].pc = "idle"
  /\ req' = [req EXCEPT ![r] =
       [Idle EXCEPT !.pc = "create", !.device = d,
                    !.sess = NewSession(u, d, now, RefreshTTL)]]
  /\ UNCHANGED <<sessions, now, held, root, loggedOut>>

(* Login stops before it has a session: a malformed request, wrong         *)
(* credentials, an unverified e-mail, or an error of the user lookup, the  *)
(* signer, the random source or NewSession.                                *)
LoginRefused(r) ==
  /\ req[r].pc = "idle"
  /\ \E e \in {"BadRequest", "ErrInvalidCredentials", "ErrEmailNotVerified",
                "Internal"} :
       req' = [req EXCEPT ![r] = [Idle EXCEPT !.pc = "reply", !.result = e]]
  /\ UNCHANGED <<sessions, now, held, root, loggedOut>>

CreateSession(r, t) ==
  /\ req[r].pc = "create"
  /\ Fresh(t)
  /\ sessions' = Create(sessions, t, req[r].sess)
  /\ root' = [root EXCEPT ![t] = t]
  /\ \/ Issue(r, t)
     \/ "db" \in Faults /\ Answer(r, "Internal")  \* stored, answer lost
  /\ UNCHANGED <<now, held, loggedOut>>

(* The INSERT failed. *)
CreateFails(r) ==
  /\ req[r].pc = "create"
  /\ Answer(r, "Internal")
  /\ UNCHANGED <<sessions, now, held, root, loggedOut>>

-----------------------------------------------------------------------------
(* POST /refresh                                                           *)

(* cookie: the refresh_token cookie; header: X-Device-ID, None if absent. *)
Refresh(r, cookie, header) ==
  /\ req[r].pc = "idle"
  /\ LET s == FindByHash(sessions, cookie)
     IN  req' = [req EXCEPT ![r] =
           [Idle EXCEPT
              !.pc     = IF cookie = None THEN "reply" ELSE "find",
              !.result = IF cookie = None THEN "ErrMissingRefresh" ELSE "none",
              !.token  = cookie,
              !.device = DeviceOf(header),
              !.dead   = s # NoRow /\ Dead(s, now)]]
  /\ UNCHANGED <<sessions, now, held, root, loggedOut>>

FindSession(r) ==
  /\ req[r].pc = "find"
  /\ LET s == FindByHash(sessions, req[r].token)
     IN  \/ s = NoRow /\ Answer(r, "ErrInvalidRefresh")
         \/ /\ s # NoRow
            /\ req' = [req EXCEPT ![r] = [@ EXCEPT !.pc = "check", !.sess = s]]
         \/ "db" \in Faults /\ Answer(r, "Internal")
  /\ UNCHANGED <<sessions, now, held, root, loggedOut>>

Pass(r, label) == req' = [req EXCEPT ![r] = [@ EXCEPT !.pc = label, !.at = now]]

(* Mutants: the expiry check forgotten, the reuse check forgotten. *)
CheckForgetsExpiry(r) ==
  /\ req[r].pc = "check"
  /\ LET s == req[r].sess
     IN  \/ s.revoked_at # None /\ Answer(r, "ErrRevokedRefresh")
         \/ s.revoked_at = None /\ s.replaced_by # None /\ Pass(r, "revoke_all")
         \/ s.revoked_at = None /\ s.replaced_by = None /\ Pass(r, "rotate")
  /\ UNCHANGED <<sessions, now, held, root, loggedOut>>

CheckForgetsReuse(r) ==
  /\ req[r].pc = "check"
  /\ LET s == req[r].sess
     IN  \/ s.revoked_at # None /\ Answer(r, "ErrRevokedRefresh")
         \/ s.revoked_at = None /\ now > s.expires_at
            /\ Answer(r, "ErrExpiredRefresh")
         \/ s.revoked_at = None /\ now <= s.expires_at /\ Pass(r, "rotate")
  /\ UNCHANGED <<sessions, now, held, root, loggedOut>>

(* The basic checks and the reuse check, on the row that was read. *)
CheckSession(r) ==
  /\ req[r].pc = "check"
  /\ LET s == req[r].sess
     IN  \/ s.revoked_at # None /\ Answer(r, "ErrRevokedRefresh")
         \/ /\ s.revoked_at = None
            /\ now > s.expires_at
            /\ Answer(r, "ErrExpiredRefresh")
         \/ /\ s.revoked_at = None
            /\ now <= s.expires_at
            /\ s.replaced_by # None
            /\ Pass(r, "revoke_all")
         \/ ~ Dead(s, now) /\ Pass(r, "rotate")
  /\ UNCHANGED <<sessions, now, held, root, loggedOut>>

(* Mutants: only the presented row is revoked; a statement that changes no   *)
(* row is waited for.                                                       *)
RevokeAllPresentedOnly(r) ==
  /\ req[r].pc = "revoke_all"
  /\ sessions' = RevokeByHash(sessions, req[r].token, req[r].at)
  /\ Answer(r, "ErrReusedRefresh")
  /\ UNCHANGED <<now, held, root, loggedOut>>

RevokeAllWaits(r) ==
  /\ req[r].pc = "revoke_all"
  /\ sessions' = RevokeAllByUserAndDevice(sessions, req[r].sess.user,
                    req[r].sess.device, req[r].at)
  /\ sessions' # sessions
  /\ Answer(r, "ErrReusedRefresh")
  /\ UNCHANGED <<now, held, root, loggedOut>>

(* Reuse was detected: revoke the device, whose error is dropped. *)
RevokeAll(r) ==
  /\ req[r].pc = "revoke_all"
  /\ LET s == req[r].sess
     IN  \/ sessions' =
              RevokeAllByUserAndDevice(sessions, s.user, s.device, req[r].at)
         \/ "db" \in Faults /\ UNCHANGED sessions
  /\ Answer(r, "ErrReusedRefresh")
  /\ UNCHANGED <<now, held, root, loggedOut>>

(* Mutant: the error of the rotation is dropped. *)
RotateDropsError(r, t) ==
  /\ req[r].pc = "rotate"
  /\ Fresh(t)
  /\ Issue(r, t)
  /\ UNCHANGED <<sessions, now, held, root, loggedOut>>

RotateSession(r, t) ==
  /\ req[r].pc = "rotate"
  /\ Fresh(t)
  /\ LET s == req[r].sess
     IN  sessions' = Rotate(sessions, req[r].token, t,
                       NewSession(s.user, req[r].device, req[r].at, RefreshTTL))
  /\ root' = [root EXCEPT ![t] = root[req[r].token]]
  /\ \/ Issue(r, t)
     \/ "db" \in Faults /\ Answer(r, "Internal")  \* committed, answer lost
  /\ UNCHANGED <<now, held, loggedOut>>

(* SignAccess, GenerateOpaqueToken or ParseIP failed, or the transaction   *)
(* was rolled back.                                                        *)
RotateFails(r) ==
  /\ req[r].pc = "rotate"
  /\ Answer(r, "Internal")
  /\ UNCHANGED <<sessions, now, held, root, loggedOut>>

-----------------------------------------------------------------------------
(* POST /logout                                                            *)

Logout(r, cookie) ==
  /\ req[r].pc = "idle"
  /\ req' = [req EXCEPT ![r] =
       [Idle EXCEPT
          !.pc     = IF cookie = None THEN "reply" ELSE "revoke_hash",
          !.result = IF cookie = None THEN "NoContent" ELSE "none",
          !.token  = cookie]]
  /\ UNCHANGED <<sessions, now, held, root, loggedOut>>

(* The error of the UPDATE is dropped. *)
RevokeHash(r) ==
  /\ req[r].pc = "revoke_hash"
  /\ LET t == req[r].token
     IN  \/ /\ sessions' = RevokeByHash(sessions, t, now)
            /\ loggedOut' = IF Exists(sessions, t)
                            THEN loggedOut \cup {t} ELSE loggedOut
         \/ "db" \in Faults /\ UNCHANGED <<sessions, loggedOut>>
  /\ Answer(r, "NoContent")
  /\ UNCHANGED <<now, held, root>>

-----------------------------------------------------------------------------
(* The response reaches the client, with its Set-Cookie if there is one. *)
Reply(r) ==
  /\ req[r].pc = "reply"
  /\ held' = held \cup ({req[r].new} \ {None})
  /\ req' = [req EXCEPT ![r] = Idle]
  /\ UNCHANGED <<sessions, now, root, loggedOut>>

(* The request dies where it stands: its instance crashes, the 10 s limit  *)
(* expires, the client goes away, the response is lost.                    *)
Drop(r) ==
  /\ "drop" \in Faults
  /\ req[r].pc # "idle"
  /\ req' = [req EXCEPT ![r] = Idle]
  /\ UNCHANGED <<sessions, now, held, root, loggedOut>>

Tick ==
  /\ now < MaxTime
  /\ now' = now + 1
  /\ UNCHANGED <<sessions, req, held, root, loggedOut>>

-----------------------------------------------------------------------------
Init ==
  /\ sessions = EmptyTable
  /\ req = [r \in Requests |-> Idle]
  /\ now = 0
  /\ held = {}
  /\ root = [t \in Tokens |-> None]
  /\ loggedOut = {}

(* A client presents any token it was ever given, a made-up one or none. *)
Presentable == held \cup {None, Junk}

Arrive(r) ==
  \/ \E u \in Users, d \in Devices : Login(r, u, d)
  \/ LoginRefused(r)
  \/ \E c \in Presentable, h \in Devices \cup {None} : Refresh(r, c, h)
  \/ \E c \in Presentable : Logout(r, c)

(* The steps of a request the server has accepted. *)
Serve(r) ==
  \/ \E t \in Tokens : CreateSession(r, t) \/ RotateSession(r, t)
  \/ CreateFails(r)
  \/ FindSession(r)
  \/ CheckSession(r)
  \/ RevokeAll(r)
  \/ RotateFails(r)
  \/ RevokeHash(r)
  \/ Reply(r)

Next == Tick \/ \E r \in Requests : Arrive(r) \/ Serve(r) \/ Drop(r)

Spec == Init /\ [][Next]_vars

(* The runtime schedules every goroutine and the 10 s limits of the router  *)
(* and the database driver end every statement: an accepted request goes on. *)
FairSpec == Spec /\ \A r \in Requests : WF_vars(Serve(r))

-----------------------------------------------------------------------------
(* Every variable has its type: no request holds a half-built row, and the  *)
(* table never holds a token the service did not generate.                  *)
TypeOK ==
  /\ sessions \in Table
  /\ req \in [Requests -> Request]
  /\ now \in Nat
  /\ held \subseteq Tokens
  /\ root \in [Tokens -> Tokens \cup {None}]
  /\ loggedOut \subseteq Tokens
=============================================================================
