---------------------------- MODULE SessionsRepo ----------------------------
(***************************************************************************)
(* The sessions table of migrations/001_init.up.sql and the statements of  *)
(* internal/repo/postgres/sessions.go, each as a function from the table   *)
(* before the statement to the table after it, with the row NewSession of  *)
(* internal/domain/session.go builds.                                      *)
(*                                                                         *)
(* A row is named by the opaque refresh token it was created for.  The row *)
(* id, the jti and the refresh hash are all fresh and different for every  *)
(* row (gen_random_uuid, uuid.NewString / GenerateOpaqueToken(16), SHA-256 *)
(* of 256 random bits), so one name stands for the three of them.  IP, user *)
(* agent and created_at are written and never read back by the service.    *)
(***************************************************************************)
EXTENDS Naturals

CONSTANTS
  Users,    \* users.id of the registered users
  Devices,  \* values of sessions.device_id
  Tokens,   \* opaque refresh tokens the service can generate
  None,     \* SQL NULL, and the empty string
  NoRow     \* "no such row"

ASSUME NullsAssumption ==
  /\ None \notin Tokens \cup Nat
  /\ NoRow \notin [user : Users, device : Devices, expires_at : Nat,
                   replaced_by : Tokens \cup {None},
                   revoked_at : Nat \cup {None}]

Row == [user        : Users,
        device      : Devices,
        expires_at  : Nat,
        replaced_by : Tokens \cup {None},
        revoked_at  : Nat \cup {None}]

Table == [Tokens -> Row \cup {NoRow}]

EmptyTable == [t \in Tokens |-> NoRow]

(* The row NewSession builds: neither replaced nor revoked. *)
NewSession(u, d, at, ttl) ==
  [user |-> u, device |-> d, expires_at |-> at + ttl,
   replaced_by |-> None, revoked_at |-> None]

-----------------------------------------------------------------------------
Exists(table, t) == t \in Tokens /\ table[t] # NoRow

(* What SELECT ... WHERE refresh_hash = hash returns: NoRow is ErrNotFound. *)
FindByHash(table, hash) == IF hash \in Tokens THEN table[hash] ELSE NoRow

(* INSERT of row s for the token t. *)
Create(table, t, s) == [table EXCEPT ![t] = s]

(* Mutants: the link forgotten, the INSERT forgotten. *)
RotateForgetsLink(table, old, t, s) == Create(table, t, s)
RotateForgetsInsert(table, old, t, s) ==
  [table EXCEPT ![old].replaced_by = t]

(* One transaction: INSERT the new row, then UPDATE ... SET replaced_by      *)
(* WHERE jti = old.  The UPDATE has no other condition: it overwrites an     *)
(* earlier replaced_by and does not look at revoked_at.                      *)
Rotate(table, old, t, s) ==
  [Create(table, t, s) EXCEPT ![old].replaced_by = t]

(* UPDATE ... SET revoked_at = at WHERE revoked_at IS NULL and the selected. *)
RevokeWhere(table, at, Selected(_)) ==
  [t \in Tokens |->
     IF Exists(table, t) /\ table[t].revoked_at = None /\ Selected(t)
     THEN [table[t] EXCEPT !.revoked_at = at]
     ELSE table[t]]

(* Mutant: user_id = $1 forgotten. *)
RevokeAllByDevice(table, u, d, at) ==
  RevokeWhere(table, at, LAMBDA t : table[t].device = d)

RevokeAllByUserAndDevice(table, u, d, at) ==
  RevokeWhere(table, at, LAMBDA t : table[t].user = u /\ table[t].device = d)

(* Mutants: revoked_at IS NULL forgotten, an expiry condition added. *)
RevokeByHashAgain(table, hash, at) ==
  IF Exists(table, hash) THEN [table EXCEPT ![hash].revoked_at = at] ELSE table
RevokeByHashUnexpired(table, hash, at) ==
  RevokeWhere(table, at, LAMBDA t : t = hash /\ at <= table[t].expires_at)

RevokeByHash(table, hash, at) == RevokeWhere(table, at, LAMBDA t : t = hash)
=============================================================================
