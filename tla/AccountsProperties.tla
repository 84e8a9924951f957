------------------------- MODULE AccountsProperties -------------------------
(***************************************************************************)
(* What the accounts of Accounts promise, and the directory they keep.     *)
(***************************************************************************)
EXTENDS Accounts

(* Every variable has its type: the table never holds a clear password.     *)
TypeOK ==
  /\ users \in [Ids -> Row \cup {NoRow}]
  /\ sessions \subseteq Ids
  /\ access \subseteq Ids
  /\ req \in [Requests -> Request]
  /\ deleted \subseteq Ids
  /\ written \subseteq Ids
  /\ known \subseteq Known

(* Whoever was told "201 Created" can log in, writing the e-mail in any case *)
(* of letters, until the account is deleted or seeded over: the lookup finds *)
(* this row and no other, its hash is that of the password, and it is        *)
(* verified (service/register.go:17-50, repo/postgres/users.go:18-38), while *)
(* others register the same address, retry after lost answers, and accounts  *)
(* come and go.                                                              *)
RegisteredCanLogin ==
  \A k \in known :
    \A s \in Spellings :
      /\ FindByEmail([address |-> k.address, spelling |-> s]) = {k.id}
      /\ Proved([user |-> users[k.id], password |-> k.password])

(* What the default policy asks for, in its own words (password.go:16-36). *)
Strong(pw) ==
  LET Runes(class) == {n \in DOMAIN pw : pw[n] = class}
  IN  /\ Len(pw) >= 8
      /\ Runes("lower") # {} /\ Runes("digit") # {} /\ Runes("space") = {}

(* The password of an account the service created satisfies the policy,     *)
(* whichever of its checks meets the password first (password.go:40-87).    *)
AccountsStrong ==
  \A i \in Ids :
    Exists(i) /\ i \notin written => Strong(users[i].password_hash.digest)

(* An access token that outlives its user opens nothing: /me answers with a *)
(* profile only for a user who was there when the request came, and with    *)
(* the profile of that user (handlers/me.go:31-52, users.go:40-67).         *)
ProfileIsOwn ==
  \A r \in Requests :
    req[r].result = "Profile" =>
      /\ ~ req[r].gone
      /\ req[r].user # NoRow
      /\ Exists(req[r].id) => users[req[r].id].email = req[r].user.email

-----------------------------------------------------------------------------
(* The inductive invariant of the proofs.                                  *)

(* A number is used for one row, and an address for one number. *)
RowsDistinct ==
  /\ \A i \in deleted : ~ Exists(i)
  /\ \A i, j \in Ids :
       Exists(i) /\ Exists(j) /\ SameText(users[i].email, users[j].email) => i = j

(* The row of a registration, if the operator has not touched it. *)
RegisteredAs(i, e, pw) ==
  i \in deleted \cup written \/ users[i] = NewUser(e, HashPassword(pw))

(* What the local state q of a request says of the tables. *)
Knows(q) ==
  /\ q.pc # "reply" => q.result = "none"
  /\ q.pc \in {"insert", "find", "check", "create"} =>
       q.email \in Email /\ q.password \in Passwords
  /\ q.pc = "insert" =>
       /\ Strong(q.password)
       /\ q.user = NewUser(q.email, HashPassword(q.password))
  /\ q.pc \in {"check", "create", "me"} => q.id \in Ids
  /\ q.pc = "check" => q.user \in Row /\ SameText(q.user.email, q.email)
  /\ q.pc = "me" => (q.gone => q.id \in deleted)
  /\ q.result = "SignedIn" => q.id \in Ids
  /\ q.result = "Created" =>
       /\ q.id \in Ids /\ q.email \in Email
       /\ q.password \in Passwords /\ Strong(q.password)
       /\ RegisteredAs(q.id, q.email, q.password)
  /\ q.result = "Profile" =>
       /\ q.id \in Ids /\ q.user \in Row /\ ~ q.gone
       /\ IF Exists(q.id) THEN users[q.id].email = q.user.email
          ELSE q.id \in deleted

(* The row of a 201 that a client has is still the one it was told of. *)
KnownStands(k) ==
  /\ Strong(k.password)
  /\ Exists(k.id)
  /\ users[k.id].email.address = k.address
  /\ users[k.id].password_hash = HashPassword(k.password)
  /\ users[k.id].email_verified

(* Why the properties hold in every interleaving: numbers and addresses are *)
(* unique, passwords in the table are strong, and what a request or a       *)
(* client knows of a row stays true while other requests and the operator   *)
(* change the table (service/register.go, service/logging.go, users.go).    *)
AccountsInv ==
  /\ TypeOK
  /\ RowsDistinct
  /\ AccountsStrong
  /\ \A r \in Requests : Knows(req[r])
  /\ \A k \in known : KnownStands(k)

-----------------------------------------------------------------------------
(* Refinement: the rows are the accounts.  A login proves itself with the   *)
(* SELECT, if the row it reads matches, and enters with the INSERT.         *)

Credentials(e, hash) == [address |-> e.address, password |-> hash.digest]

AccountsById ==
  [i \in Ids |-> IF Exists(i)
                THEN Credentials(users[i].email, users[i].password_hash)
                ELSE None]

LoggingIn(r) == req[r].pc \in {"find", "check", "create"}

Shown ==
  [r \in Requests |-> IF LoggingIn(r)
                     THEN Credentials(req[r].email, HashPassword(req[r].password))
                     ELSE None]

ProofsOfLogins ==
  {c \in Requests \X Ids :
     /\ req[c[1]].id = c[2]
     /\ \/ req[c[1]].pc = "check" /\ Proved(req[c[1]])
        \/ req[c[1]].pc = "create"}

Directory == INSTANCE AccountDirectory WITH
  Claimants <- Requests,
  accounts  <- AccountsById,
  closed    <- deleted,
  managed   <- written,
  shown     <- Shown,
  proofs    <- ProofsOfLogins,
  signedIn  <- sessions

(* The service keeps a directory: one account per address however the       *)
(* registrations race, no account changed by a registration, nobody signed  *)
(* in without the password, nobody signed in to an account that is gone     *)
(* (service/register.go, service/logging.go:45-104).                        *)
KeepsDirectory == Directory!Spec
=============================================================================
