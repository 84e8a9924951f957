------------------------------ MODULE Accounts ------------------------------
(***************************************************************************)
(* Accounts: POST /register, the credentials part of POST /login, and      *)
(* GET /me with its middleware, run by concurrent requests over the users  *)
(* table, which an operator may change under them: make seed-user writes   *)
(* an account, and a row is deleted by hand (its sessions cascade).        *)
(*                                                                         *)
(* Sessions has the sessions of an account in detail.  Here they are the   *)
(* set of users that have one, because login's INSERT needs its user.      *)
(***************************************************************************)
EXTENDS PasswordPolicy

CONSTANTS
  Requests,   \* request slots
  Ids,        \* users.id values the database can generate
  Addresses,  \* e-mail addresses, but for the case of their letters
  Spellings,  \* ways to write one address that differ in case only
  Passwords,  \* the passwords in play, sequences of Classes
  Malformed,  \* an e-mail that net/mail does not parse
  Blank,      \* an empty e-mail, or a body that is not JSON
  None,       \* no user, no e-mail
  NoRow,      \* "no such row"
  Faults      \* "db": a statement may fail; "drop": a request may die

Email == [address : Addresses, spelling : Spellings]
Row   == [email : Email, password_hash : Hash, email_verified : BOOLEAN]

ASSUME AccountsAssumption ==
  /\ Passwords \subseteq Seq(Classes)
  /\ {Malformed, Blank, None} \cap Email = {}
  /\ None \notin Ids \cup [address : Addresses, password : Seq(Classes)]
  /\ NoRow \notin Row
  /\ Faults \subseteq {"db", "drop"}

VARIABLES
  users,     \* the users table
  sessions,  \* users.id with a row in the sessions table
  access,    \* users.id for whom a client has an unexpired access token
  req,       \* req[r]: the local state of the request in slot r
  deleted,   \* history: users.id of deleted rows
  written,   \* history: users.id of present rows written by the operator
  known      \* history: the 201s clients got for rows since left alone

vars == <<users, sessions, access, req, deleted, written, known>>

-----------------------------------------------------------------------------
PCs == {"idle", "insert", "find", "check", "create", "me", "reply"}

Results == {"none", "Created", "SignedIn", "Profile", "BadRequest",
            "ErrInvalidEmail", "ErrEmptyPassword", "ErrPasswordHasSpace",
            "ErrPasswordTooShort", "ErrPasswordNoLower", "ErrPasswordNoDigit",
            "ErrEmailAlreadyTaken", "InvalidInput", "ErrInvalidCredentials",
            "ErrEmailNotVerified", "Unauthorized", "Internal"}

Request ==
  [pc       : PCs,
   email    : Email \cup {None},
   password : Seq(Classes),
   id       : Ids \cup {None},     \* row it read or wrote, subject of its token
   user     : Row \cup {NoRow},    \* copy of the row, or the row to write
   result   : Results,
   gone     : BOOLEAN]             \* history: id was deleted on arrival

Idle == [pc |-> "idle", email |-> None, password |-> << >>, id |-> None,
         user |-> NoRow, result |-> "none", gone |-> FALSE]

Known == [id : Ids, address : Addresses, password : Passwords]

Exists(i) == users[i] # NoRow
Fresh(i)  == ~ Exists(i) /\ i \notin deleted

(* Mutant: TEXT instead of CITEXT. *)
SameBytes(e, f) == e = f

(* email is CITEXT: letters match in either case. *)
SameText(e, f) == e.address = f.address

(* SELECT ... WHERE email = $1; the unique index allows one row at most. *)
FindByEmail(e) == {i \in Ids : Exists(i) /\ SameText(users[i].email, e)}

(* NewUser, and verifyNow, which the handler sets. *)
NewUser(e, hash) ==
  [email |-> e, password_hash |-> hash, email_verified |-> TRUE]

Become(r, q) == req' = [req EXCEPT ![r] = q]

(* The service returns to the handler; its local variables are gone. *)
Return(r, result, q) ==
  Become(r, [q EXCEPT !.pc = "reply", !.result = result])

Answer(r, result) == Return(r, result, Idle)

(* An arriving request that is not refused goes on at label. *)
Accept(r, verdict, label, q) ==
  Become(r, IF verdict = "ok" THEN [q EXCEPT !.pc = label]
            ELSE [Idle EXCEPT !.pc = "reply", !.result = verdict])

-----------------------------------------------------------------------------
(* POST /register                                                          *)

(* Mutant: the password policy is not consulted. *)
RegisterUnvalidated(r, raw, pw) ==
  /\ req[r].pc = "idle" /\ raw \in Email /\ pw # << >>
  /\ Become(r, [Idle EXCEPT !.pc = "insert", !.email = raw, !.password = pw,
                            !.user = NewUser(raw, HashPassword(pw))])
  /\ UNCHANGED <<users, sessions, access, deleted, written, known>>

Register(r, raw, pw) ==
  /\ req[r].pc = "idle"
  /\ LET verdict == IF raw = Blank \/ pw = << >> THEN "BadRequest"
                    ELSE IF raw = Malformed THEN "ErrInvalidEmail"
                    ELSE ValidatePassword(DefaultPolicy, pw)
     IN  Accept(r, verdict, "insert",
           [Idle EXCEPT !.email = raw, !.password = pw,
                        !.user = NewUser(raw, HashPassword(pw))])
  /\ UNCHANGED <<users, sessions, access, deleted, written, known>>

(* Mutant: INSERT ... ON CONFLICT DO UPDATE. *)
InsertOrUpdate(r, i) ==
  /\ req[r].pc = "insert"
  /\ LET q == req[r]
         taken == FindByEmail(q.email)
     IN  /\ IF taken = {} THEN Fresh(i) ELSE i \in taken
         /\ users' = [users EXCEPT ![i] = q.user]
         /\ Return(r, "Created", [q EXCEPT !.id = i, !.user = NoRow])
  /\ UNCHANGED <<sessions, access, deleted, written, known>>

InsertUser(r, i) ==
  /\ req[r].pc = "insert"
  /\ FindByEmail(req[r].email) = {}
  /\ Fresh(i)
  /\ users' = [users EXCEPT ![i] = req[r].user]
  /\ \/ Return(r, "Created", [req[r] EXCEPT !.id = i, !.user = NoRow])
     \/ "db" \in Faults /\ Answer(r, "InvalidInput")  \* stored, answer lost
  /\ UNCHANGED <<sessions, access, deleted, written, known>>

(* The unique index refuses the row (23505). *)
InsertConflict(r) ==
  /\ req[r].pc = "insert"
  /\ FindByEmail(req[r].email) # {}
  /\ Answer(r, "ErrEmailAlreadyTaken")
  /\ UNCHANGED <<users, sessions, access, deleted, written, known>>

(* HashPassword or the INSERT failed; the handler's default is a 400. *)
InsertFails(r) ==
  /\ "db" \in Faults
  /\ req[r].pc = "insert"
  /\ Answer(r, "InvalidInput")
  /\ UNCHANGED <<users, sessions, access, deleted, written, known>>

-----------------------------------------------------------------------------
(* POST /login                                                             *)

Login(r, raw, pw) ==
  /\ req[r].pc = "idle"
  /\ LET verdict == IF raw = Blank \/ pw = << >> THEN "BadRequest"
                    ELSE IF raw = Malformed THEN "ErrInvalidCredentials"
                    ELSE "ok"
     IN  Accept(r, verdict, "find",
                [Idle EXCEPT !.email = raw, !.password = pw])
  /\ UNCHANGED <<users, sessions, access, deleted, written, known>>

FindUser(r) ==
  /\ req[r].pc = "find"
  /\ LET found == FindByEmail(req[r].email)
     IN  \/ found = {} /\ Answer(r, "ErrInvalidCredentials")
         \/ \E i \in found :
              Become(r, [req[r] EXCEPT !.pc = "check", !.id = i,
                                       !.user = users[i]])
         \/ "db" \in Faults /\ Answer(r, "Internal")
  /\ UNCHANGED <<users, sessions, access, deleted, written, known>>

(* The credentials are compared with the copy of the row. *)
Proved(q) ==
  CheckPassword(q.user.password_hash, q.password) /\ q.user.email_verified

CheckCredentials(r) ==
  /\ req[r].pc = "check"
  /\ LET q == req[r]
     IN  IF ~ CheckPassword(q.user.password_hash, q.password)
         THEN Answer(r, "ErrInvalidCredentials")
         ELSE IF ~ q.user.email_verified THEN Answer(r, "ErrEmailNotVerified")
         ELSE Become(r, [q EXCEPT !.pc = "create"])
  /\ UNCHANGED <<users, sessions, access, deleted, written, known>>

(* sessions.user_id REFERENCES users: the user may be gone by now. *)
CreateSession(r) ==
  /\ req[r].pc = "create"
  /\ IF Exists(req[r].id)
     THEN /\ sessions' = sessions \cup {req[r].id}
          /\ \/ Return(r, "SignedIn", [Idle EXCEPT !.id = req[r].id])
             \/ "db" \in Faults /\ Answer(r, "Internal")  \* answer lost
     ELSE Answer(r, "Internal") /\ UNCHANGED sessions
  /\ UNCHANGED <<users, access, deleted, written, known>>

(* The signer, the random source or the INSERT failed. *)
CreateFails(r) ==
  /\ "db" \in Faults
  /\ req[r].pc = "create"
  /\ Answer(r, "Internal")
  /\ UNCHANGED <<users, sessions, access, deleted, written, known>>

-----------------------------------------------------------------------------
(* GET /me                                                                 *)

(* The middleware accepted an access token of user i. *)
Me(r, i) ==
  /\ req[r].pc = "idle"
  /\ i \in access
  /\ Become(r, [Idle EXCEPT !.pc = "me", !.id = i, !.gone = i \in deleted])
  /\ UNCHANGED <<users, sessions, access, deleted, written, known>>

(* No Authorization header, or one that VerifyAccess refuses. *)
MeRefused(r) ==
  /\ req[r].pc = "idle"
  /\ Become(r, [Idle EXCEPT !.pc = "reply", !.result = "Unauthorized"])
  /\ UNCHANGED <<users, sessions, access, deleted, written, known>>

(* Mutant: the claims of the token are believed. *)
FindByIDInClaims(r) ==
  /\ req[r].pc = "me"
  /\ Return(r, "Profile", req[r])
  /\ UNCHANGED <<users, sessions, access, deleted, written, known>>

(* A missing row is pgx.ErrNoRows, which the handler does not know: its     *)
(* default is a 500.                                                        *)
FindByID(r) ==
  /\ req[r].pc = "me"
  /\ LET i == req[r].id
     IN  \/ /\ Exists(i)
            /\ Return(r, "Profile", [req[r] EXCEPT !.user = users[i]])
         \/ ~ Exists(i) /\ Answer(r, "Internal")
         \/ "db" \in Faults /\ Answer(r, "Internal")
  /\ UNCHANGED <<users, sessions, access, deleted, written, known>>

-----------------------------------------------------------------------------
(* Mutant: the status of the answer is not looked at. *)
ReplyAlwaysGrants(r) ==
  /\ req[r].pc = "reply"
  /\ access' = access \cup {req[r].id}
  /\ Become(r, Idle)
  /\ UNCHANGED <<users, sessions, deleted, written, known>>

(* The response reaches the client. *)
Reply(r) ==
  /\ req[r].pc = "reply"
  /\ LET q == req[r]
     IN  /\ access' = IF q.result = "SignedIn" THEN access \cup {q.id} ELSE access
         /\ known' = known \cup
              {k \in Known : /\ q.result = "Created" /\ k.id = q.id
                             /\ k.address = q.email.address
                             /\ k.password = q.password
                             /\ q.id \notin deleted \cup written}
  /\ Become(r, Idle)
  /\ UNCHANGED <<users, sessions, deleted, written>>

(* The request dies where it stands, as in Sessions. *)
Drop(r) ==
  /\ "drop" \in Faults
  /\ req[r].pc # "idle"
  /\ Become(r, Idle)
  /\ UNCHANGED <<users, sessions, access, deleted, written, known>>

(* ACCESS_TTL passes for the tokens of i. *)
ExpireAccess(i) ==
  /\ i \in access
  /\ access' = access \ {i}
  /\ UNCHANGED <<users, sessions, req, deleted, written, known>>

-----------------------------------------------------------------------------
(* The operator.                                                           *)

Forgotten(i) == {k \in known : k.id # i}

(* make seed-user: INSERT ... ON CONFLICT (email) DO UPDATE; any password. *)
SeedUser(e, pw, i) ==
  /\ pw # << >>
  /\ LET taken == FindByEmail(e)
     IN  IF taken = {} THEN Fresh(i) ELSE i \in taken
  /\ users' = [users EXCEPT ![i] =
       NewUser(IF Exists(i) THEN users[i].email ELSE e, HashPassword(pw))]
  /\ written' = written \cup {i}
  /\ known' = Forgotten(i)
  /\ UNCHANGED <<sessions, access, req, deleted>>

(* DELETE FROM users; sessions go with it (ON DELETE CASCADE). *)
DeleteUser(i) ==
  /\ Exists(i)
  /\ users' = [users EXCEPT ![i] = NoRow]
  /\ sessions' = sessions \ {i}
  /\ deleted' = deleted \cup {i}
  /\ written' = written \ {i}
  /\ known' = Forgotten(i)
  /\ UNCHANGED <<access, req>>

-----------------------------------------------------------------------------
Init ==
  /\ users = [i \in Ids |-> NoRow]
  /\ sessions = {} /\ access = {}
  /\ req = [r \in Requests |-> Idle]
  /\ deleted = {} /\ written = {} /\ known = {}

Arrive(r) ==
  \/ \E raw \in Email \cup {Malformed, Blank}, pw \in Passwords :
       Register(r, raw, pw) \/ Login(r, raw, pw)
  \/ \E i \in Ids : Me(r, i)
  \/ MeRefused(r)

Serve(r) ==
  \/ \E i \in Ids : InsertUser(r, i)
  \/ InsertConflict(r) \/ InsertFails(r)
  \/ FindUser(r) \/ CheckCredentials(r) \/ CreateSession(r) \/ CreateFails(r)
  \/ FindByID(r)
  \/ Reply(r)

Operate(i) ==
  \/ \E e \in Email, pw \in Passwords : SeedUser(e, pw, i)
  \/ DeleteUser(i)

Next ==
  \/ \E r \in Requests : Arrive(r) \/ Serve(r) \/ Drop(r)
  \/ \E i \in Ids : ExpireAccess(i) \/ Operate(i)

Spec == Init /\ [][Next]_vars
=============================================================================
