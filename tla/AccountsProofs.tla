--------------------------- MODULE AccountsProofs ---------------------------
(***************************************************************************)
(* Proofs of the invariants of Accounts, for any number of requests,       *)
(* numbers, addresses, spellings and passwords, and any of the faults.     *)
(***************************************************************************)
EXTENDS AccountsProperties, TLAPS

USE AccountsAssumption

-----------------------------------------------------------------------------
(* Records and their parts.                                                *)

LEMMA IdleFacts == Idle \in Request /\ Knows(Idle)
BY DEF Idle, Request, PCs, Results, Knows

LEMMA NewUserFacts ==
  ASSUME NEW e \in Email, NEW pw \in Seq(Classes)
  PROVE  LET u == NewUser(e, HashPassword(pw))
         IN  /\ u \in Row /\ u # NoRow
             /\ u.email = e /\ u.password_hash.digest = pw /\ u.email_verified
             /\ u.password_hash = HashPassword(pw)
<1> DEFINE u == NewUser(e, HashPassword(pw))
<1>1. u = [email |-> e, password_hash |-> [digest |-> pw], email_verified |-> TRUE]
  BY DEF NewUser, HashPassword, preKDF
<1>2. [digest |-> pw] \in Hash
  BY DEF Hash
<1>3. u \in Row
  BY <1>1, <1>2 DEF Row
<1>4. u # NoRow
  BY <1>3 DEF AccountsAssumption
<1> QED
  BY <1>1, <1>3, <1>4 DEF HashPassword, preKDF

(* The checks of ValidatePassword, in whichever order, leave the strong     *)
(* passwords only.                                                          *)
LEMMA PolicyIsStrong ==
  ASSUME NEW pw \in Seq(Classes), ValidatePassword(DefaultPolicy, pw) = "ok"
  PROVE  Strong(pw)
<1>1. ~ Has(pw, "space") /\ Len(pw) >= 8 /\ Has(pw, "lower") /\ Has(pw, "digit")
  BY DEF ValidatePassword, DefaultPolicy
<1> QED
  BY <1>1 DEF Strong, Has

LEMMA StrongIsNotEmpty ==
  ASSUME NEW pw \in Seq(Classes), Strong(pw)
  PROVE  pw # << >>
BY DEF Strong

(* A step that changes the request in slot r alone. *)
LEMMA OneRequest ==
  ASSUME AccountsInv, NEW r \in Requests, NEW q \in Request, Become(r, q), Knows(q),
         UNCHANGED <<users, deleted, written>>
  PROVE  /\ req' \in [Requests -> Request]
         /\ \A x \in Requests : Knows(req[x])'
<1>1. req' \in [Requests -> Request] /\ req'[r] = q
      /\ \A x \in Requests \ {r} : req'[x] = req[x]
  BY DEF AccountsInv, TypeOK, Become
<1>2. ASSUME NEW p, Knows(p)
      PROVE  Knows(p)'
  BY <1>2 DEF Knows, RegisteredAs, Exists
<1>3. ASSUME NEW x \in Requests
      PROVE  Knows(req[x])'
  <2>1. Knows(req'[x])
    BY <1>1 DEF AccountsInv
  <2> QED
    BY <2>1 DEF Knows, RegisteredAs, Exists
<1> QED
  BY <1>1, <1>3

-----------------------------------------------------------------------------
(* One lemma for each action that does more than change a request.         *)

LEMMA InitOK == Init => AccountsInv
BY IdleFacts DEF Init, AccountsInv, TypeOK, RowsDistinct, AccountsStrong, Exists

(* The tables and the history as they were. *)
LEMMA SameTables ==
  ASSUME AccountsInv, NEW r \in Requests, NEW q \in Request, Become(r, q), Knows(q),
         UNCHANGED <<users, deleted, written, known>>,
         sessions' \subseteq Ids, access' \subseteq Ids
  PROVE  AccountsInv'
<1>1. req' \in [Requests -> Request] /\ \A x \in Requests : Knows(req[x])'
  BY OneRequest
<1> QED
  BY <1>1 DEF AccountsInv, TypeOK, RowsDistinct, AccountsStrong, KnownStands, Exists

LEMMA AnswerOK ==
  ASSUME AccountsInv, NEW r \in Requests,
         NEW result \in Results \ {"SignedIn", "Created", "Profile"},
         Answer(r, result),
         UNCHANGED <<users, deleted, written, known>>,
         sessions' \subseteq Ids, access' \subseteq Ids
  PROVE  AccountsInv'
<1> DEFINE q == [Idle EXCEPT !.pc = "reply", !.result = result]
<1>1. q \in Request /\ Knows(q)
  BY IdleFacts DEF Idle, Request, PCs, Results, Knows
<1>2. Become(r, q)
  BY DEF Answer, Return
<1> QED
  BY <1>1, <1>2, SameTables

(* A request that is refused, or goes on at a label. *)
LEMMA AcceptOK ==
  ASSUME AccountsInv, NEW r \in Requests, NEW verdict, NEW label, NEW q,
         Accept(r, verdict, label, q),
         verdict # "ok" => verdict \in Results \ {"SignedIn", "Created", "Profile"},
         verdict = "ok" =>
           [q EXCEPT !.pc = label] \in Request /\ Knows([q EXCEPT !.pc = label]),
         UNCHANGED <<users, sessions, access, deleted, written, known>>
  PROVE  AccountsInv'
<1>0. sessions' \subseteq Ids /\ access' \subseteq Ids
  BY DEF AccountsInv, TypeOK
<1>1. CASE verdict = "ok"
  <2>1. Become(r, [q EXCEPT !.pc = label])
    BY <1>1 DEF Accept
  <2> QED
    BY <1>0, <1>1, <2>1, SameTables
<1>2. CASE verdict # "ok"
  <2>1. Answer(r, verdict)
    BY <1>2 DEF Accept, Answer, Return
  <2> QED
    BY <1>0, <1>2, <2>1, AnswerOK
<1> QED
  BY <1>1, <1>2

LEMMA PolicyAnswers ==
  ASSUME NEW pw
  PROVE  ValidatePassword(DefaultPolicy, pw) \in
           {"ok", "ErrEmptyPassword", "ErrPasswordHasSpace", "ErrPasswordTooShort",
            "ErrPasswordNoLower", "ErrPasswordNoDigit"}
BY DEF ValidatePassword, DefaultPolicy

LEMMA RegisterOK ==
  ASSUME AccountsInv, NEW r \in Requests, NEW raw \in Email \cup {Malformed, Blank},
         NEW pw \in Passwords, Register(r, raw, pw)
  PROVE  AccountsInv'
<1> DEFINE verdict == IF raw = Blank \/ pw = << >> THEN "BadRequest"
                      ELSE IF raw = Malformed THEN "ErrInvalidEmail"
                      ELSE ValidatePassword(DefaultPolicy, pw)
           q == [Idle EXCEPT !.email = raw, !.password = pw,
                             !.user = NewUser(raw, HashPassword(pw))]
<1>1. Accept(r, verdict, "insert", q)
  BY DEF Register
<1>2. pw \in Seq(Classes)
  BY DEF AccountsAssumption
<1>3. verdict # "ok" => verdict \in Results \ {"SignedIn", "Created", "Profile"}
  BY PolicyAnswers DEF Results
<1>4. ASSUME verdict = "ok"
      PROVE  [q EXCEPT !.pc = "insert"] \in Request /\ Knows([q EXCEPT !.pc = "insert"])
  <2>1. raw \in Email /\ ValidatePassword(DefaultPolicy, pw) = "ok"
    BY <1>4
  <2>2. Strong(pw)
    BY <1>2, <2>1, PolicyIsStrong
  <2>3. NewUser(raw, HashPassword(pw)) \in Row
    BY <1>2, <2>1, NewUserFacts
  <2> QED
    BY <1>2, <2>1, <2>2, <2>3 DEF Idle, Request, PCs, Results, Knows
<1>5. UNCHANGED <<users, sessions, access, deleted, written, known>>
  BY DEF Register
<1> HIDE DEF verdict, q
<1> QED
  BY <1>1, <1>3, <1>4, <1>5, AcceptOK

LEMMA LoginOK ==
  ASSUME AccountsInv, NEW r \in Requests, NEW raw \in Email \cup {Malformed, Blank},
         NEW pw \in Passwords, Login(r, raw, pw)
  PROVE  AccountsInv'
<1> DEFINE verdict == IF raw = Blank \/ pw = << >> THEN "BadRequest"
                      ELSE IF raw = Malformed THEN "ErrInvalidCredentials"
                      ELSE "ok"
           q == [Idle EXCEPT !.email = raw, !.password = pw]
<1>1. Accept(r, verdict, "find", q)
  BY DEF Login
<1>2. pw \in Seq(Classes)
  BY DEF AccountsAssumption
<1>3. verdict # "ok" => verdict \in Results \ {"SignedIn", "Created", "Profile"}
  BY DEF Results
<1>4. ASSUME verdict = "ok"
      PROVE  [q EXCEPT !.pc = "find"] \in Request /\ Knows([q EXCEPT !.pc = "find"])
  <2>1. raw \in Email
    BY <1>4
  <2> QED
    BY <1>2, <2>1 DEF Idle, Request, PCs, Results, Knows
<1>5. UNCHANGED <<users, sessions, access, deleted, written, known>>
  BY DEF Login
<1> HIDE DEF verdict, q
<1> QED
  BY <1>1, <1>3, <1>4, <1>5, AcceptOK

(* What requests know survives a step that touches one number only: one     *)
(* that is new, or that is deleted or written by the operator thereby.      *)
LEMMA KnowledgeStands ==
  ASSUME AccountsInv, NEW i \in Ids,
         \A j \in Ids \ {i} : users'[j] = users[j],
         deleted \subseteq deleted',
         written \subseteq written' \cup deleted',
         i \in deleted => users'[i] = NoRow,
         Exists(i) =>
           IF users'[i] = NoRow THEN i \in deleted'
           ELSE i \in written' /\ users'[i].email = users[i].email,
         NEW p \in Request, Knows(p)
  PROVE  Knows(p)'
<1>1. ASSUME p.result = "Created"
      PROVE  RegisteredAs(p.id, p.email, p.password)'
  <2>1. /\ p.id \in Ids /\ p.email \in Email /\ p.password \in Seq(Classes)
        /\ RegisteredAs(p.id, p.email, p.password)
    BY <1>1 DEF Knows, Request
  <2>2. NewUser(p.email, HashPassword(p.password)) # NoRow
    BY <2>1, NewUserFacts
  <2> QED
    BY <2>1, <2>2 DEF RegisteredAs, Exists
<1>2. ASSUME p.result = "Profile"
      PROVE  (IF Exists(p.id) THEN users[p.id].email = p.user.email
              ELSE p.id \in deleted)'
  BY <1>2 DEF Knows, Exists, AccountsInv, RowsDistinct
<1>3. p.pc = "me" => (p.gone => p.id \in deleted')
  BY DEF Knows
<1> QED
  BY <1>1, <1>2, <1>3 DEF Knows

(* The same, for the requests that a step of request r leaves alone. *)
LEMMA OthersStand ==
  ASSUME AccountsInv, NEW i \in Ids, ~ Exists(i), i \notin deleted,
         \A j \in Ids \ {i} : users'[j] = users[j],
         UNCHANGED <<deleted, written>>,
         NEW r \in Requests, NEW q, Become(r, q), Knows(q)',
         NEW x \in Requests
  PROVE  Knows(req[x])'
<1>1. CASE x = r
  <2>1. req'[x] = q
    BY <1>1 DEF Become, AccountsInv, TypeOK
  <2> QED
    BY <2>1 DEF Knows, RegisteredAs, Exists
<1>2. CASE x # r
  <2>1. req'[x] = req[x]
    BY <1>2 DEF Become, AccountsInv, TypeOK
  <2>2. \A p \in Request : Knows(p) => Knows(p)'
    BY KnowledgeStands
  <2>3. PICK p \in Request : p = req[x] /\ Knows(p)'
    BY <2>2 DEF AccountsInv, TypeOK
  <2> QED
    BY <2>1, <2>3 DEF Knows, RegisteredAs, Exists
<1> QED
  BY <1>1, <1>2

(* The INSERT takes a number and an address that no row has. *)
LEMMA InsertUserOK ==
  ASSUME AccountsInv, NEW r \in Requests, NEW i \in Ids, InsertUser(r, i)
  PROVE  AccountsInv'
<1> DEFINE u == req[r].user
           stored == [req[r] EXCEPT !.pc = "reply", !.id = i, !.user = NoRow,
                                    !.result = "Created"]
           lost   == [Idle EXCEPT !.pc = "reply", !.result = "InvalidInput"]
<1>1. /\ req[r].email \in Email /\ req[r].password \in Passwords
      /\ Strong(req[r].password)
      /\ u = NewUser(req[r].email, HashPassword(req[r].password))
      /\ req[r] \in Request /\ req[r].pc = "insert"
  BY DEF AccountsInv, TypeOK, Knows, InsertUser
<1>2. req[r].password \in Seq(Classes)
  BY <1>1 DEF AccountsAssumption
<1>3. /\ u \in Row /\ u # NoRow /\ u.email = req[r].email
      /\ u.password_hash.digest = req[r].password
  BY <1>1, <1>2, NewUserFacts
<1>4. /\ ~ Exists(i) /\ i \notin deleted
      /\ \A j \in Ids : Exists(j) => ~ SameText(users[j].email, u.email)
  BY <1>3 DEF InsertUser, Fresh, FindByEmail, SameText
<1>5. /\ users' \in [Ids -> Row \cup {NoRow}]
      /\ users'[i] = u
      /\ \A j \in Ids \ {i} : users'[j] = users[j]
      /\ UNCHANGED <<sessions, access, deleted, written, known>>
  BY <1>3 DEF InsertUser, AccountsInv, TypeOK
<1>6. RowsDistinct'
  <2>1. \A j \in deleted' : ~ Exists(j)'
    BY <1>4, <1>5 DEF AccountsInv, TypeOK, RowsDistinct, Exists
  <2>2. ASSUME NEW j \in Ids, NEW k \in Ids, Exists(j)', Exists(k)',
               SameText(users[j].email, users[k].email)'
        PROVE  j = k
    <3>1. CASE j # i /\ k # i
      BY <1>5, <2>2, <3>1 DEF AccountsInv, RowsDistinct, Exists, SameText
    <3>2. CASE j = i \/ k = i
      BY <1>3, <1>4, <1>5, <2>2, <3>2 DEF Exists, SameText
    <3> QED
      BY <3>1, <3>2
  <2> QED
    BY <2>1, <2>2 DEF RowsDistinct
<1>7. AccountsStrong'
  BY <1>1, <1>3, <1>4, <1>5 DEF AccountsInv, AccountsStrong, Exists
<1>8. PICK q \in {stored, lost} : Become(r, q)
  BY DEF InsertUser, Answer, Return
<1>9. q \in Request /\ Knows(q)'
  <2>1. CASE q = stored
    <3>1. /\ q \in Request /\ q.pc = "reply" /\ q.result = "Created" /\ q.id = i
          /\ q.email = req[r].email /\ q.password = req[r].password
      BY <1>1, <2>1 DEF Request, PCs, Results
    <3> QED
      BY <1>1, <1>5, <3>1 DEF Knows, RegisteredAs
  <2>2. CASE q = lost
    BY <2>2, IdleFacts DEF Idle, Request, PCs, Results, Knows
  <2> QED
    BY <2>1, <2>2
<1> HIDE DEF stored, lost
<1>10. ASSUME NEW x \in Requests
       PROVE  Knows(req[x])'
  BY <1>4, <1>5, <1>8, <1>9, OthersStand
<1>11. req' \in [Requests -> Request]
  BY <1>8, <1>9 DEF Become, AccountsInv, TypeOK
<1>12. \A k \in known' : KnownStands(k)'
  BY <1>4, <1>5 DEF AccountsInv, TypeOK, Known, KnownStands, Exists
<1> QED
  BY <1>5, <1>6, <1>7, <1>10, <1>11, <1>12 DEF AccountsInv, TypeOK

(* Steps that end in an answer without a grant. *)
LEMMA FailuresOK ==
  ASSUME AccountsInv, NEW r \in Requests,
         InsertConflict(r) \/ InsertFails(r) \/ CreateFails(r) \/ MeRefused(r)
  PROVE  AccountsInv'
<1>1. \E result \in {"ErrEmailAlreadyTaken", "InvalidInput", "Internal",
                     "Unauthorized"} : Answer(r, result)
  BY DEF InsertConflict, InsertFails, CreateFails, MeRefused, Answer, Return
<1>2. UNCHANGED <<users, sessions, access, deleted, written, known>>
  BY DEF InsertConflict, InsertFails, CreateFails, MeRefused
<1>3. sessions' \subseteq Ids /\ access' \subseteq Ids
  BY <1>2 DEF AccountsInv, TypeOK
<1> QED
  BY <1>1, <1>2, <1>3, AnswerOK DEF Results

LEMMA FindUserOK ==
  ASSUME AccountsInv, NEW r \in Requests, FindUser(r)
  PROVE  AccountsInv'
<1>1. /\ UNCHANGED <<users, sessions, access, deleted, written, known>>
      /\ sessions' \subseteq Ids /\ access' \subseteq Ids
  BY DEF FindUser, AccountsInv, TypeOK
<1>2. req[r] \in Request /\ req[r].pc = "find" /\ Knows(req[r])
  BY DEF FindUser, AccountsInv, TypeOK
<1>3. CASE Answer(r, "ErrInvalidCredentials") \/ Answer(r, "Internal")
  BY <1>1, <1>3, AnswerOK DEF Results
<1>4. ASSUME NEW i \in FindByEmail(req[r].email),
             Become(r, [req[r] EXCEPT !.pc = "check", !.id = i, !.user = users[i]])
      PROVE  AccountsInv'
  <2> DEFINE q == [req[r] EXCEPT !.pc = "check", !.id = i, !.user = users[i]]
  <2>1. i \in Ids /\ users[i] \in Row /\ SameText(req[r].email, users[i].email)
    BY <1>4 DEF FindByEmail, Exists, AccountsInv, TypeOK, SameText
  <2>2. q \in Request
    BY <1>2, <2>1 DEF Request, PCs
  <2>3. Knows(q)
    BY <1>2, <2>1 DEF Knows, Request, SameText
  <2> QED
    BY <1>1, <1>4, <2>2, <2>3, SameTables
<1> QED
  BY <1>3, <1>4 DEF FindUser

LEMMA CheckCredentialsOK ==
  ASSUME AccountsInv, NEW r \in Requests, CheckCredentials(r)
  PROVE  AccountsInv'
<1> DEFINE q == [req[r] EXCEPT !.pc = "create"]
<1>1. /\ UNCHANGED <<users, sessions, access, deleted, written, known>>
      /\ sessions' \subseteq Ids /\ access' \subseteq Ids
  BY DEF CheckCredentials, AccountsInv, TypeOK
<1>2. req[r] \in Request /\ req[r].pc = "check" /\ Knows(req[r])
  BY DEF CheckCredentials, AccountsInv, TypeOK
<1>3. q \in Request /\ Knows(q)
  BY <1>2 DEF Request, PCs, Knows
<1>4. \/ Answer(r, "ErrInvalidCredentials") \/ Answer(r, "ErrEmailNotVerified")
      \/ Become(r, q)
  BY DEF CheckCredentials
<1>5. CASE Become(r, q)
  BY <1>1, <1>3, <1>5, SameTables
<1> QED
  BY <1>1, <1>4, <1>5, AnswerOK DEF Results

LEMMA CreateSessionOK ==
  ASSUME AccountsInv, NEW r \in Requests, CreateSession(r)
  PROVE  AccountsInv'
<1> DEFINE q == [Idle EXCEPT !.id = req[r].id, !.pc = "reply", !.result = "SignedIn"]
<1>1. req[r].id \in Ids
  BY DEF CreateSession, AccountsInv, Knows
<1>2. /\ UNCHANGED <<users, access, deleted, written, known>>
      /\ sessions' \subseteq Ids /\ access' \subseteq Ids
  BY <1>1 DEF CreateSession, AccountsInv, TypeOK
<1>3. q \in Request /\ Knows(q)
  BY <1>1, IdleFacts DEF Idle, Request, PCs, Results, Knows
<1>4. Answer(r, "Internal") \/ Become(r, q)
  BY DEF CreateSession, Return, Idle
<1>5. CASE Become(r, q)
  BY <1>2, <1>3, <1>5, SameTables
<1> QED
  BY <1>2, <1>4, <1>5, AnswerOK DEF Results

LEMMA MeOK ==
  ASSUME AccountsInv, NEW r \in Requests, NEW i \in Ids, Me(r, i)
  PROVE  AccountsInv'
<1> DEFINE q(b) == [Idle EXCEPT !.pc = "me", !.id = i, !.gone = b]
<1>1. ASSUME NEW b \in BOOLEAN, b => i \in deleted
      PROVE  q(b) \in Request /\ Knows(q(b))
  BY <1>1, IdleFacts DEF Idle, Request, PCs, Results, Knows
<1>2. PICK b \in BOOLEAN : (b => i \in deleted) /\ Become(r, q(b))
  <2>1. Become(r, q(i \in deleted))
    BY Zenon DEF Me
  <2>2. (i \in deleted) \in BOOLEAN
    OBVIOUS
  <2> HIDE DEF q
  <2> QED
    BY <2>1, <2>2, Zenon
<1> QED
  BY <1>1, <1>2, SameTables DEF Me, AccountsInv, TypeOK

(* What /me reads is the row of the subject, which was there on arrival.    *)
LEMMA FindByIDOK ==
  ASSUME AccountsInv, NEW r \in Requests, FindByID(r)
  PROVE  AccountsInv'
<1> DEFINE q == [req[r] EXCEPT !.user = users[req[r].id], !.pc = "reply",
                               !.result = "Profile"]
<1>1. /\ UNCHANGED <<users, sessions, access, deleted, written, known>>
      /\ sessions' \subseteq Ids /\ access' \subseteq Ids
  BY DEF FindByID, AccountsInv, TypeOK
<1>2. req[r] \in Request /\ req[r].pc = "me" /\ Knows(req[r]) /\ req[r].id \in Ids
  BY DEF FindByID, AccountsInv, TypeOK, Knows
<1>3. ASSUME Exists(req[r].id), Become(r, q)
      PROVE  AccountsInv'
  <2>1. users[req[r].id] \in Row /\ req[r].id \notin deleted
    BY <1>2, <1>3 DEF AccountsInv, TypeOK, RowsDistinct, Exists
  <2>2. q \in Request
    BY <1>2, <2>1 DEF Request, PCs, Results
  <2>3. Knows(q)
    BY <1>2, <1>3, <2>1 DEF Knows, Request
  <2> QED
    BY <1>1, <1>3, <2>2, <2>3, SameTables
<1>4. CASE Answer(r, "Internal")
  BY <1>1, <1>4, AnswerOK DEF Results
<1>5. Answer(r, "Internal") \/ (Exists(req[r].id) /\ Become(r, q))
  BY DEF FindByID, Return
<1> QED
  BY <1>3, <1>4, <1>5

LEMMA DropOK ==
  ASSUME AccountsInv, NEW r \in Requests, Drop(r)
  PROVE  AccountsInv'
BY IdleFacts, SameTables DEF Drop, AccountsInv, TypeOK

LEMMA ReplyOK ==
  ASSUME AccountsInv, NEW r \in Requests, Reply(r)
  PROVE  AccountsInv'
<1>1. UNCHANGED <<users, sessions, deleted, written>> /\ Become(r, Idle)
  BY DEF Reply
<1>2. req' \in [Requests -> Request] /\ \A x \in Requests : Knows(req[x])'
  BY <1>1, IdleFacts, OneRequest
<1>3. access' \subseteq Ids /\ known' \subseteq Known
  BY DEF Reply, AccountsInv, TypeOK, Knows
<1>4. ASSUME NEW k \in known'
      PROVE  KnownStands(k)
  <2>1. CASE k \in known
    BY <2>1 DEF AccountsInv
  <2>2. CASE k \notin known
    <3> DEFINE q == req[r]
    <3>1. /\ q.result = "Created" /\ k.id = q.id /\ k.address = q.email.address
          /\ k.password = q.password /\ q.id \notin deleted \cup written
      BY <2>2 DEF Reply
    <3>2. /\ q.email \in Email /\ q.password \in Seq(Classes) /\ Strong(q.password)
          /\ users[q.id] = NewUser(q.email, HashPassword(q.password))
      BY <3>1 DEF AccountsInv, TypeOK, Knows, RegisteredAs, AccountsAssumption
    <3> QED
      BY <3>1, <3>2, NewUserFacts DEF KnownStands, Exists
  <2> QED
    BY <2>1, <2>2
<1>5. \A k \in known' : KnownStands(k)'
  BY <1>1, <1>4 DEF KnownStands, Exists
<1> QED
  BY <1>1, <1>2, <1>3, <1>5
     DEF AccountsInv, TypeOK, RowsDistinct, AccountsStrong, Exists

-----------------------------------------------------------------------------
(* The operator.                                                           *)

(* A step of the operator on number i, which is noted in the history. *)
LEMMA OperatorKnows ==
  ASSUME AccountsInv, NEW i \in Ids,
         \A j \in Ids \ {i} : users'[j] = users[j],
         deleted \subseteq deleted',
         written \subseteq written' \cup deleted',
         i \in deleted => users'[i] = NoRow,
         Exists(i) =>
           IF users'[i] = NoRow THEN i \in deleted'
           ELSE i \in written' /\ users'[i].email = users[i].email,
         known' = Forgotten(i), req' = req
  PROVE  /\ \A x \in Requests : Knows(req[x])'
         /\ known' \subseteq Known /\ \A k \in known' : KnownStands(k)'
<1>1. ASSUME NEW x \in Requests
      PROVE  Knows(req[x])'
  <2>1. \A p \in Request : Knows(p) => Knows(p)'
    BY KnowledgeStands
  <2>2. PICK p \in Request : p = req[x] /\ Knows(p)'
    BY <2>1 DEF AccountsInv, TypeOK
  <2> QED
    BY <2>2 DEF Knows, RegisteredAs, Exists
<1>2. known' \subseteq Known /\ \A k \in known' : KnownStands(k)'
  BY DEF Forgotten, AccountsInv, TypeOK, Known, KnownStands, Exists
<1> QED
  BY <1>1, <1>2

LEMMA SeedUserOK ==
  ASSUME AccountsInv, NEW e \in Email, NEW pw \in Passwords, NEW i \in Ids,
         SeedUser(e, pw, i)
  PROVE  AccountsInv'
<1> DEFINE mail == IF Exists(i) THEN users[i].email ELSE e
           u    == NewUser(mail, HashPassword(pw))
<1>1. mail \in Email /\ pw \in Seq(Classes)
  BY DEF AccountsInv, TypeOK, Row, Exists, AccountsAssumption
<1>2. u \in Row /\ u # NoRow /\ u.email = mail
  BY <1>1, NewUserFacts
<1>3. /\ users' = [users EXCEPT ![i] = u]
      /\ written' = written \cup {i}
      /\ known' = Forgotten(i)
      /\ UNCHANGED <<sessions, access, req, deleted>>
  BY DEF SeedUser
<1>4. /\ SameText(e, mail) /\ i \notin deleted
      /\ \A j \in Ids \ {i} : Exists(j) => ~ SameText(users[j].email, mail)
  <2>1. CASE FindByEmail(e) = {}
    BY <2>1 DEF SeedUser, FindByEmail, Fresh, SameText
  <2>2. CASE i \in FindByEmail(e)
    BY <2>2 DEF FindByEmail, AccountsInv, RowsDistinct, SameText
  <2> QED
    BY <2>1, <2>2 DEF SeedUser
<1> HIDE DEF u, mail
<1>5. /\ users' \in [Ids -> Row \cup {NoRow}] /\ users'[i] = u
      /\ \A j \in Ids \ {i} : users'[j] = users[j]
  BY <1>2, <1>3 DEF AccountsInv, TypeOK
<1>6. RowsDistinct'
  <2>1. \A j \in deleted' : ~ Exists(j)'
    BY <1>3, <1>4, <1>5 DEF AccountsInv, TypeOK, RowsDistinct, Exists
  <2>2. ASSUME NEW j \in Ids, NEW k \in Ids, Exists(j)', Exists(k)',
               SameText(users[j].email, users[k].email)'
        PROVE  j = k
    <3>1. CASE j # i /\ k # i
      BY <1>5, <2>2, <3>1 DEF AccountsInv, RowsDistinct, Exists, SameText
    <3>2. CASE j = i \/ k = i
      BY <1>2, <1>4, <1>5, <2>2, <3>2 DEF Exists, SameText
    <3> QED
      BY <3>1, <3>2
  <2> QED
    BY <2>1, <2>2 DEF RowsDistinct
<1>7. AccountsStrong'
  BY <1>3, <1>5 DEF AccountsInv, AccountsStrong, Exists
<1>8. /\ \A x \in Requests : Knows(req[x])'
      /\ known' \subseteq Known /\ \A k \in known' : KnownStands(k)'
  BY <1>2, <1>3, <1>4, <1>5, OperatorKnows DEF mail
<1> QED
  BY <1>3, <1>5, <1>6, <1>7, <1>8 DEF AccountsInv, TypeOK

LEMMA DeleteUserOK ==
  ASSUME AccountsInv, NEW i \in Ids, DeleteUser(i)
  PROVE  AccountsInv'
<1>1. /\ users' \in [Ids -> Row \cup {NoRow}] /\ users'[i] = NoRow
      /\ \A j \in Ids \ {i} : users'[j] = users[j]
      /\ deleted' = deleted \cup {i} /\ written' = written \ {i}
      /\ sessions' \subseteq Ids /\ known' = Forgotten(i)
      /\ UNCHANGED <<access, req>>
  BY DEF DeleteUser, AccountsInv, TypeOK
<1>2. RowsDistinct' /\ AccountsStrong'
  BY <1>1 DEF AccountsInv, TypeOK, RowsDistinct, AccountsStrong, Exists, SameText
<1>3. /\ \A x \in Requests : Knows(req[x])'
      /\ known' \subseteq Known /\ \A k \in known' : KnownStands(k)'
  BY <1>1, OperatorKnows
<1> QED
  BY <1>1, <1>2, <1>3 DEF AccountsInv, TypeOK

LEMMA ExpireAccessOK ==
  ASSUME AccountsInv, NEW i \in Ids, ExpireAccess(i)
  PROVE  AccountsInv'
BY DEF ExpireAccess, AccountsInv, TypeOK, RowsDistinct, AccountsStrong, Knows,
       KnownStands, RegisteredAs, Exists

LEMMA StutterOK ==
  ASSUME AccountsInv, UNCHANGED vars
  PROVE  AccountsInv'
BY DEF vars, AccountsInv, TypeOK, RowsDistinct, AccountsStrong, Knows, KnownStands,
       RegisteredAs, Exists

-----------------------------------------------------------------------------
(* The inductive invariant holds, for every value of the constants          *)
(* (service/register.go, service/me.go, service/logging.go, users.go).      *)
THEOREM Invariance == Spec => []AccountsInv
<1>1. Init => AccountsInv
  BY InitOK
<1>2. AccountsInv /\ [Next]_vars => AccountsInv'
  <2> SUFFICES ASSUME AccountsInv, [Next]_vars
               PROVE  AccountsInv'
    OBVIOUS
  <2>1. ASSUME NEW r \in Requests, Arrive(r)
        PROVE  AccountsInv'
    BY <2>1, RegisterOK, LoginOK, MeOK, FailuresOK DEF Arrive
  <2>2. ASSUME NEW r \in Requests, Serve(r)
        PROVE  AccountsInv'
    BY <2>2, InsertUserOK, FailuresOK, FindUserOK, CheckCredentialsOK,
       CreateSessionOK, FindByIDOK, ReplyOK DEF Serve
  <2>3. ASSUME NEW r \in Requests, Drop(r)
        PROVE  AccountsInv'
    BY <2>3, DropOK
  <2>4. ASSUME NEW i \in Ids, ExpireAccess(i) \/ Operate(i)
        PROVE  AccountsInv'
    BY <2>4, ExpireAccessOK, SeedUserOK, DeleteUserOK DEF Operate
  <2>5. CASE UNCHANGED vars
    BY <2>5, StutterOK
  <2> QED
    BY <2>1, <2>2, <2>3, <2>4, <2>5 DEF Next
<1> QED
  BY <1>1, <1>2, PTL DEF Spec

(* Accounts is type correct (repo/postgres/users.go, migrations). *)
THEOREM AccountsTypeCorrect == Spec => []TypeOK
<1>1. AccountsInv => TypeOK
  BY DEF AccountsInv
<1> QED
  BY <1>1, Invariance, PTL

(* An account the service created has a strong password (password.go). *)
THEOREM PasswordsStrong == Spec => []AccountsStrong
<1>1. AccountsInv => AccountsStrong
  BY DEF AccountsInv
<1> QED
  BY <1>1, Invariance, PTL

(* Whoever was told 201 can log in, however requests and operator interleave *)
(* and whatever fails (service/register.go:17-50, service/logging.go:45-65). *)
THEOREM RegistrationHolds == Spec => []RegisteredCanLogin
<1>1. ASSUME AccountsInv
      PROVE  RegisteredCanLogin
  <2> SUFFICES ASSUME NEW k \in known, NEW s \in Spellings
               PROVE  /\ FindByEmail([address |-> k.address, spelling |-> s]) = {k.id}
                      /\ Proved([user |-> users[k.id], password |-> k.password])
    BY DEF RegisteredCanLogin
  <2>1. k \in Known /\ KnownStands(k) /\ k.id \in Ids
    BY <1>1 DEF AccountsInv, TypeOK, Known
  <2>2. FindByEmail([address |-> k.address, spelling |-> s]) = {k.id}
    BY <1>1, <2>1 DEF FindByEmail, SameText, KnownStands, AccountsInv, RowsDistinct
  <2>3. k.password \in Seq(Classes) /\ k.password # << >>
    BY <2>1, StrongIsNotEmpty DEF Known, KnownStands, AccountsAssumption
  <2> QED
    BY <2>1, <2>2, <2>3 DEF Proved, CheckPassword, HashPassword, KnownStands
<1> QED
  BY <1>1, Invariance, PTL

(* /me answers for a user who was there, with his own row (handlers/me.go). *)
THEOREM ProfilesOwn == Spec => []ProfileIsOwn
<1>1. ASSUME AccountsInv
      PROVE  ProfileIsOwn
  BY <1>1 DEF AccountsInv, Knows, ProfileIsOwn, AccountsAssumption
<1> QED
  BY <1>1, Invariance, PTL
=============================================================================
