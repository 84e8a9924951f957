------------------------- MODULE AccountsRefinement -------------------------
(***************************************************************************)
(* Accounts implements AccountDirectory, for every value of the constants: *)
(* every step of a request or of the operator is a step of the directory,  *)
(* or leaves it unchanged.                                                 *)
(***************************************************************************)
EXTENDS AccountsProofs

USE AccountsAssumption

(* The parts of the mapping that read the requests. *)
HasProof(q, i) ==
  /\ q.id = i
  /\ \/ q.pc = "check" /\ Proved(q)
     \/ q.pc = "create"

Shows(q) ==
  IF q.pc \in {"find", "check", "create"}
  THEN Credentials(q.email, HashPassword(q.password)) ELSE None

LEMMA MappingFacts ==
  /\ ProofsOfLogins \subseteq Requests \X Ids
  /\ \A r \in Requests, i \in Ids :
       <<r, i>> \in ProofsOfLogins <=> HasProof(req[r], i)
  /\ Shown = [r \in Requests |-> Shows(req[r])]
BY DEF ProofsOfLogins, HasProof, Shown, Shows, LoggingIn

LEMMA AccountFacts ==
  ASSUME AccountsInv, NEW i \in Ids
  PROVE  /\ Directory!Opened(i) <=> Exists(i)
         /\ Exists(i) =>
              /\ AccountsById[i] = [address  |-> users[i].email.address,
                                    password |-> users[i].password_hash.digest]
              /\ users[i] \in Row
<1>1. AccountsById[i] = IF Exists(i)
                        THEN Credentials(users[i].email, users[i].password_hash)
                        ELSE None
  BY DEF AccountsById
<1>2. ASSUME Exists(i)
      PROVE  /\ users[i] \in Row
             /\ users[i].email.address \in Addresses
             /\ users[i].password_hash.digest \in Seq(Classes)
  BY <1>2 DEF AccountsInv, TypeOK, Exists, Row, Email, Hash
<1>3. ASSUME Exists(i)
      PROVE  /\ AccountsById[i] = [address  |-> users[i].email.address,
                                  password |-> users[i].password_hash.digest]
             /\ AccountsById[i] \in [address : Addresses, password : Seq(Classes)]
  BY <1>1, <1>2, <1>3 DEF Credentials
<1>4. None \notin [address : Addresses, password : Seq(Classes)]
  BY DEF AccountsAssumption
<1>5. Exists(i) => AccountsById[i] # None
  BY <1>3, <1>4
<1>6. ~ Exists(i) => AccountsById[i] = None
  BY <1>1
<1> HIDE <1>1
<1> QED
  BY <1>2, <1>3, <1>5, <1>6 DEF Directory!Opened

-----------------------------------------------------------------------------
(* What a step of one request does to proofs and claimants.                *)

LEMMA ProofsKept ==
  ASSUME NEW r \in Requests,
         \A x \in Requests \ {r} : req'[x] = req[x],
         \A i \in Ids : HasProof(req'[r], i) <=> HasProof(req[r], i)
  PROVE  UNCHANGED ProofsOfLogins
<1>1. \A x \in Requests, i \in Ids : HasProof(req'[x], i) <=> HasProof(req[x], i)
  OBVIOUS
<1> QED
  BY <1>1 DEF ProofsOfLogins, HasProof, Proved

LEMMA ShownKept ==
  ASSUME NEW r \in Requests,
         \A x \in Requests \ {r} : req'[x] = req[x],
         Shows(req'[r]) = Shows(req[r])
  PROVE  UNCHANGED Shown
<1>1. \A x \in Requests : Shows(req'[x]) = Shows(req[x])
  OBVIOUS
<1> QED
  BY <1>1 DEF Shown, LoggingIn, Shows

(* The request is not logging in any more. *)
LEMMA Left ==
  ASSUME AccountsInv, NEW r \in Requests,
         \A x \in Requests \ {r} : req'[x] = req[x],
         req'[r].pc \notin {"find", "check", "create"},
         UNCHANGED <<users, deleted, written>>
  PROVE  Directory!Leave(r)
<1>1. ProofsOfLogins' = ProofsOfLogins \ Directory!ProofsOf(r)
  BY DEF ProofsOfLogins, Directory!ProofsOf
<1>2. Shown' = [Shown EXCEPT ![r] = None]
  BY DEF Shown, LoggingIn
<1>3. UNCHANGED AccountsById
  BY DEF AccountsById, Exists
<1> QED
  BY <1>1, <1>2, <1>3 DEF Directory!Leave

(* A step that leaves the tables alone, and the request not logging in. *)
LEMMA Withdrawal ==
  ASSUME AccountsInv, NEW r \in Requests,
         \A x \in Requests \ {r} : req'[x] = req[x],
         req'[r].pc \notin {"find", "check", "create"},
         UNCHANGED <<users, deleted, written, sessions>>
  PROVE  Directory!Next
<1>1. Directory!Leave(r)
  BY Left
<1>2. Directory!Withdraw(r)
  BY <1>1 DEF Directory!Withdraw
<1> QED
  BY <1>2 DEF Directory!Next

(* The same for an answer and for a request that ends. *)
LEMMA Answered ==
  ASSUME AccountsInv, NEW r \in Requests, NEW q \in Request, Become(r, q),
         q.pc \notin {"find", "check", "create"},
         UNCHANGED <<users, deleted, written, sessions>>
  PROVE  Directory!Next
BY Withdrawal DEF Become, AccountsInv, TypeOK

LEMMA AnswersEnd ==
  ASSUME AccountsInv, NEW r \in Requests, NEW result \in Results, Answer(r, result),
         UNCHANGED <<users, deleted, written, sessions>>
  PROVE  Directory!Next
<1> DEFINE q == [Idle EXCEPT !.pc = "reply", !.result = result]
<1>1. q \in Request /\ q.pc = "reply"
  BY IdleFacts DEF Idle, Request, PCs, Results
<1>2. Become(r, q)
  BY DEF Answer, Return
<1> QED
  BY <1>1, <1>2, Answered

-----------------------------------------------------------------------------
(* Login: show, prove, enter.                                              *)

LEMMA LoginShows ==
  ASSUME AccountsInv, NEW r \in Requests, NEW raw \in Email \cup {Malformed, Blank},
         NEW pw \in Passwords, Login(r, raw, pw)
  PROVE  Directory!Next \/ UNCHANGED Directory!directory
<1> DEFINE verdict == IF raw = Blank \/ pw = << >> THEN "BadRequest"
                      ELSE IF raw = Malformed THEN "ErrInvalidCredentials"
                      ELSE "ok"
           q == [Idle EXCEPT !.email = raw, !.password = pw, !.pc = "find"]
<1>1. UNCHANGED <<users, sessions, deleted, written>>
  BY DEF Login
<1>2. CASE verdict # "ok"
  <2>1. Answer(r, verdict)
    BY <1>2 DEF Login, Accept, Answer, Return
  <2>2. verdict \in Results
    BY <1>2 DEF Results
  <2> HIDE DEF verdict
  <2> QED
    BY <1>1, <2>1, <2>2, AnswersEnd
<1>3. CASE verdict = "ok"
  <2>1. Become(r, q) /\ raw \in Email
    BY <1>3 DEF Login, Accept
  <2>2. /\ req'[r].pc = "find" /\ req'[r].email = raw /\ req'[r].password = pw
        /\ req[r].pc = "idle"
        /\ \A x \in Requests \ {r} : req'[x] = req[x]
    BY <2>1 DEF Login, Become, AccountsInv, TypeOK, Idle
  <2> DEFINE account == Credentials(raw, HashPassword(pw))
  <2>3. account \in Directory!Account
    BY <2>1 DEF Credentials, HashPassword, preKDF, Email, Directory!Account
  <2>4. Shown[r] = None /\ Shown' = [Shown EXCEPT ![r] = account]
    BY <2>2 DEF Shown, LoggingIn
  <2>5. UNCHANGED ProofsOfLogins
    BY <2>2, ProofsKept DEF HasProof
  <2>6. UNCHANGED AccountsById
    BY <1>1 DEF AccountsById, Exists
  <2>7. Directory!Show(r, account)
    BY <1>1, <2>4, <2>5, <2>6 DEF Directory!Show
  <2> QED
    BY <2>3, <2>7 DEF Directory!Next
<1> QED
  BY <1>2, <1>3

LEMMA FindUserProves ==
  ASSUME AccountsInv, NEW r \in Requests, FindUser(r)
  PROVE  Directory!Next \/ UNCHANGED Directory!directory
<1>1. UNCHANGED <<users, sessions, deleted, written>> /\ UNCHANGED AccountsById
  BY DEF FindUser, AccountsById, Exists
<1>2. CASE Answer(r, "ErrInvalidCredentials") \/ Answer(r, "Internal")
  BY <1>1, <1>2, AnswersEnd DEF Results
<1>3. ASSUME NEW i \in FindByEmail(req[r].email),
             Become(r, [req[r] EXCEPT !.pc = "check", !.id = i, !.user = users[i]])
      PROVE  Directory!Next \/ UNCHANGED Directory!directory
  <2>1. /\ req[r] \in Request /\ req[r].pc = "find"
        /\ req'[r].pc = "check" /\ req'[r].id = i /\ req'[r].user = users[i]
        /\ req'[r].email = req[r].email /\ req'[r].password = req[r].password
        /\ \A x \in Requests \ {r} : req'[x] = req[x]
    BY <1>3 DEF FindUser, Become, AccountsInv, TypeOK, Request
  <2>2. i \in Ids /\ Exists(i) /\ users[i].email.address = req[r].email.address
    BY DEF FindByEmail, SameText
  <2>3. UNCHANGED Shown
    BY <2>1, ShownKept DEF Shows
  <2>4. \A j \in Ids : ~ HasProof(req[r], j)
    BY <2>1 DEF HasProof
  <2>5. CASE Proved(req'[r])
    <3>1. \A j \in Ids : HasProof(req'[r], j) <=> j = i
      BY <2>1, <2>5 DEF HasProof
    <3>2. ProofsOfLogins' = ProofsOfLogins \cup {<<r, i>>}
      BY <2>1, <2>2, <2>4, <3>1 DEF ProofsOfLogins, HasProof, Proved
    <3>3. Directory!ProofsOf(r) = {}
      BY <2>1 DEF Directory!ProofsOf, ProofsOfLogins
    <3>4. users[i].password_hash.digest = req[r].password
      BY <2>1, <2>5 DEF Proved, CheckPassword, preKDF
    <3>5. Shown[r] = AccountsById[i] /\ Directory!Opened(i)
      <4>1. /\ AccountsById[i] = [address  |-> users[i].email.address,
                                  password |-> users[i].password_hash.digest]
            /\ Directory!Opened(i)
        BY <2>2, AccountFacts
      <4>2. Shown[r] = [address |-> req[r].email.address, password |-> req[r].password]
        BY <2>1 DEF Shown, LoggingIn, Credentials, HashPassword, preKDF
      <4> QED
        BY <2>2, <3>4, <4>1, <4>2
    <3>6. Directory!Prove(r, i)
      BY <1>1, <2>3, <3>2, <3>3, <3>5 DEF Directory!Prove
    <3> QED
      BY <2>2, <3>6 DEF Directory!Next
  <2>6. CASE ~ Proved(req'[r])
    <3>1. UNCHANGED ProofsOfLogins
      BY <2>1, <2>4, <2>6, ProofsKept DEF HasProof
    <3> QED
      BY <1>1, <2>3, <3>1 DEF Directory!directory
  <2> QED
    BY <2>5, <2>6
<1> QED
  BY <1>2, <1>3 DEF FindUser

LEMMA CheckKeepsProof ==
  ASSUME AccountsInv, NEW r \in Requests, CheckCredentials(r)
  PROVE  Directory!Next \/ UNCHANGED Directory!directory
<1>1. UNCHANGED <<users, sessions, deleted, written>> /\ UNCHANGED AccountsById
  BY DEF CheckCredentials, AccountsById, Exists
<1>2. CASE Answer(r, "ErrInvalidCredentials") \/ Answer(r, "ErrEmailNotVerified")
  BY <1>1, <1>2, AnswersEnd DEF Results
<1>3. CASE Proved(req[r]) /\ Become(r, [req[r] EXCEPT !.pc = "create"])
  <2>1. /\ req[r] \in Request /\ req[r].pc = "check" /\ req'[r].pc = "create"
        /\ req'[r].id = req[r].id /\ req'[r].email = req[r].email
        /\ req'[r].password = req[r].password
        /\ \A x \in Requests \ {r} : req'[x] = req[x]
    BY <1>3 DEF CheckCredentials, Become, AccountsInv, TypeOK, Request
  <2>2. UNCHANGED Shown
    BY <2>1, ShownKept DEF Shows
  <2>3. UNCHANGED ProofsOfLogins
    BY <1>3, <2>1, ProofsKept DEF HasProof
  <2> QED
    BY <1>1, <2>2, <2>3 DEF Directory!directory
<1> QED
  BY <1>2, <1>3 DEF CheckCredentials, Proved

LEMMA SessionEnters ==
  ASSUME AccountsInv, NEW r \in Requests, CreateSession(r)
  PROVE  Directory!Next
<1> DEFINE granted == [Idle EXCEPT !.id = req[r].id, !.pc = "reply",
                                   !.result = "SignedIn"]
<1>1. req[r].pc = "create" /\ req[r].id \in Ids
  BY DEF CreateSession, AccountsInv, Knows
<1>2. UNCHANGED <<users, deleted, written>>
  BY DEF CreateSession
<1>3. CASE ~ Exists(req[r].id)
  BY <1>2, <1>3, AnswersEnd DEF CreateSession, Results
<1>4. CASE Exists(req[r].id)
  <2>1. Become(r, granted) \/ Answer(r, "Internal")
    BY <1>4 DEF CreateSession, Return, Idle
  <2>2. /\ \A x \in Requests \ {r} : req'[x] = req[x]
        /\ req'[r].pc = "reply"
    BY <2>1 DEF Answer, Return, Become, Idle, AccountsInv, TypeOK
  <2>3. Directory!Leave(r)
    BY <1>2, <2>2, Left
  <2>4. <<r, req[r].id>> \in ProofsOfLogins
    BY <1>1 DEF ProofsOfLogins
  <2>5. Directory!Enter(r, req[r].id)
    BY <1>1, <1>4, <2>3, <2>4, AccountFacts DEF CreateSession, Directory!Enter
  <2> QED
    BY <1>1, <2>5 DEF Directory!Next
<1> QED
  BY <1>3, <1>4

-----------------------------------------------------------------------------
(* Accounts are opened, reset and closed.                                  *)

LEMMA OpensAccount ==
  ASSUME AccountsInv, NEW i \in Ids, NEW account, ~ Exists(i), i \notin deleted,
         \A j \in Ids : Exists(j) => users[j].email.address # account.address,
         AccountsById' = [AccountsById EXCEPT ![i] = account],
         written' \in {written, written \cup {i}},
         UNCHANGED <<deleted, Shown, ProofsOfLogins, sessions>>
  PROVE  Directory!Open(i, account)
<1>1. ~ Directory!Opened(i)
  BY AccountFacts
<1>2. ASSUME NEW j \in Ids, Directory!Opened(j)
      PROVE  AccountsById[j].address # account.address
  <2>1. Exists(j)
    BY <1>2, AccountFacts
  <2>2. AccountsById[j] = [address  |-> users[j].email.address,
                          password |-> users[j].password_hash.digest]
    BY <2>1, AccountFacts
  <2> QED
    BY <2>1, <2>2
<1> QED
  BY <1>1, <1>2 DEF Directory!Open

LEMMA InsertOpens ==
  ASSUME AccountsInv, NEW r \in Requests, NEW i \in Ids, InsertUser(r, i)
  PROVE  Directory!Next
<1> DEFINE u == req[r].user
           account == [address |-> req[r].email.address, password |-> req[r].password]
<1>1. /\ req[r].pc = "insert" /\ req[r].email \in Email /\ req[r].password \in Passwords
      /\ u = NewUser(req[r].email, HashPassword(req[r].password))
  BY DEF AccountsInv, Knows, InsertUser
<1>2. /\ u \in Row /\ u # NoRow /\ u.email = req[r].email
      /\ u.password_hash.digest = req[r].password
  <2>1. req[r].password \in Seq(Classes)
    BY <1>1 DEF AccountsAssumption
  <2> QED
    BY <1>1, <2>1, NewUserFacts
<1>3. /\ users' = [users EXCEPT ![i] = u]
      /\ UNCHANGED <<sessions, deleted, written>>
      /\ ~ Exists(i) /\ i \notin deleted
      /\ \A j \in Ids : Exists(j) => users[j].email.address # account.address
  BY DEF InsertUser, Fresh, FindByEmail, SameText
<1>4. account \in Directory!Account
  BY <1>1 DEF Directory!Account, Email
<1>5. AccountsById' = [AccountsById EXCEPT ![i] = account]
  BY <1>2, <1>3 DEF AccountsById, Exists, Credentials, AccountsInv, TypeOK
<1>6. /\ \A x \in Requests \ {r} : req'[x] = req[x]
      /\ req'[r].pc = "reply"
  <2>1. PICK q : Become(r, q) /\ q.pc = "reply"
    <3> DEFINE created == [req[r] EXCEPT !.id = i, !.user = NoRow, !.pc = "reply",
                                         !.result = "Created"]
               failed  == [Idle EXCEPT !.pc = "reply", !.result = "InvalidInput"]
    <3>1. Become(r, created) \/ Become(r, failed)
      BY DEF InsertUser, Answer, Return
    <3>2. created.pc = "reply" /\ failed.pc = "reply"
      BY DEF AccountsInv, TypeOK, Request, Idle
    <3> HIDE DEF created, failed
    <3> QED
      BY <3>1, <3>2
  <2> QED
    BY <2>1 DEF Become, AccountsInv, TypeOK
<1>7. UNCHANGED Shown
  BY <1>1, <1>6, ShownKept DEF Shows
<1>8. UNCHANGED ProofsOfLogins
  BY <1>1, <1>6, ProofsKept DEF HasProof
<1> HIDE DEF u, account
<1>9. Directory!Open(i, account)
  BY <1>3, <1>5, <1>7, <1>8, OpensAccount
<1> QED
  BY <1>4, <1>9 DEF Directory!Next

LEMMA SeedOpensOrResets ==
  ASSUME AccountsInv, NEW e \in Email, NEW pw \in Passwords, NEW i \in Ids,
         SeedUser(e, pw, i)
  PROVE  Directory!Next
<1> DEFINE mail == IF Exists(i) THEN users[i].email ELSE e
           u    == NewUser(mail, HashPassword(pw))
<1>1. mail \in Email /\ pw \in Seq(Classes)
  <2>1. Exists(i) => users[i] \in Row
    BY DEF AccountsInv, TypeOK, Exists
  <2> QED
    BY <2>1 DEF Row, AccountsAssumption
<1>2. /\ u \in Row /\ u # NoRow /\ u.email = mail /\ u.password_hash.digest = pw
  BY <1>1, NewUserFacts
<1>3. /\ users' = [users EXCEPT ![i] = u]
      /\ written' = written \cup {i}
      /\ UNCHANGED <<sessions, req, deleted>>
  BY DEF SeedUser
<1>4. UNCHANGED <<Shown, ProofsOfLogins>>
  BY <1>3 DEF Shown, ProofsOfLogins, LoggingIn, Proved
<1> HIDE DEF u
<1>5. AccountsById' =
        [AccountsById EXCEPT ![i] = [address |-> mail.address, password |-> pw]]
  BY <1>2, <1>3 DEF AccountsById, Exists, Credentials, AccountsInv, TypeOK
<1>6. CASE Exists(i)
  <2>1. AccountsById' = [AccountsById EXCEPT ![i].password = pw]
    <3>1. AccountsById[i] = [address  |-> mail.address,
                             password |-> users[i].password_hash.digest]
      BY <1>6, AccountFacts
    <3>2. [AccountsById[i] EXCEPT !.password = pw] =
            [address |-> mail.address, password |-> pw]
      BY <3>1
    <3> QED
      BY <1>5, <3>2
  <2>2. Directory!Reset(i, pw)
    BY <1>3, <1>4, <1>6, <2>1, AccountFacts DEF Directory!Reset
  <2> QED
    BY <2>2 DEF Directory!Next
<1>7. CASE ~ Exists(i)
  <2> DEFINE account == [address |-> e.address, password |-> pw]
  <2>1. /\ i \notin deleted
        /\ \A j \in Ids : Exists(j) => users[j].email.address # account.address
    BY <1>7 DEF SeedUser, FindByEmail, SameText, Fresh
  <2>2. account \in Directory!Account
    BY DEF Directory!Account, Email
  <2>3. AccountsById' = [AccountsById EXCEPT ![i] = account]
    BY <1>5, <1>7
  <2>4. Directory!Open(i, account)
    BY <1>3, <1>4, <1>7, <2>1, <2>3, OpensAccount
  <2> QED
    BY <2>2, <2>4 DEF Directory!Next
<1> QED
  BY <1>6, <1>7

LEMMA DeleteCloses ==
  ASSUME AccountsInv, NEW i \in Ids, DeleteUser(i)
  PROVE  Directory!Next
<1>1. UNCHANGED <<Shown, ProofsOfLogins>>
  BY DEF DeleteUser, Shown, ProofsOfLogins, LoggingIn, Proved
<1>2. AccountsById' = [AccountsById EXCEPT ![i] = None]
  BY DEF DeleteUser, AccountsById, Exists, AccountsInv, TypeOK
<1>3. Directory!Close(i)
  BY <1>1, <1>2, AccountFacts DEF DeleteUser, Directory!Close
<1> QED
  BY <1>3 DEF Directory!Next

LEMMA TablesAlone ==
  ASSUME UNCHANGED <<users, deleted, written, sessions, req>>
  PROVE  UNCHANGED Directory!directory
BY DEF Directory!directory, AccountsById, Exists, Shown, LoggingIn,
       ProofsOfLogins, Proved

-----------------------------------------------------------------------------
LEMMA ArrivalStep ==
  ASSUME AccountsInv, NEW r \in Requests, Arrive(r)
  PROVE  Directory!Next \/ UNCHANGED Directory!directory
<1>1. ASSUME NEW raw \in Email \cup {Malformed, Blank}, NEW pw \in Passwords,
             Register(r, raw, pw)
      PROVE  Directory!Next
  <2>1. /\ \A x \in Requests \ {r} : req'[x] = req[x]
        /\ req'[r].pc \in {"insert", "reply"}
    BY <1>1 DEF Register, Accept, Become, Idle, AccountsInv, TypeOK
  <2> QED
    BY <1>1, <2>1, Withdrawal DEF Register
<1>2. ASSUME NEW i \in Ids, Me(r, i)
      PROVE  Directory!Next
  <2>1. /\ \A x \in Requests \ {r} : req'[x] = req[x]
        /\ req'[r].pc = "me"
    BY <1>2 DEF Me, Become, Idle, AccountsInv, TypeOK
  <2> QED
    BY <1>2, <2>1, Withdrawal DEF Me
<1>3. ASSUME MeRefused(r)
      PROVE  Directory!Next
  <2>1. Answer(r, "Unauthorized")
    BY <1>3 DEF MeRefused, Answer, Return
  <2> QED
    BY <1>3, <2>1, AnswersEnd DEF MeRefused, Results
<1> QED
  BY <1>1, <1>2, <1>3, LoginShows DEF Arrive

LEMMA ServiceStep ==
  ASSUME AccountsInv, NEW r \in Requests, Serve(r) \/ Drop(r)
  PROVE  Directory!Next \/ UNCHANGED Directory!directory
<1>1. ASSUME InsertConflict(r) \/ InsertFails(r) \/ CreateFails(r)
      PROVE  Directory!Next
  BY <1>1, AnswersEnd DEF InsertConflict, InsertFails, CreateFails, Results
<1>2. ASSUME FindByID(r)
      PROVE  Directory!Next
  <2>1. /\ \A x \in Requests \ {r} : req'[x] = req[x]
        /\ req'[r].pc = "reply"
    <3>1. PICK q : Become(r, q) /\ q.pc = "reply"
      <4> DEFINE profile == [req[r] EXCEPT !.user = users[req[r].id],
                                           !.pc = "reply", !.result = "Profile"]
                 failed  == [Idle EXCEPT !.pc = "reply", !.result = "Internal"]
      <4>1. Become(r, profile) \/ Become(r, failed)
        BY <1>2 DEF FindByID, Answer, Return
      <4>2. profile.pc = "reply" /\ failed.pc = "reply"
        BY DEF AccountsInv, TypeOK, Request, Idle
      <4> HIDE DEF profile, failed
      <4> QED
        BY <4>1, <4>2
    <3> QED
      BY <3>1 DEF Become, AccountsInv, TypeOK
  <2> QED
    BY <1>2, <2>1, Withdrawal DEF FindByID
<1>3. ASSUME Reply(r) \/ Drop(r)
      PROVE  Directory!Next
  <2>1. Become(r, Idle) /\ UNCHANGED <<users, sessions, deleted, written>>
    BY <1>3 DEF Reply, Drop
  <2> QED
    BY <2>1, IdleFacts, Answered DEF Idle
<1> QED
  BY <1>1, <1>2, <1>3, InsertOpens, FindUserProves, CheckKeepsProof, SessionEnters
     DEF Serve

LEMMA DirectoryInit == Init => Directory!Init
BY DEF Init, Directory!Init, AccountsById, Exists, Shown, LoggingIn,
       ProofsOfLogins, Idle

(* The service keeps a directory of accounts, whatever requests run at the  *)
(* same time, whichever statements fail and whatever the operator does      *)
(* (service/register.go:17-50, service/logging.go:45-104, users.go:18-93).  *)
THEOREM DirectoryRefinement == Spec => KeepsDirectory
<1>1. Init => Directory!Init
  BY DirectoryInit
<1>2. AccountsInv /\ [Next]_vars => [Directory!Next]_Directory!directory
  <2> SUFFICES ASSUME AccountsInv, [Next]_vars
               PROVE  Directory!Next \/ UNCHANGED Directory!directory
    OBVIOUS
  <2>1. ASSUME NEW i \in Ids, Operate(i)
        PROVE  Directory!Next
    BY <2>1, SeedOpensOrResets, DeleteCloses DEF Operate
  <2>2. ASSUME NEW i \in Ids, ExpireAccess(i)
        PROVE  UNCHANGED Directory!directory
    BY <2>2, TablesAlone DEF ExpireAccess
  <2>3. CASE UNCHANGED vars
    BY <2>3, TablesAlone DEF vars
  <2> QED
    BY <2>1, <2>2, <2>3, ArrivalStep, ServiceStep DEF Next
<1> QED
  BY <1>1, <1>2, Invariance, PTL DEF Spec, KeepsDirectory, Directory!Spec
=============================================================================
