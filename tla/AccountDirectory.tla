-------------------------- MODULE AccountDirectory --------------------------
(***************************************************************************)
(* What registration and login promise, with no request, row or index in   *)
(* sight: a directory in which an address names at most one account.  An   *)
(* account is opened once, under a number never used before, and nobody    *)
(* but the operator changes it.  Whoever shows an account's password while *)
(* it is the password has proved to own it, and a proof lets him in once,  *)
(* if the account is still there.  The password may have been reset in     *)
(* between: that much the service does not promise.                        *)
(***************************************************************************)
CONSTANTS Claimants, Ids, Addresses, Passwords, None

VARIABLES
  accounts,   \* accounts[i]: the account of number i, or None
  closed,     \* the numbers of closed accounts
  managed,    \* the numbers of accounts the operator opened or reset
  shown,      \* shown[c]: the address and password c shows, or None
  proofs,     \* pairs <<c, i>>: claimant c has proved to own account i
  signedIn    \* numbers of accounts somebody is signed in to

directory == <<accounts, closed, managed, shown, proofs, signedIn>>

Account == [address : Addresses, password : Passwords]

Opened(i)   == accounts[i] # None
ProofsOf(c) == proofs \cap ({c} \X Ids)

Init ==
  /\ accounts = [i \in Ids |-> None]
  /\ closed = {} /\ managed = {} /\ proofs = {} /\ signedIn = {}
  /\ shown = [c \in Claimants |-> None]

Open(i, account) ==
  /\ ~ Opened(i) /\ i \notin closed
  /\ \A j \in Ids : Opened(j) => accounts[j].address # account.address
  /\ accounts' = [accounts EXCEPT ![i] = account]
  /\ managed' \in {managed, managed \cup {i}}
  /\ UNCHANGED <<closed, shown, proofs, signedIn>>

(* The operator gives an account a new password, or closes it. *)
Reset(i, p) ==
  /\ Opened(i)
  /\ accounts' = [accounts EXCEPT ![i].password = p]
  /\ managed' = managed \cup {i}
  /\ UNCHANGED <<closed, shown, proofs, signedIn>>

Close(i) ==
  /\ Opened(i)
  /\ accounts' = [accounts EXCEPT ![i] = None]
  /\ closed' = closed \cup {i}
  /\ managed' = managed \ {i}
  /\ signedIn' = signedIn \ {i}
  /\ UNCHANGED <<shown, proofs>>

Show(c, account) ==
  /\ shown[c] = None
  /\ shown' = [shown EXCEPT ![c] = account]
  /\ UNCHANGED <<accounts, closed, managed, proofs, signedIn>>

Prove(c, i) ==
  /\ Opened(i)
  /\ shown[c] = accounts[i]
  /\ ProofsOf(c) = {}
  /\ proofs' = proofs \cup {<<c, i>>}
  /\ UNCHANGED <<accounts, closed, managed, shown, signedIn>>

Leave(c) ==
  /\ proofs' = proofs \ ProofsOf(c)
  /\ shown' = [shown EXCEPT ![c] = None]
  /\ UNCHANGED <<accounts, closed, managed>>

(* The claimant fails, gives up or dies. *)
Withdraw(c) == Leave(c) /\ UNCHANGED signedIn

Enter(c, i) ==
  /\ <<c, i>> \in proofs
  /\ Opened(i)
  /\ signedIn' = signedIn \cup {i}
  /\ Leave(c)

Next ==
  \/ \E c \in Claimants : Withdraw(c) \/ \E i \in Ids : Enter(c, i) \/ Prove(c, i)
  \/ \E i \in Ids : Close(i) \/ \E p \in Passwords : Reset(i, p)
  \/ \E account \in Account :
       \/ \E i \in Ids : Open(i, account)
       \/ \E c \in Claimants : Show(c, account)

Spec == Init /\ [][Next]_directory
=============================================================================
