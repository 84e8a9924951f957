---------------------------- MODULE TokenLedger ----------------------------
(***************************************************************************)
(* What the refresh endpoint promises, with no table, row or request in    *)
(* sight: a ledger of single-use tokens.  A token is issued once.  Whoever *)
(* presents a live token obtains a claim on it, and a claim buys exactly   *)
(* one new token and spends the old one.  A claim outlives the token it    *)
(* was made on: one that was made while the token was live can be redeemed *)
(* after somebody else spent or revoked the token, which is the most that  *)
(* the service promises to concurrent requests.  Tokens are revoked only   *)
(* by a logout or when a spent token is presented, and spent, revoked and  *)
(* expired tokens stay so.                                                 *)
(***************************************************************************)
CONSTANTS Tokens, Claimants

VARIABLES
  issued,   \* tokens ever issued
  spent,    \* tokens that bought a successor
  revoked,  \* tokens revoked
  expired,  \* tokens past their expiry
  claims    \* pairs <<c, t>>: claimant c may redeem token t

ledger == <<issued, spent, revoked, expired, claims>>

Live(t)     == t \in issued /\ t \notin spent \cup revoked \cup expired
ClaimsOf(c) == claims \cap ({c} \X Tokens)

Init ==
  /\ issued = {} /\ spent = {} /\ revoked = {} /\ expired = {}
  /\ claims = {}

(* A new token; one that was too long on its way is born expired. *)
Enter(t) ==
  /\ t \notin issued
  /\ issued' = issued \cup {t}
  /\ expired' \in {expired, expired \cup {t}}

Issue(t) == Enter(t) /\ UNCHANGED <<spent, revoked, claims>>

Claim(c, t) ==
  /\ Live(t)
  /\ ClaimsOf(c) = {}
  /\ claims' = claims \cup {<<c, t>>}
  /\ UNCHANGED <<issued, spent, revoked, expired>>

(* The claimant fails, gives up or dies. *)
Withdraw(c) ==
  /\ claims' = claims \ ClaimsOf(c)
  /\ UNCHANGED <<issued, spent, revoked, expired>>

Redeem(c, t, new) ==
  /\ <<c, t>> \in claims
  /\ Enter(new)
  /\ spent' = spent \cup {t}
  /\ claims' = claims \ ClaimsOf(c)
  /\ UNCHANGED revoked

Logout(t) ==
  /\ t \in issued
  /\ revoked' = revoked \cup {t}
  /\ UNCHANGED <<issued, spent, expired, claims>>

(* A spent token was presented: any issued tokens are revoked for it. *)
Reuse(t) ==
  /\ t \in spent
  /\ revoked \subseteq revoked' /\ revoked' \subseteq issued
  /\ UNCHANGED <<issued, spent, expired, claims>>

(* Time passes; claims that were not yet granted may lapse with it. *)
Expire ==
  /\ expired \subseteq expired' /\ expired' \subseteq issued
  /\ claims' \subseteq claims
  /\ UNCHANGED <<issued, spent, revoked>>

Next ==
  \/ Expire
  \/ \E t \in Tokens : Issue(t) \/ Logout(t) \/ Reuse(t)
  \/ \E c \in Claimants : Withdraw(c) \/ \E t \in Tokens : Claim(c, t)
  \/ \E c \in Claimants, t, new \in Tokens : Redeem(c, t, new)

Spec == Init /\ [][Next]_ledger
=============================================================================
