----------------------------- MODULE MCAccounts -----------------------------
(* Instances of Accounts for TLC. *)
EXTENDS AccountsProperties, TLC

Repeat(class, n) == [k \in 1..n |-> class]

(* Two passwords the policy accepts, one that is a rune short, none.        *)
MCPasswords ==
  {Repeat("lower", 7) \o <<"digit">>,
   <<"digit", "upper", "symbol">> \o Repeat("lower", 6),
   Repeat("lower", 6) \o <<"digit">>,
   << >>}

Symmetry ==
  Permutations(Requests) \cup Permutations(Ids)
    \cup Permutations(Addresses) \cup Permutations(Spellings)
=============================================================================
