----------------------------- MODULE MCSessions -----------------------------
(* Instances of Sessions for TLC. *)
EXTENDS SessionsProperties, TLC

(* Tokens, request slots and users are interchangeable; the devices are not: *)
(* UnknownDevice is one of them.                                             *)
Symmetry ==
  Permutations(Tokens) \cup Permutations(Requests) \cup Permutations(Users)
=============================================================================
