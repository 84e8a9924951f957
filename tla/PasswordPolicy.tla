--------------------------- MODULE PasswordPolicy ---------------------------
(***************************************************************************)
(* The password rules and the hashing of internal/security/password.go.    *)
(*                                                                         *)
(* A password is the sequence of the classes its runes fall into, as the   *)
(* switch of ValidatePassword tells them apart.  A hash is what it was     *)
(* made of: SHA-256, bcrypt and its salt never take two passwords for one. *)
(***************************************************************************)
EXTENDS Naturals, Sequences

Classes == {"lower", "upper", "digit", "symbol", "space", "other"}

DefaultPolicy ==
  [MinLength |-> 8, RequireLower |-> TRUE, RequireUpper |-> FALSE,
   RequireDigit |-> TRUE, RequireSymbol |-> FALSE, DisallowSpace |-> TRUE]

Has(pw, class) == \E n \in DOMAIN pw : pw[n] = class

(* Mutant: a password one rune short passes. *)
ValidateOffByOne(p, pw) ==
  IF Len(pw) + 1 < p.MinLength                 THEN "ErrPasswordTooShort"
  ELSE IF p.RequireLower /\ ~ Has(pw, "lower") THEN "ErrPasswordNoLower"
  ELSE IF p.RequireDigit /\ ~ Has(pw, "digit") THEN "ErrPasswordNoDigit"
  ELSE "ok"

(* The first violation found, "ok" if there is none.  The space is found    *)
(* while the runes are read, so it goes before the length.                  *)
ValidatePassword(p, pw) ==
  IF pw = << >> THEN "ErrEmptyPassword"
  ELSE IF p.DisallowSpace /\ Has(pw, "space")  THEN "ErrPasswordHasSpace"
  ELSE IF Len(pw) < p.MinLength                THEN "ErrPasswordTooShort"
  ELSE IF p.RequireLower  /\ ~ Has(pw, "lower")  THEN "ErrPasswordNoLower"
  ELSE IF p.RequireUpper  /\ ~ Has(pw, "upper")  THEN "ErrPasswordNoUpper"
  ELSE IF p.RequireDigit  /\ ~ Has(pw, "digit")  THEN "ErrPasswordNoDigit"
  ELSE IF p.RequireSymbol /\ ~ Has(pw, "symbol") THEN "ErrPasswordNoSymbol"
  ELSE "ok"

(* The input of bcrypt: SHA-256 of the password (main sets no pepper).      *)
preKDF(plain) == [digest |-> plain]

Hash == [digest : Seq(Classes)]

HashPassword(plain) == preKDF(plain)

(* CompareHashAndPassword, after the refusal of an empty password. *)
CheckPassword(hash, plain) == plain # << >> /\ hash = preKDF(plain)
=============================================================================
