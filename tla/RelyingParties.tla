--------------------------- MODULE RelyingParties ---------------------------
(***************************************************************************)
(* The JWKS endpoint (internal/httpserver/handlers/jwks.go) and the        *)
(* services that verify access tokens with it.  A relying party keeps the  *)
(* key set it fetched for the max-age it came with and then asks again,    *)
(* with the ETag it has, any instance that runs.  The keys, the instances  *)
(* and the operator are those of SigningKeys.                              *)
(***************************************************************************)
EXTENDS SigningKeys

CONSTANTS
  Parties,  \* relying parties
  MaxAge,   \* JWKS_MAX_AGE in clock ticks
  NoTag     \* no If-None-Match

Tag == [weak : BOOLEAN, of : SUBSET Kids]

ASSUME PartiesAssumption ==
  /\ MaxAge \in Nat \ {0}
  /\ NoTag \notin Tag

VARIABLES
  party,   \* party[p]: the key set that p has cached
  waited   \* waited[k]: ticks for which k has been deployed, up to MaxAge

world == <<vars, party, waited>>

Cache ==
  [keys   : Load,
   tag    : Tag \cup {NoTag},
   left   : 0..MaxAge,                \* ticks for which it is still fresh
   status : {"none", "200", "304"}]   \* of the last answer

Fresh(p) == party[p].left > 0

-----------------------------------------------------------------------------
(* GET /.well-known/jwks.json                                              *)

(* The ETag of a body, whose first two characters are W/. *)
weakETag(body) == [weak |-> TRUE, of |-> body]

(* What instance i publishes.  The body is never empty: main does not start *)
(* without a KEYS_DIR (config.go:54), and no other error of refresh exists. *)
Current(i) == [body |-> proc[i].jwks, etag |-> weakETag(proc[i].jwks.found)]

(* strings.TrimPrefix(v, "W/") *)
TrimPrefix(v) == [v EXCEPT !.weak = FALSE]

(* Mutant: any validator will do. *)
MatchesAny(inm, etag) == inm # NoTag

(* The client's tag has lost its W/ when it is compared with one that has.  *)
Matches(inm, etag) == inm # NoTag /\ TrimPrefix(inm) = etag

(* p asks i; what it gets is kept for max-age from now on. *)
JWKSHandler(p, i) ==
  /\ Running(i)
  /\ party' = [party EXCEPT ![p] =
       IF Matches(@.tag, Current(i).etag)
       THEN [@ EXCEPT !.left = MaxAge, !.status = "304"]
       ELSE [keys |-> Current(i).body, tag |-> Current(i).etag, left |-> MaxAge,
             status |-> "200"]]
  /\ UNCHANGED <<vars, waited>>

-----------------------------------------------------------------------------
(* The operator switches to a key that has been published for max-age, a    *)
(* wait the runbook does not ask for.                                       *)

Waited(k) == waited[k] = MaxAge

(* What is left of the wait after a step during which d ticks passed. *)
Wait(d) ==
  waited' = [k \in Kids |->
    IF ~ Deployed(k)' THEN 0
    ELSE IF Waited(k) THEN MaxAge ELSE waited[k] + d]

TimePasses ==
  /\ Tick
  /\ party' = [p \in Parties |->
       IF Fresh(p) THEN [party[p] EXCEPT !.left = @ - 1] ELSE party[p]]
  /\ Wait(1)

Switch(i) ==
  \/ \E k \in Kids : Waited(k) /\ (SetSigningKid(i, k) \/ SetRuntimeKid(i, k))
  \/ SetRuntimeKid(i, NoKid)

Provide(i) ==
  /\ \/ Start(i) \/ NewProvider(i) \/ NewSigner(i) \/ Terminate(i) \/ Exit(i)
     \/ SignerReload(i) \/ JwksReload(i)
     \/ SignAccess(i)
     \/ \E k \in Kids : Deploy(i, k) \/ Remove(i, k)
     \/ Switch(i) \/ DirFault(i) \/ FileFault(i)
  /\ Wait(0)
  /\ UNCHANGED party

PartiesInit ==
  /\ Init
  /\ party = [p \in Parties |->
       [keys |-> Nothing, tag |-> NoTag, left |-> 0, status |-> "none"]]
  /\ waited = [k \in Kids |-> IF k = FirstKid THEN MaxAge ELSE 0]

PartiesNext ==
  \/ TimePasses
  \/ \E i \in Instances : Provide(i) \/ \E p \in Parties : JWKSHandler(p, i)

PartiesSpec == PartiesInit /\ [][PartiesNext]_world

(* The tickers of StartAutoReload and StartAutoRefresh fire again and again, *)
(* whatever the parties do.                                                 *)
PartiesFairSpec ==
  /\ PartiesSpec
  /\ \A i \in Instances :
       /\ WF_world(SignerReload(i) /\ Wait(0) /\ UNCHANGED party)
       /\ WF_world(JwksReload(i) /\ Wait(0) /\ UNCHANGED party)

-----------------------------------------------------------------------------
(* A relying party with a fresh key set can verify every unexpired token of *)
(* every instance, through a whole rotation with restarts, reloads and      *)
(* failing directories, unless the key set was published by a pass that     *)
(* skipped the file of that key: what is published runs ahead of what signs *)
(* by what a cache may be behind (handlers/jwks.go:16-52,                   *)
(* provider.go:48-105).                                                     *)
PartiesVerify ==
  \A p \in Parties, t \in tokens :
    Fresh(p) => t.kid \in Seen(party[p].keys)

(* "It supports conditional GETs via If-None-Match/ETag to save bandwidth"  *)
(* (handlers/jwks.go:17): a party that asks with the ETag it has, and gets  *)
(* the same one, is answered 304.                                           *)
ConditionalGetSaves ==
  [][\A p \in Parties :
       party'[p].left > party[p].left /\ party'[p].tag = party[p].tag =>
         party'[p].status = "304"]_world
=============================================================================
