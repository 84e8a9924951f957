------------------------ MODULE RelyingPartiesProofs ------------------------
(***************************************************************************)
(* Proof that whoever caches a JWKS for max-age can verify every unexpired *)
(* token, for any number of parties, instances and keys, any ACCESS_TTL    *)
(* and any max-age.                                                        *)
(***************************************************************************)
EXTENDS RelyingParties, SigningKeysProofs

USE KeysAssumption, PartiesAssumption

PartiesTypeOK ==
  /\ party \in [Parties -> Cache]
  /\ waited \in [Kids -> 0..MaxAge]

(* A needed key was seen by the pass that made any fresh cache; if it is    *)
(* only deployed, what is left of a cache without it is what is left of the *)
(* wait.                                                                    *)
CachesKeepUp ==
  \A p \in Parties, k \in Kids :
    Fresh(p) /\ k \notin Seen(party[p].keys) =>
      /\ ~ Needed(k)
      /\ Deployed(k) => party[p].left + waited[k] <= MaxAge

PartiesInv ==
  /\ PartiesTypeOK
  /\ CachesKeepUp
  /\ \A k \in Kids : ~ Deployed(k) => waited[k] = 0

-----------------------------------------------------------------------------
LEMMA PartyFields ==
  ASSUME PartiesTypeOK, NEW p \in Parties
  PROVE  /\ party[p].keys \in Load /\ party[p].tag \in Tag \cup {NoTag}
         /\ party[p].left \in 0..MaxAge
         /\ party[p].status \in {"none", "200", "304"}
BY DEF PartiesTypeOK, Cache

(* Steps of the parties' world are steps of SigningKeys. *)
LEMMA WorldIsKeys == [PartiesNext]_world => [Next]_vars
<1> SUFFICES ASSUME [PartiesNext]_world
             PROVE  Next \/ UNCHANGED vars
  OBVIOUS
<1>1. ASSUME NEW i \in Instances, Provide(i)
      PROVE  Next
  BY <1>1 DEF Provide, Switch, Next, Operate
<1>2. ASSUME NEW i \in Instances, NEW p \in Parties, JWKSHandler(p, i)
      PROVE  UNCHANGED vars
  BY <1>2 DEF JWKSHandler
<1>3. CASE TimePasses
  BY <1>3 DEF TimePasses, Next
<1>4. CASE UNCHANGED world
  BY <1>4 DEF world
<1> QED
  BY <1>1, <1>2, <1>3, <1>4 DEF PartiesNext

(* The tag of a cache is never recognised. *)
LEMMA NeverMatches ==
  ASSUME PartiesTypeOK, NEW p \in Parties, NEW i \in Instances
  PROVE  ~ Matches(party[p].tag, Current(i).etag)
<1>1. CASE party[p].tag = NoTag
  BY <1>1 DEF Matches
<1>2. CASE party[p].tag \in Tag
  <2>1. TrimPrefix(party[p].tag).weak = FALSE
    BY <1>2 DEF TrimPrefix, Tag
  <2>2. Current(i).etag.weak = TRUE
    BY DEF Current, weakETag
  <2> QED
    BY <2>1, <2>2 DEF Matches
<1> QED
  BY <1>1, <1>2, PartyFields

(* A step that makes no key needed and no cache younger, over d ticks. *)
LEMMA CachesAge ==
  ASSUME PartiesInv, NEW d \in {0, 1}, Wait(d), party' \in [Parties -> Cache],
         NeededKids' \subseteq NeededKids,
         d = 1 => \A k \in Kids : Deployed(k)' => Deployed(k),
         \A p \in Parties :
           /\ party'[p].keys = party[p].keys
           /\ Fresh(p)' => party'[p].left + d = party[p].left
  PROVE  PartiesInv'
<1>1. ASSUME NEW k \in Kids
      PROVE  /\ waited[k] \in 0..MaxAge /\ waited'[k] \in 0..MaxAge
             /\ ~ Deployed(k)' => waited'[k] = 0
             /\ Deployed(k)' => waited'[k] <= waited[k] + d
  <2>1. waited[k] \in 0..MaxAge /\ (~ Deployed(k) => waited[k] = 0)
    BY DEF PartiesInv, PartiesTypeOK
  <2>2. waited'[k] = IF ~ Deployed(k)' THEN 0
                     ELSE IF waited[k] = MaxAge THEN MaxAge ELSE waited[k] + d
    BY Zenon DEF Wait, Waited
  <2>3. CASE Deployed(k)'
    <3>1. waited'[k] = IF waited[k] = MaxAge THEN MaxAge ELSE waited[k] + d
      BY <2>2, <2>3
    <3> QED
      BY <2>1, <2>3, <3>1
  <2>4. CASE ~ Deployed(k)'
    BY <2>1, <2>2, <2>4
  <2> QED
    BY <2>3, <2>4
<1>2. PartiesTypeOK'
  BY <1>1 DEF PartiesTypeOK, Wait
<1>3. ASSUME NEW p \in Parties, NEW k \in Kids, Fresh(p)', k \notin Seen(party'[p].keys)
      PROVE  /\ ~ Needed(k)'
             /\ Deployed(k)' => party'[p].left + waited'[k] <= MaxAge
  <2>1. party[p].left \in 0..MaxAge /\ party'[p].left \in 0..MaxAge
    BY <1>2, PartyFields DEF PartiesInv, PartiesTypeOK, Cache
  <2>2. party'[p].left + d = party[p].left /\ party'[p].left > 0
    BY <1>3 DEF Fresh
  <2>3. Fresh(p) /\ k \notin Seen(party[p].keys)
    BY <1>3, <2>1, <2>2 DEF Fresh
  <2>4. ~ Needed(k) /\ (Deployed(k) => party[p].left + waited[k] <= MaxAge)
    BY <2>3 DEF PartiesInv, CachesKeepUp
  <2>5. ~ Needed(k)'
    BY <2>4 DEF NeededKids
  <2>6. ASSUME Deployed(k)'
        PROVE  party'[p].left + waited'[k] <= MaxAge
    <3>1. CASE Deployed(k)
      BY <1>1, <2>1, <2>2, <2>4, <2>6, <3>1
    <3>2. CASE ~ Deployed(k)
      <4>1. d = 0 /\ waited[k] = 0
        BY <2>6, <3>2 DEF PartiesInv
      <4> QED
        BY <1>1, <2>1, <2>6, <4>1
    <3> QED
      BY <3>1, <3>2
  <2> QED
    BY <2>5, <2>6
<1> QED
  BY <1>1, <1>2, <1>3 DEF PartiesInv, CachesKeepUp

LEMMA TimeOK ==
  ASSUME TypeOK, RotationInv, PartiesInv, TimePasses
  PROVE  PartiesInv'
<1>1. NeededKids' \subseteq NeededKids /\ Wait(1)
  BY TickKeeps DEF TimePasses
<1>2. \A k \in Kids : Deployed(k)' => Deployed(k)
  BY DEF TimePasses, Tick, Deployed, dirs
<1>3. ASSUME NEW p \in Parties
      PROVE  /\ party'[p] \in Cache /\ party'[p].keys = party[p].keys
             /\ Fresh(p)' => party'[p].left + 1 = party[p].left
  <2>1. party[p] \in Cache /\ party[p].left \in 0..MaxAge
    BY PartyFields DEF PartiesInv, PartiesTypeOK
  <2>2. CASE Fresh(p)
    <3> DEFINE older == [party[p] EXCEPT !.left = @ - 1]
    <3>1. party'[p] = older
      BY <2>2 DEF TimePasses
    <3>2. /\ older \in Cache /\ older.keys = party[p].keys
          /\ older.left = party[p].left - 1
      BY <2>1, <2>2 DEF Cache, Fresh
    <3> HIDE DEF older
    <3> QED
      BY <2>1, <3>1, <3>2
  <2>3. CASE ~ Fresh(p)
    BY <2>1, <2>3 DEF TimePasses, Fresh
  <2> QED
    BY <2>2, <2>3
<1>4. party' \in [Parties -> Cache]
  BY <1>3 DEF TimePasses
<1> QED
  BY <1>1, <1>2, <1>3, <1>4, CachesAge

(* A key that is switched to has been deployed for max-age, so that every   *)
(* fresh cache has it.                                                      *)
LEMMA SwitchOK ==
  ASSUME TypeOK, PartiesInv, NEW i \in Instances, Switch(i), Wait(0),
         UNCHANGED party
  PROVE  PartiesInv'
<1>1. UNCHANGED <<files, proc, tokens, idle, retired>>
  BY DEF Switch, SetRuntimeKid, SetSigningKid, dirs
<1>2. \A k \in Kids : Deployed(k)' <=> Deployed(k)
  BY <1>1 DEF Deployed
<1>3. \A k \in Kids : waited'[k] = waited[k]
  BY <1>2 DEF Wait, Waited, PartiesInv, PartiesTypeOK
<1>4. ASSUME NEW k \in Kids, Needed(k)', ~ Needed(k)
      PROVE  Waited(k) /\ Deployed(k)
  BY <1>1, <1>4 DEF Switch, SetRuntimeKid, SetSigningKid, TypeOK, Environment,
       Needed, Named, Active
<1>5. ASSUME NEW p \in Parties, NEW k \in Kids, Fresh(p),
             k \notin Seen(party[p].keys)
      PROVE  ~ Needed(k)'
  BY <1>4, <1>5, PartyFields DEF PartiesInv, CachesKeepUp, Fresh, Waited
<1>6. PartiesTypeOK'
  BY <1>3 DEF PartiesInv, PartiesTypeOK, Wait
<1> QED
  BY <1>2, <1>3, <1>5, <1>6 DEF PartiesInv, CachesKeepUp, Fresh

LEMMA ProvideOK ==
  ASSUME TypeOK, RotationInv, PartiesInv, NEW i \in Instances, Provide(i)
  PROVE  PartiesInv'
<1>1. Wait(0) /\ UNCHANGED party
  BY DEF Provide
<1>2. CASE Switch(i)
  BY <1>1, <1>2, SwitchOK
<1>3. CASE NeededKids' \subseteq NeededKids
  <2>1. /\ party' \in [Parties -> Cache]
        /\ \A p \in Parties :
             /\ party'[p].keys = party[p].keys
             /\ Fresh(p)' => party'[p].left + 0 = party[p].left
    BY <1>1, PartyFields DEF PartiesInv, PartiesTypeOK
  <2> QED
    BY <1>1, <1>3, <2>1, CachesAge
<1>4. Switch(i) \/ NeededKids' \subseteq NeededKids
  <2>1. ASSUME DirFault(i) \/ FileFault(i)
        PROVE  NeededKids' \subseteq NeededKids
    BY <2>1, UntouchedKeeps DEF DirFault, FileFault
  <2> QED
    BY <2>1, StartKeeps, EndKeeps, ReloadKeeps, SignKeeps, DeployKeeps, RemoveKeeps
       DEF Provide
<1> QED
  BY <1>2, <1>3, <1>4

(* What is fetched has every key that is needed or deployed. *)
LEMMA FetchOK ==
  ASSUME TypeOK, RotationInv, PartiesInv, NEW p \in Parties, NEW i \in Instances,
         JWKSHandler(p, i)
  PROVE  PartiesInv'
<1> DEFINE fetched == [keys |-> Current(i).body, tag |-> Current(i).etag,
                       left |-> MaxAge, status |-> "200"]
<1>1. party' = [party EXCEPT ![p] = fetched] /\ UNCHANGED <<vars, waited>>
  BY NeverMatches DEF JWKSHandler, PartiesInv
<1>2. fetched \in Cache /\ fetched.keys = proc[i].jwks /\ fetched.left = MaxAge
  <2>1. proc[i].jwks \in Load /\ proc[i].jwks.found \subseteq Kids
    BY ProcessFields DEF Load
  <2> QED
    BY <2>1 DEF Cache, Current, weakETag, Tag
<1> HIDE DEF fetched
<1>3. PartiesTypeOK'
  BY <1>1, <1>2 DEF PartiesInv, PartiesTypeOK
<1>4. ASSUME NEW k \in Kids
      PROVE  /\ Needed(k)' <=> Needed(k)
             /\ Deployed(k)' <=> Deployed(k)
  BY <1>1 DEF vars, dirs, Needed, Named, Active, Deployed
<1>5. ASSUME NEW k \in Kids, Needed(k) \/ Deployed(k)
      PROVE  k \in Seen(proc[i].jwks)
  BY <1>5 DEF JWKSHandler, RotationInv, Keeps, Loaded, Deployed, Running, Seen
<1>6. CachesKeepUp'
  <2> SUFFICES ASSUME NEW x \in Parties, NEW k \in Kids,
                      Fresh(x)', k \notin Seen(party'[x].keys)
               PROVE  /\ ~ Needed(k)
                      /\ Deployed(k) => party'[x].left + waited[k] <= MaxAge
    BY <1>1, <1>4 DEF CachesKeepUp
  <2>1. CASE x = p
    BY <1>1, <1>2, <1>5, <2>1 DEF PartiesInv, PartiesTypeOK
  <2>2. CASE x # p
    <3>1. party'[x] = party[x]
      BY <1>1, <2>2 DEF PartiesInv, PartiesTypeOK
    <3> QED
      BY <3>1 DEF PartiesInv, CachesKeepUp, Fresh
  <2> QED
    BY <2>1, <2>2
<1> QED
  BY <1>1, <1>3, <1>4, <1>6 DEF PartiesInv

-----------------------------------------------------------------------------
(* Relying parties only watch: with them the instances and the operator do  *)
(* what SigningKeys lets them do (handlers/jwks.go:16-52).                  *)
THEOREM PartiesOnlyWatch == PartiesSpec => Spec
<1>1. PartiesInit => Init
  BY DEF PartiesInit
<1> QED
  BY <1>1, WorldIsKeys, PTL DEF PartiesSpec, Spec

(* So a running process loses its active key only to a file that its pass   *)
(* could not load, whatever the parties ask for (signer.go:70-94,           *)
(* provider.go:84-155).                                                     *)
COROLLARY ActiveKeyKeptWatched == PartiesSpec => KeyLostOnlyIfMissed
BY PartiesOnlyWatch, ActiveKeyKept

(* What every state of the parties' world satisfies. *)
LEMMA PartiesInvariance == PartiesSpec => [](TypeOK /\ RotationInv /\ PartiesInv)
<1>1. PartiesInit => PartiesInv
  <2> SUFFICES ASSUME PartiesInit
               PROVE  PartiesInv
    OBVIOUS
  <2>1. PartiesTypeOK
    BY DEF PartiesInit, PartiesTypeOK, Cache, Nothing, Load
  <2>2. \A p \in Parties : ~ Fresh(p)
    BY DEF PartiesInit, Fresh
  <2>3. Deployed(FirstKid)
    BY DEF PartiesInit, Init, Deployed, Down
  <2> QED
    BY <2>1, <2>2, <2>3 DEF PartiesInit, PartiesInv, CachesKeepUp
<1>2. PartiesSpec => []TypeOK /\ []RotationInv
  BY PartiesOnlyWatch, KeysTypeCorrect, RotationInvariance
<1>3. ASSUME TypeOK, RotationInv, PartiesInv, [PartiesNext]_world
      PROVE  PartiesInv'
  <2>1. CASE UNCHANGED world
    <3>1. UNCHANGED <<party, waited>>
      BY <2>1 DEF world
    <3>2. \A k \in Kids : (Needed(k)' <=> Needed(k)) /\ (Deployed(k)' <=> Deployed(k))
      BY <2>1 DEF world, vars, dirs, Needed, Named, Active, Deployed
    <3> QED
      BY <1>3, <3>1, <3>2 DEF PartiesInv, PartiesTypeOK, CachesKeepUp, Fresh
  <2> QED
    BY <1>3, <2>1, TimeOK, ProvideOK, FetchOK DEF PartiesNext
<1> QED
  BY <1>1, <1>2, <1>3, PTL DEF PartiesSpec

(* A relying party with a fresh key set can verify every unexpired token    *)
(* whose key was not skipped by the pass that made the key set, if the      *)
(* operator waits max-age between deploying a key and switching to it       *)
(* (handlers/jwks.go:16-52, provider.go:48-105).                            *)
THEOREM CachesVerify == PartiesSpec => []PartiesVerify
<1>1. TypeOK /\ RotationInv /\ PartiesInv => PartiesVerify
  BY TokensNeedKeys
     DEF PartiesVerify, PartiesInv, CachesKeepUp, NeededKids
<1> QED
  BY <1>1, PartiesInvariance, PTL

-----------------------------------------------------------------------------
(* What a party has after a step, in terms of what it had. *)
LEMMA PartyStep ==
  ASSUME TypeOK, PartiesInv, [PartiesNext]_world, NEW p \in Parties
  PROVE  \/ /\ party'[p].keys = party[p].keys
            /\ party'[p].status = party[p].status
            /\ Fresh(p)' => Fresh(p)
         \/ /\ party'[p].status = "200"
            /\ \E i \in Instances : Running(i) /\ party'[p].keys = proc[i].jwks
<1>1. party \in [Parties -> Cache] /\ party[p] \in Cache
  BY DEF PartiesInv, PartiesTypeOK
<1>2. CASE UNCHANGED party
  BY <1>2 DEF Fresh
<1>3. CASE TimePasses
  <2>1. party'[p] = IF Fresh(p) THEN [party[p] EXCEPT !.left = @ - 1] ELSE party[p]
    BY <1>3 DEF TimePasses
  <2> QED
    BY <1>1, <2>1 DEF Cache, Fresh
<1>4. ASSUME NEW q \in Parties, NEW i \in Instances, JWKSHandler(q, i)
      PROVE  \/ party'[p] = party[p]
             \/ /\ party'[p].status = "200"
                /\ Running(i) /\ party'[p].keys = proc[i].jwks
  <2>1. /\ Running(i)
        /\ party' = [party EXCEPT ![q] =
             [keys |-> Current(i).body, tag |-> Current(i).etag,
              left |-> MaxAge, status |-> "200"]]
    BY <1>4, NeverMatches DEF JWKSHandler, PartiesInv
  <2> QED
    BY <1>1, <2>1 DEF Current
<1> QED
  BY <1>2, <1>3, <1>4 DEF PartiesNext, Provide, world, Fresh

(* "It supports conditional GETs via If-None-Match/ETag to save bandwidth"  *)
(* (handlers/jwks.go:17): no party is ever answered 304, whatever is        *)
(* published and however often it asks with the ETag it was given.          *)
THEOREM NeverNotModified ==
  PartiesSpec => [](\A p \in Parties : party[p].status # "304")
<1> DEFINE Never == \A p \in Parties : party[p].status # "304"
<1>1. PartiesInit => Never
  BY DEF PartiesInit
<1>2. TypeOK /\ PartiesInv /\ Never /\ [PartiesNext]_world => Never'
  BY PartyStep
<1> QED
  BY <1>1, <1>2, PartiesInvariance, PTL DEF PartiesSpec

(* With directories that can be listed and key files that can be loaded a   *)
(* fresh cache verifies every unexpired token, from the first answer on     *)
(* (handlers/jwks.go:16-52, provider.go:84-155).                            *)
THEOREM CachesVerifyIntact ==
  ASSUME DirFaults = {}, FileFaults = {}
  PROVE  PartiesSpec => [](\A p \in Parties, t \in tokens :
                             Fresh(p) => t.kid \in party[p].keys.found)
<1> DEFINE Complete == \A p \in Parties : party[p].keys.missed = {}
           Good == \A p \in Parties, t \in tokens :
             Fresh(p) => t.kid \in party[p].keys.found
<1>1. PartiesInit => Complete
  BY DEF PartiesInit, Nothing
<1>2. TypeOK /\ PartiesInv /\ DirsIntact /\ Complete /\ [PartiesNext]_world
        => Complete'
  BY PartyStep DEF DirsIntact, MissesNothing
<1>3. PartiesVerify /\ Complete => Good
  BY DEF PartiesVerify, Seen
<1>4. PartiesSpec => []DirsIntact
  BY PartiesOnlyWatch, DirsIntactInvariance
<1> QED
  BY <1>1, <1>2, <1>3, <1>4, PartiesInvariance, CachesVerify, PTL DEF PartiesSpec
=============================================================================
