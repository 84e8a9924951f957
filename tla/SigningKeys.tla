----------------------------- MODULE SigningKeys -----------------------------
(***************************************************************************)
(* The keys that sign and verify access tokens: internal/auth/signer and   *)
(* internal/auth/jwks in one or several instances of the service, started  *)
(* and stopped by cmd/shelf-auth/main.go, over PEM files that an operator  *)
(* deploys and removes by the runbook of README.md, "Key Rotation".        *)
(*                                                                         *)
(* A key file is named by its kid; a file of one kid always holds one key, *)
(* so a kid stands for its key.  Each instance reloads the signer's keys    *)
(* and the published JWKS in two goroutines: a scan of the directory and    *)
(* the replacement of the map (the body) under the lock are separate steps. *)
(***************************************************************************)
EXTENDS Naturals

CONSTANTS
  Instances,  \* processes of the service, each with a KEYS_DIR of its own
  Kids,       \* key ids
  FirstKid,   \* the key the system is set up with
  NoKid,      \* an unset ACTIVE_KID_RUNTIME
  AccessTTL,  \* ACCESS_TTL in clock ticks
  DirFaults,  \* the instances whose KEYS_DIR may become impossible to list
  FileFaults  \* the kids whose files may become impossible to load

ASSUME KeysAssumption ==
  /\ FirstKid \in Kids
  /\ NoKid \notin Kids
  /\ AccessTTL \in Nat \ {0}
  /\ DirFaults \subseteq Instances
  /\ FileFaults \subseteq Kids

VARIABLES
  files,     \* files[i]: kids of the PEM files put into the KEYS_DIR of i
  readable,  \* readable[i]: whether that directory can be listed
  broken,    \* broken[i]: the files in it that are malformed, unreadable or
             \* hidden by a volume that is not mounted
  env,       \* env[i]: SIGNING_KEY_KID and ACTIVE_KID_RUNTIME of i
  proc,      \* proc[i]: the process of i
  tokens,    \* the access tokens that are not past their exp
  idle,      \* idle[k]: ticks since a running process had k active, up to TTL
  retired    \* the kids removed from some instance

dirs == <<files, readable, broken>>
vars == <<dirs, env, proc, tokens, idle, retired>>

Environment == [signing : Kids, runtime : Kids \cup {NoKid}]

(* What one pass over KEYS_DIR loads.  missed is history: the files that    *)
(* were there and that the pass skipped.                                   *)
Load == [found : SUBSET Kids, missed : SUBSET Kids]

Nothing == [found |-> {}, missed |-> {}]
Seen(l) == l.found \cup l.missed

Process ==
  [mode     : {"down", "configured", "published", "up", "draining"},
   kid      : Kids,                \* Signer.kid; before it cfg.SigningKeyKID
   override : Kids \cup {NoKid},   \* cfg.ActiveKIDRuntime, until it is used
   keys     : Load,                \* Signer.keys
   jwks     : Load,                \* Provider.body
   scan     : SUBSET Load,         \* tmp of Signer.reload, once it has one
   jwksScan : SUBSET Load]         \* payload of Provider.refresh, likewise

(* A token is what is left of its life; the clock itself is not needed. *)
Token == [kid : Kids, left : 1..AccessTTL]

Running(i) == proc[i].mode \in {"up", "draining"}

(* The kids that process s signs with, or may sign with once it has started. *)
Chosen(s) ==
  IF s.mode = "down" THEN {} ELSE {s.kid, s.override} \ {NoKid}

Active(k) == \E i \in Instances : k \in Chosen(proc[i])

-----------------------------------------------------------------------------
(* Signer and Provider.                                                    *)

(* Mutant: a pass that stops at the first file it cannot load. *)
KeysInStops(i) ==
  IF readable[i] /\ files[i] \cap broken[i] = {}
  THEN [found |-> files[i], missed |-> {}]
  ELSE [found |-> {}, missed |-> files[i] \cap broken[i]]

(* A pass over KEYS_DIR skips what it cannot load, and WalkDir's callback   *)
(* skips the directory itself if it cannot be listed.                      *)
KeysIn(i) ==
  IF readable[i]
  THEN [found |-> files[i] \ broken[i], missed |-> files[i] \cap broken[i]]
  ELSE [found |-> {}, missed |-> files[i]]

Become(i, s) ==
  /\ proc' = [proc EXCEPT ![i] = s]
  /\ idle' = [k \in Kids |-> IF Active(k)' THEN 0 ELSE idle[k]]

(* A process without keys, as it is before it starts. *)
Down == [mode |-> "down", kid |-> FirstKid, override |-> NoKid,
         keys |-> Nothing, jwks |-> Nothing, scan |-> {}, jwksScan |-> {}]

(* config.Load *)
Start(i) ==
  /\ proc[i].mode = "down"
  /\ Become(i, [Down EXCEPT !.mode = "configured", !.kid = env[i].signing,
                            !.override = env[i].runtime])
  /\ UNCHANGED <<dirs, env, tokens, retired>>

NewProvider(i) ==
  /\ proc[i].mode = "configured"
  /\ Become(i, [proc[i] EXCEPT !.mode = "published", !.jwks = KeysIn(i)])
  /\ UNCHANGED <<dirs, env, tokens, retired>>

(* Mutant: the override taken without a look at the loaded keys. *)
NewSignerUnchecked(i) ==
  /\ proc[i].mode = "published"
  /\ Become(i, [proc[i] EXCEPT !.mode = "up", !.keys = KeysIn(i),
                               !.kid = proc[i].override, !.override = NoKid])
  /\ UNCHANGED <<dirs, env, tokens, retired>>

(* signer.New, with an empty map after an error of ReadDir, and the         *)
(* override of the active kid by main.                                     *)
NewSigner(i) ==
  /\ proc[i].mode = "published"
  /\ LET keys == KeysIn(i)
     IN  Become(i, [proc[i] EXCEPT
           !.mode = "up", !.keys = keys, !.override = NoKid,
           !.kid  = IF proc[i].override \in keys.found
                    THEN proc[i].override ELSE proc[i].kid])
  /\ UNCHANGED <<dirs, env, tokens, retired>>

(* Mutant: the error of ReadDir taken for an empty directory. *)
SignerScanNoError(i) ==
  /\ proc[i].mode = "up" /\ proc[i].scan = {}
  /\ Become(i, [proc[i] EXCEPT !.scan =
       {IF readable[i] THEN KeysIn(i) ELSE Nothing}])
  /\ UNCHANGED <<dirs, env, tokens, retired>>

(* reload keeps what it has after an error of ReadDir. *)
SignerScan(i) ==
  /\ proc[i].mode = "up" /\ proc[i].scan = {}
  /\ readable[i]
  /\ Become(i, [proc[i] EXCEPT !.scan = {KeysIn(i)}])
  /\ UNCHANGED <<dirs, env, tokens, retired>>

(* Mutant: a reload that adds keys and forgets none. *)
SignerInstallAdds(i) ==
  /\ Running(i)
  /\ \E found \in proc[i].scan :
       Become(i, [proc[i] EXCEPT !.keys.found = @ \cup found.found,
                                 !.scan = {}])
  /\ UNCHANGED <<dirs, env, tokens, retired>>

(* Mutant: a reload that keeps the active key alone. *)
SignerInstallActive(i) ==
  /\ Running(i)
  /\ \E found \in proc[i].scan :
       Become(i, [proc[i] EXCEPT
         !.keys = [found EXCEPT !.found = @ \cap {proc[i].kid}], !.scan = {}])
  /\ UNCHANGED <<dirs, env, tokens, retired>>

SignerInstall(i) ==
  /\ Running(i)
  /\ \E found \in proc[i].scan :
       Become(i, [proc[i] EXCEPT !.keys = found, !.scan = {}])
  /\ UNCHANGED <<dirs, env, tokens, retired>>

JwksScan(i) ==
  /\ proc[i].mode = "up" /\ proc[i].jwksScan = {}
  /\ Become(i, [proc[i] EXCEPT !.jwksScan = {KeysIn(i)}])
  /\ UNCHANGED <<dirs, env, tokens, retired>>

JwksInstall(i) ==
  /\ Running(i)
  /\ \E found \in proc[i].jwksScan :
       Become(i, [proc[i] EXCEPT !.jwks = found, !.jwksScan = {}])
  /\ UNCHANGED <<dirs, env, tokens, retired>>

(* With its active key not loaded SignAccess fails and changes nothing. *)
SignAccess(i) ==
  /\ Running(i)
  /\ proc[i].kid \in proc[i].keys.found
  /\ tokens' = tokens \cup {[kid |-> proc[i].kid, left |-> AccessTTL]}
  /\ UNCHANGED <<dirs, env, proc, idle, retired>>

(* SIGTERM stops the reloaders; requests are served until Shutdown returns. *)
(* A crash is the two steps at once; a start may fail.                     *)
Terminate(i) ==
  /\ proc[i].mode = "up"
  /\ Become(i, [proc[i] EXCEPT !.mode = "draining"])
  /\ UNCHANGED <<dirs, env, tokens, retired>>

Exit(i) ==
  /\ proc[i].mode \in {"configured", "published", "draining"}
  /\ Become(i, Down)
  /\ UNCHANGED <<dirs, env, tokens, retired>>

(* VerifyAccess: i accepts a token of kid k that is not past its exp. *)
Verifies(i, k) == k \in proc[i].keys.found

-----------------------------------------------------------------------------
(* The operator, by the runbook.                                           *)

(* 1, 2: add a key, under a new name, and deploy it, instance by instance. *)
Deploy(i, k) ==
  /\ k \notin files[i] \cup retired
  /\ files' = [files EXCEPT ![i] = @ \cup {k}]
  /\ UNCHANGED <<readable, broken, env, proc, tokens, idle, retired>>

(* Every instance has the file, every one that is up or starting has loaded *)
(* and published it.  (The runbook asks to wait only in its hot way.)      *)
Deployed(k) ==
  \A i \in Instances :
    /\ k \in files[i]
    /\ proc[i].mode # "down" =>
         k \in proc[i].keys.found /\ k \in proc[i].jwks.found

(* 3: switch, by SIGNING_KEY_KID and a restart, or by ACTIVE_KID_RUNTIME. *)
SetSigningKid(i, k) ==
  /\ Deployed(k) /\ env[i].signing # k
  /\ env' = [env EXCEPT ![i].signing = k]
  /\ UNCHANGED <<dirs, proc, tokens, idle, retired>>

SetRuntimeKid(i, k) ==
  /\ env[i].runtime # k
  /\ k = NoKid \/ Deployed(k)
  /\ env' = [env EXCEPT ![i].runtime = k]
  /\ UNCHANGED <<dirs, proc, tokens, idle, retired>>

(* 4, 5: remove a key that nobody signs with, nor will after a restart,    *)
(* once ACCESS_TTL has passed since somebody last did.                     *)
Retired(k) ==
  /\ ~ Active(k)
  /\ \A i \in Instances : k \notin {env[i].signing, env[i].runtime}
  /\ idle[k] = AccessTTL

Remove(i, k) ==
  /\ k \in files[i]
  /\ Retired(k)
  /\ files' = [files EXCEPT ![i] = @ \ {k}]
  /\ broken' = [broken EXCEPT ![i] = @ \ {k}]
  /\ retired' = retired \cup {k}
  /\ UNCHANGED <<readable, env, proc, tokens, idle>>

(* The directory cannot be listed any more (permission, I/O) or can again. *)
DirFault(i) ==
  /\ i \in DirFaults
  /\ readable' = [readable EXCEPT ![i] = ~ @]
  /\ UNCHANGED <<files, broken, env, proc, tokens, idle, retired>>

(* Some of the files become unreadable, malformed or good again; all of     *)
(* them are gone while the directory is an empty mount point.              *)
FileFault(i) ==
  /\ \E some \in SUBSET (files[i] \cap FileFaults) :
       broken' = [broken EXCEPT ![i] = some]
  /\ UNCHANGED <<files, readable, env, proc, tokens, idle, retired>>

Tick ==
  /\ tokens' = {t \in Token : [t EXCEPT !.left = @ + 1] \in tokens}
  /\ idle' = [k \in Kids |->
       IF Active(k) THEN 0
       ELSE IF idle[k] < AccessTTL THEN idle[k] + 1 ELSE idle[k]]
  /\ UNCHANGED <<dirs, env, proc, retired>>

-----------------------------------------------------------------------------
Init ==
  /\ files = [i \in Instances |-> {FirstKid}]
  /\ readable = [i \in Instances |-> TRUE]
  /\ broken = [i \in Instances |-> {}]
  /\ env = [i \in Instances |-> [signing |-> FirstKid, runtime |-> NoKid]]
  /\ proc = [i \in Instances |-> Down]
  /\ tokens = {}
  /\ idle = [k \in Kids |-> AccessTTL]
  /\ retired = {}

SignerReload(i) == SignerScan(i) \/ SignerInstall(i)
JwksReload(i)   == JwksScan(i) \/ JwksInstall(i)

Operate(i) ==
  \/ \E k \in Kids : Deploy(i, k) \/ SetSigningKid(i, k) \/ Remove(i, k)
  \/ \E k \in Kids \cup {NoKid} : SetRuntimeKid(i, k)

Next ==
  \/ Tick
  \/ \E i \in Instances :
       \/ Start(i) \/ NewProvider(i) \/ NewSigner(i) \/ Terminate(i) \/ Exit(i)
       \/ SignerReload(i) \/ JwksReload(i)
       \/ SignAccess(i)
       \/ Operate(i) \/ DirFault(i) \/ FileFault(i)

Spec == Init /\ [][Next]_vars

-----------------------------------------------------------------------------
(* Every variable has its type. *)
TypeOK ==
  /\ files \in [Instances -> SUBSET Kids]
  /\ readable \in [Instances -> BOOLEAN]
  /\ broken \in [Instances -> SUBSET Kids]
  /\ env \in [Instances -> Environment]
  /\ proc \in [Instances -> Process]
  /\ tokens \subseteq Token
  /\ idle \in [Kids -> 0..AccessTTL]
  /\ retired \subseteq Kids

(* "Keep the old PEM(s) ... so old tokens remain verifiable (JWKS publishes *)
(* both keys)" (README.md:265): while keys are added, switched and removed  *)
(* on several instances that restart, reload and publish each at its own    *)
(* pace, every running instance accepts every unexpired token of every      *)
(* instance and publishes its key, unless the very pass over KEYS_DIR that  *)
(* its keys (its JWKS) come from found the file there and could not load    *)
(* it (signer.go:84-87, provider.go:114-131).                               *)
UnexpiredVerifies ==
  \A i \in Instances, t \in tokens :
    Running(i) =>
      /\ Verifies(i, t.kid) \/ t.kid \in proc[i].keys.missed
      /\ t.kid \in Seen(proc[i].jwks)

(* "Keep last good state on errors" (main.go:71) is true of a directory     *)
(* that cannot be listed, for the signer (signer.go:70-73), and of nothing  *)
(* else: a running process loses the key it signs with, or stops publishing *)
(* it, only by installing a pass that found the file of that key and could  *)
(* not load it, never by a rotation, a restart elsewhere or a pass that is  *)
(* out of date.                                                             *)
KeyLostOnlyIfMissed ==
  [][\A i \in Instances :
       Running(i) /\ proc'[i].mode # "down" =>
         LET k == proc[i].kid
         IN  /\ k \in proc[i].keys.found =>
                  proc'[i].kid = k /\ k \in Seen(proc'[i].keys)
             /\ k \in proc[i].jwks.found => k \in Seen(proc'[i].jwks)]_vars

(* The reloaders catch up: a process that keeps running over a directory    *)
(* that stays as it is ends up with exactly the keys that can be loaded     *)
(* from it, those it had lost included (signer.go:99-110,                   *)
(* provider.go:66-77).                                                      *)
ReloadConverges ==
  \A i \in Instances, S \in SUBSET Kids :
    <>[](proc[i].mode = "up" /\ readable[i] /\ files[i] \ broken[i] = S)
      => <>[](proc[i].keys.found = S /\ proc[i].jwks.found = S)

(* "If something goes wrong, we keep the last good JWKS"                    *)
(* (provider.go:65, 74, 84): what a process that runs on publishes does not *)
(* lose the key it signs with.                                              *)
LastGoodKept ==
  [][\A i \in Instances :
       Running(i) /\ proc[i].kid \in proc[i].jwks.found /\ proc'[i].mode # "down" =>
         proc'[i].kid \in proc'[i].jwks.found]_vars
=============================================================================
