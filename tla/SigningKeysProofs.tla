------------------------- MODULE SigningKeysProofs -------------------------
(***************************************************************************)
(* Proofs about SigningKeys, for any number of instances and keys and any  *)
(* ACCESS_TTL: its type invariant, that a rotation by the runbook leaves   *)
(* every unexpired token verifiable, and that a running process loses its  *)
(* active key only to a pass over KEYS_DIR that skips the file of the key. *)
(***************************************************************************)
EXTENDS SigningKeys, TLAPS

(* The fields of a process are of their types. *)
LEMMA ProcessFields ==
  ASSUME TypeOK, NEW i \in Instances
  PROVE  /\ proc[i] \in Process
         /\ proc[i].mode \in {"down", "configured", "published", "up", "draining"}
         /\ proc[i].kid \in Kids /\ proc[i].override \in Kids \cup {NoKid}
         /\ proc[i].keys \in Load /\ proc[i].jwks \in Load
         /\ proc[i].scan \in SUBSET Load /\ proc[i].jwksScan \in SUBSET Load
         /\ files[i] \subseteq Kids /\ broken[i] \subseteq Kids
         /\ readable[i] \in BOOLEAN
         /\ env[i].signing \in Kids /\ env[i].runtime \in Kids \cup {NoKid}
  BY DEF TypeOK, Process, Environment

(* A pass sees every file, and loads or misses it. *)
LEMMA PassSeesFiles ==
  ASSUME TypeOK, NEW i \in Instances
  PROVE  /\ KeysIn(i) \in Load
         /\ Seen(KeysIn(i)) = files[i]
  BY ProcessFields DEF KeysIn, Load, Seen

(* Replacing one process by another leaves idle and proc typed. *)
LEMMA BecomeTyped ==
  ASSUME TypeOK, NEW i \in Instances, NEW s \in Process, Become(i, s)
  PROVE  /\ proc' \in [Instances -> Process]
         /\ idle' \in [Kids -> 0..AccessTTL]
  <1>1. proc' \in [Instances -> Process]
    BY DEF Become, TypeOK
  <1>2. idle' \in [Kids -> 0..AccessTTL]
    BY KeysAssumption DEF Become, TypeOK
  <1>. QED  BY <1>1, <1>2

LEMMA DownTyped == Down \in Process
  BY KeysAssumption DEF Down, Process, Nothing, Load

(* The steps of a process, each with what the process becomes. *)
LEMMA StartTyped ==
  ASSUME TypeOK, NEW i \in Instances,
         Start(i) \/ NewProvider(i) \/ NewSigner(i)
  PROVE  TypeOK'
  <1>1. CASE Start(i)
    <2>. DEFINE s == [Down EXCEPT !.mode = "configured", !.kid = env[i].signing,
                                  !.override = env[i].runtime]
    <2>1. s \in Process
      BY DownTyped, ProcessFields DEF Process
    <2>. HIDE DEF s
    <2>2. Become(i, s) /\ UNCHANGED <<dirs, env, tokens, retired>>
      BY <1>1 DEF Start, s
    <2>. QED  BY <2>1, <2>2, BecomeTyped DEF TypeOK, dirs
  <1>2. CASE NewProvider(i)
    <2>1. [proc[i] EXCEPT !.mode = "published", !.jwks = KeysIn(i)] \in Process
      BY ProcessFields, PassSeesFiles DEF Process
    <2>. QED  BY <1>2, <2>1, BecomeTyped DEF NewProvider, TypeOK, dirs
  <1>3. CASE NewSigner(i)
    <2>. DEFINE kid == IF proc[i].override \in KeysIn(i).found
                       THEN proc[i].override ELSE proc[i].kid
                s == [proc[i] EXCEPT !.mode = "up", !.keys = KeysIn(i),
                                     !.override = NoKid, !.kid = kid]
    <2>1. kid \in Kids
      BY ProcessFields, PassSeesFiles DEF Load
    <2>. HIDE DEF kid
    <2>2. s \in Process
      BY <2>1, ProcessFields, PassSeesFiles DEF Process
    <2>. HIDE DEF s
    <2>3. Become(i, s) /\ UNCHANGED <<dirs, env, tokens, retired>>
      BY <1>3 DEF NewSigner, s, kid
    <2>. QED  BY <2>2, <2>3, BecomeTyped DEF TypeOK, dirs
  <1>. QED  BY <1>1, <1>2, <1>3

LEMMA ReloadTyped ==
  ASSUME TypeOK, NEW i \in Instances, SignerReload(i) \/ JwksReload(i)
  PROVE  TypeOK'
  <1>1. CASE SignerScan(i)
    <2>1. [proc[i] EXCEPT !.scan = {KeysIn(i)}] \in Process
      BY ProcessFields, PassSeesFiles DEF Process
    <2>. QED  BY <1>1, <2>1, BecomeTyped DEF SignerScan, TypeOK, dirs
  <1>2. CASE SignerInstall(i)
    <2>1. PICK found \in proc[i].scan :
            Become(i, [proc[i] EXCEPT !.keys = found, !.scan = {}])
      BY <1>2 DEF SignerInstall
    <2>2. [proc[i] EXCEPT !.keys = found, !.scan = {}] \in Process
      BY ProcessFields DEF Process
    <2>. QED  BY <1>2, <2>1, <2>2, BecomeTyped DEF SignerInstall, TypeOK, dirs
  <1>3. CASE JwksScan(i)
    <2>1. [proc[i] EXCEPT !.jwksScan = {KeysIn(i)}] \in Process
      BY ProcessFields, PassSeesFiles DEF Process
    <2>. QED  BY <1>3, <2>1, BecomeTyped DEF JwksScan, TypeOK, dirs
  <1>4. CASE JwksInstall(i)
    <2>1. PICK found \in proc[i].jwksScan :
            Become(i, [proc[i] EXCEPT !.jwks = found, !.jwksScan = {}])
      BY <1>4 DEF JwksInstall
    <2>2. [proc[i] EXCEPT !.jwks = found, !.jwksScan = {}] \in Process
      BY ProcessFields DEF Process
    <2>. QED  BY <1>4, <2>1, <2>2, BecomeTyped DEF JwksInstall, TypeOK, dirs
  <1>. QED  BY <1>1, <1>2, <1>3, <1>4 DEF SignerReload, JwksReload

(* Every step keeps the types. *)
LEMMA TypeStep == TypeOK /\ [Next]_vars => TypeOK'
  <1>. SUFFICES ASSUME TypeOK, [Next]_vars  PROVE TypeOK'
    OBVIOUS
  <1>. USE KeysAssumption
  <1>1. CASE Tick
    BY <1>1 DEF Tick, TypeOK, Token, dirs
  <1>2. ASSUME NEW i \in Instances, SignAccess(i)  PROVE TypeOK'
    <2>1. [kid |-> proc[i].kid, left |-> AccessTTL] \in Token
      BY ProcessFields DEF Token
    <2>. QED  BY <1>2, <2>1 DEF SignAccess, TypeOK, dirs
  <1>3. ASSUME NEW i \in Instances, Terminate(i)  PROVE TypeOK'
    <2>1. [proc[i] EXCEPT !.mode = "draining"] \in Process
      BY ProcessFields DEF Process
    <2>. QED  BY <1>3, <2>1, BecomeTyped DEF Terminate, TypeOK, dirs
  <1>4. ASSUME NEW i \in Instances, Exit(i)  PROVE TypeOK'
    BY <1>4, DownTyped, BecomeTyped DEF Exit, TypeOK, dirs
  <1>5. ASSUME NEW i \in Instances, Operate(i)  PROVE TypeOK'
    <2>1. ASSUME NEW k \in Kids, Deploy(i, k)  PROVE TypeOK'
      BY <2>1 DEF Deploy, TypeOK
    <2>2. ASSUME NEW k \in Kids, SetSigningKid(i, k)  PROVE TypeOK'
      BY <2>2 DEF SetSigningKid, TypeOK, Environment, dirs
    <2>3. ASSUME NEW k \in Kids \cup {NoKid}, SetRuntimeKid(i, k)  PROVE TypeOK'
      BY <2>3 DEF SetRuntimeKid, TypeOK, Environment, dirs
    <2>4. ASSUME NEW k \in Kids, Remove(i, k)  PROVE TypeOK'
      BY <2>4 DEF Remove, TypeOK
    <2>. QED  BY <1>5, <2>1, <2>2, <2>3, <2>4 DEF Operate
  <1>6. ASSUME NEW i \in Instances, DirFault(i) \/ FileFault(i)  PROVE TypeOK'
    <2>1. CASE DirFault(i)
      BY <2>1 DEF DirFault, TypeOK
    <2>2. CASE FileFault(i)
      <3>1. PICK some \in SUBSET (files[i] \cap FileFaults) :
              broken' = [broken EXCEPT ![i] = some]
        BY <2>2 DEF FileFault
      <3>2. some \subseteq Kids
        BY ProcessFields
      <3>. QED  BY <2>2, <3>1, <3>2 DEF FileFault, TypeOK
    <2>. QED  BY <1>6, <2>1, <2>2
  <1>7. CASE UNCHANGED vars
    BY <1>7 DEF vars, dirs, TypeOK
  <1>. QED
    BY <1>1, <1>2, <1>3, <1>4, <1>5, <1>6, <1>7, StartTyped, ReloadTyped DEF Next

(* Every variable of SigningKeys has its type, for any number of instances, *)
(* keys and ticks of ACCESS_TTL.                                            *)
THEOREM KeysTypeCorrect == Spec => []TypeOK
  <1>1. Init => TypeOK
    BY KeysAssumption, DownTyped DEF Init, TypeOK, Environment
  <1>. QED  BY <1>1, TypeStep, PTL DEF Spec

-----------------------------------------------------------------------------
(* The rotation of keys.                                                   *)

USE KeysAssumption

(* A key that some process signs with, will sign with after a restart, or   *)
(* signed with less than ACCESS_TTL ago.                                    *)
Named(k)  == \E i \in Instances : k \in {env[i].signing, env[i].runtime}
Needed(k) == Named(k) \/ Active(k) \/ idle[k] < AccessTTL

(* Process s saw the file of key k in every pass it has made, published,    *)
(* loaded or is about to install.                                          *)
Loaded(s, k) ==
  /\ s.mode # "configured" => k \in Seen(s.jwks)
  /\ s.mode \in {"up", "draining"} => k \in Seen(s.keys)
  /\ \A l \in s.scan \cup s.jwksScan : k \in Seen(l)

(* s saw no file but those. *)
OnlyOf(s, those) ==
  \A l \in {s.keys, s.jwks} \cup s.scan \cup s.jwksScan : Seen(l) \subseteq those

(* A scan is not older than what is loaded, and starts after it. *)
ScansAreNewer(s, present) ==
  /\ s.mode \in {"up", "draining"} \/ (s.scan = {} /\ s.jwksScan = {})
  /\ \A k \in present :
       /\ k \in Seen(s.keys) => \A l \in s.scan : k \in Seen(l)
       /\ k \in Seen(s.jwks) => \A l \in s.jwksScan : k \in Seen(l)

(* The state of one instance: its process s and its files f. *)
Keeps(s, f) ==
  /\ \A k \in Kids : Needed(k) => k \in f /\ (s.mode # "down" => Loaded(s, k))
  /\ OnlyOf(s, f \cup retired)
  /\ ScansAreNewer(s, f)

Clocks ==
  /\ \A k \in Kids : Active(k) => idle[k] = 0
  /\ \A t \in tokens : t.left + idle[t.kid] <= AccessTTL

RotationInv ==
  /\ Clocks
  /\ \A i \in Instances : Keeps(proc[i], files[i])

(* Keeps of one instance, with the needed keys and the retired ones given. *)
Kept(needed, gone, s, f) ==
  /\ \A k \in needed : k \in f /\ (s.mode # "down" => Loaded(s, k))
  /\ OnlyOf(s, f \cup gone)
  /\ ScansAreNewer(s, f)

NeededKids == {k \in Kids : Needed(k)}

LEMMA KeepsIsKept ==
  ASSUME NEW i \in Instances
  PROVE  Keeps(proc[i], files[i]) <=> Kept(NeededKids, retired, proc[i], files[i])
BY DEF Keeps, Kept, NeededKids

(* Fewer needed keys and more retired ones ask no more of an instance. *)
LEMMA KeptWeakens ==
  ASSUME NEW needed, NEW gone, NEW s, NEW f, Kept(needed, gone, s, f),
         NEW n \in SUBSET needed, NEW g, gone \subseteq g
  PROVE  Kept(n, g, s, f)
BY DEF Kept, OnlyOf

-----------------------------------------------------------------------------
(* A step of process i: the keys it makes active are needed already, so     *)
(* that no key becomes needed.                                              *)

LEMMA BecomeClocks ==
  ASSUME TypeOK, RotationInv, NEW i \in Instances, NEW s, Become(i, s),
         UNCHANGED <<files, env, tokens, retired>>,
         Chosen(s) \subseteq NeededKids
  PROVE  /\ proc'[i] = s /\ \A j \in Instances \ {i} : proc'[j] = proc[j]
         /\ Clocks'
         /\ NeededKids' \subseteq NeededKids
<1>1. proc'[i] = s /\ \A j \in Instances \ {i} : proc'[j] = proc[j]
  BY DEF Become, TypeOK
<1>2. ASSUME NEW k \in Kids
      PROVE  /\ Active(k)' => Needed(k) /\ idle'[k] = 0
             /\ ~ Active(k)' => idle'[k] = idle[k]
             /\ Named(k)' <=> Named(k)
  <2>1. Active(k)' => Needed(k)
    BY <1>1 DEF Active, Needed, NeededKids
  <2>2. idle'[k] = IF Active(k)' THEN 0 ELSE idle[k]
    BY DEF Become
  <2> QED
    BY <2>1, <2>2 DEF Named
<1>3. \A k \in Kids : Needed(k)' => Needed(k)
  BY <1>2 DEF Needed
<1>4. Clocks'
  <2>1. \A k \in Kids : Active(k)' => idle'[k] = 0
    BY <1>2
  <2>2. ASSUME NEW t \in tokens'
        PROVE  t.left + idle'[t.kid] <= AccessTTL
    <3>1. /\ t.left + idle[t.kid] <= AccessTTL
          /\ t.left \in 1..AccessTTL /\ t.kid \in Kids /\ idle[t.kid] \in 0..AccessTTL
      BY DEF RotationInv, Clocks, TypeOK, Token
    <3>2. idle'[t.kid] = 0 \/ idle'[t.kid] = idle[t.kid]
      BY <1>2, <3>1
    <3> QED
      BY <3>1, <3>2
  <2> QED
    BY <2>1, <2>2 DEF Clocks
<1> QED
  BY <1>1, <1>3, <1>4 DEF NeededKids

LEMMA BecomeKeeps ==
  ASSUME TypeOK, RotationInv, NEW i \in Instances, NEW s, Become(i, s),
         UNCHANGED <<files, env, tokens, retired>>,
         Chosen(s) \subseteq NeededKids,
         Kept(NeededKids, retired, s, files[i])
  PROVE  RotationInv' /\ NeededKids' \subseteq NeededKids
<1>1. /\ proc'[i] = s /\ \A j \in Instances \ {i} : proc'[j] = proc[j]
      /\ Clocks' /\ NeededKids' \subseteq NeededKids
  BY BecomeClocks
<1>2. ASSUME NEW j \in Instances
      PROVE  Kept(NeededKids, retired, proc'[j], files[j])
  BY <1>1, KeepsIsKept DEF RotationInv
<1>3. ASSUME NEW j \in Instances
      PROVE  Keeps(proc[j], files[j])'
  <2>1. Kept(NeededKids', retired', proc'[j], files'[j])
    BY <1>1, <1>2, KeptWeakens
  <2> QED
    BY <2>1 DEF Keeps, Kept, NeededKids
<1> QED
  BY <1>1, <1>3 DEF RotationInv

(* What a process signs with, or may sign with, is needed. *)
LEMMA ChosenNeeded ==
  ASSUME TypeOK, NEW i \in Instances
  PROVE  Chosen(proc[i]) \subseteq NeededKids
<1>1. Chosen(proc[i]) \subseteq Kids
  BY ProcessFields DEF Chosen
<1> QED
  BY <1>1 DEF NeededKids, Needed, Active

LEMMA RunningKidNeeded ==
  ASSUME TypeOK, NEW i \in Instances, Running(i)
  PROVE  proc[i].kid \in NeededKids
BY ChosenNeeded, ProcessFields DEF Chosen, Running

LEMMA StartKeeps ==
  ASSUME TypeOK, RotationInv, NEW i \in Instances,
         Start(i) \/ NewProvider(i) \/ NewSigner(i)
  PROVE  RotationInv' /\ NeededKids' \subseteq NeededKids
<1>1. /\ proc[i] \in Process /\ Chosen(proc[i]) \subseteq NeededKids
      /\ UNCHANGED <<files, env, tokens, retired>>
  BY ProcessFields, ChosenNeeded DEF Start, NewProvider, NewSigner, dirs
<1>2. Kept(NeededKids, retired, proc[i], files[i])
  BY KeepsIsKept DEF RotationInv
<1>3. Seen(KeysIn(i)) = files[i]
  BY PassSeesFiles
<1>4. CASE Start(i)
  <2> DEFINE s == [Down EXCEPT !.mode = "configured", !.kid = env[i].signing,
                               !.override = env[i].runtime]
  <2>1. /\ s.mode = "configured" /\ s.kid = env[i].signing
        /\ s.override = env[i].runtime /\ s.keys = Nothing /\ s.jwks = Nothing
        /\ s.scan = {} /\ s.jwksScan = {}
    BY DEF Down
  <2>2. Become(i, s)
    BY <1>4 DEF Start
  <2> HIDE DEF s
  <2>3. Chosen(s) \subseteq NeededKids
    BY <2>1, ProcessFields DEF Chosen, NeededKids, Needed, Named
  <2>4. Kept(NeededKids, retired, s, files[i])
    BY <1>2, <2>1 DEF Kept, Loaded, OnlyOf, ScansAreNewer, Nothing, Seen
  <2> QED
    BY <1>1, <2>2, <2>3, <2>4, BecomeKeeps
<1>5. CASE NewProvider(i)
  <2> DEFINE s == [proc[i] EXCEPT !.mode = "published", !.jwks = KeysIn(i)]
  <2>1. /\ s.mode = "published" /\ s.kid = proc[i].kid
        /\ s.override = proc[i].override /\ s.keys = proc[i].keys
        /\ s.jwks = KeysIn(i) /\ s.scan = proc[i].scan
        /\ s.jwksScan = proc[i].jwksScan
    BY <1>1 DEF Process
  <2>2. Become(i, s) /\ proc[i].mode = "configured"
    BY <1>5 DEF NewProvider
  <2> HIDE DEF s
  <2>3. Chosen(s) = Chosen(proc[i])
    BY <2>1, <2>2 DEF Chosen
  <2>4. \A k \in NeededKids : k \in files[i] /\ Loaded(s, k)
    BY <1>2, <1>3, <2>1, <2>2 DEF Kept, Loaded
  <2>5. OnlyOf(s, files[i] \cup retired)
    BY <1>2, <1>3, <2>1 DEF Kept, OnlyOf
  <2>6. ScansAreNewer(s, files[i])
    BY <1>2, <2>1, <2>2 DEF Kept, ScansAreNewer
  <2> QED
    BY <1>1, <1>2, <2>2, <2>3, <2>4, <2>5, <2>6, BecomeKeeps DEF Kept
<1>6. CASE NewSigner(i)
  <2> DEFINE kid == IF proc[i].override \in KeysIn(i).found
                    THEN proc[i].override ELSE proc[i].kid
             s == [proc[i] EXCEPT !.mode = "up", !.keys = KeysIn(i),
                                  !.override = NoKid, !.kid = kid]
  <2>1. /\ s.mode = "up" /\ s.kid = kid /\ s.override = NoKid
        /\ s.keys = KeysIn(i) /\ s.jwks = proc[i].jwks
        /\ s.scan = proc[i].scan /\ s.jwksScan = proc[i].jwksScan
    BY <1>1 DEF Process
  <2>2. Become(i, s) /\ proc[i].mode = "published"
    BY <1>6 DEF NewSigner
  <2>3. kid \in Chosen(proc[i])
    BY <2>2, ProcessFields, PassSeesFiles DEF Chosen, Load
  <2> HIDE DEF s, kid
  <2>4. Chosen(s) \subseteq NeededKids
    BY <1>1, <2>1, <2>3 DEF Chosen
  <2>5. \A k \in NeededKids : k \in files[i] /\ Loaded(s, k)
    BY <1>2, <1>3, <2>1, <2>2 DEF Kept, Loaded
  <2>6. OnlyOf(s, files[i] \cup retired)
    BY <1>2, <1>3, <2>1 DEF Kept, OnlyOf
  <2>7. ScansAreNewer(s, files[i])
    BY <1>2, <2>1, <2>2 DEF Kept, ScansAreNewer
  <2> QED
    BY <1>1, <1>2, <2>2, <2>4, <2>5, <2>6, <2>7, BecomeKeeps DEF Kept
<1> QED
  BY <1>4, <1>5, <1>6

LEMMA ReloadKeeps ==
  ASSUME TypeOK, RotationInv, NEW i \in Instances,
         SignerReload(i) \/ JwksReload(i)
  PROVE  RotationInv' /\ NeededKids' \subseteq NeededKids
<1>1. /\ proc[i] \in Process /\ Running(i) /\ Chosen(proc[i]) \subseteq NeededKids
      /\ UNCHANGED <<files, env, tokens, retired>>
  BY ChosenNeeded, ProcessFields DEF SignerReload, SignerScan, SignerInstall,
       JwksReload, JwksScan, JwksInstall, Running, dirs
<1>2. Kept(NeededKids, retired, proc[i], files[i])
  BY KeepsIsKept DEF RotationInv
<1>3. Seen(KeysIn(i)) = files[i]
  BY PassSeesFiles
<1>4. CASE SignerScan(i)
  <2> DEFINE s == [proc[i] EXCEPT !.scan = {KeysIn(i)}]
  <2>1. /\ s.mode = proc[i].mode /\ s.kid = proc[i].kid
        /\ s.override = proc[i].override
        /\ s.keys = proc[i].keys /\ s.jwks = proc[i].jwks
        /\ s.scan = {KeysIn(i)} /\ s.jwksScan = proc[i].jwksScan
    BY <1>1 DEF Process
  <2>2. Become(i, s)
    BY <1>4 DEF SignerScan
  <2> HIDE DEF s
  <2>3. Chosen(s) = Chosen(proc[i])
    BY <2>1 DEF Chosen
  <2>4. \A k \in NeededKids : k \in files[i] /\ Loaded(s, k)
    BY <1>1, <1>2, <1>3, <2>1 DEF Kept, Loaded, Running
  <2>5. OnlyOf(s, files[i] \cup retired)
    BY <1>2, <1>3, <2>1 DEF Kept, OnlyOf
  <2>6. ScansAreNewer(s, files[i])
    BY <1>1, <1>2, <1>3, <2>1 DEF Kept, ScansAreNewer, Running
  <2> QED
    BY <1>1, <1>2, <2>2, <2>3, <2>4, <2>5, <2>6, BecomeKeeps DEF Kept
<1>5. CASE SignerInstall(i)
  <2>1. PICK found \in proc[i].scan :
          Become(i, [proc[i] EXCEPT !.keys = found, !.scan = {}])
    BY <1>5 DEF SignerInstall
  <2> DEFINE s == [proc[i] EXCEPT !.keys = found, !.scan = {}]
  <2>2. /\ s.mode = proc[i].mode /\ s.kid = proc[i].kid
        /\ s.override = proc[i].override
        /\ s.keys = found /\ s.jwks = proc[i].jwks
        /\ s.scan = {} /\ s.jwksScan = proc[i].jwksScan
    BY <1>1 DEF Process
  <2>3. Become(i, s)
    BY <2>1
  <2> HIDE DEF s
  <2>4. Chosen(s) = Chosen(proc[i])
    BY <2>2 DEF Chosen
  <2>5. \A k \in NeededKids : k \in files[i] /\ Loaded(s, k)
    BY <1>1, <1>2, <2>2 DEF Kept, Loaded, Running
  <2>6. OnlyOf(s, files[i] \cup retired)
    BY <1>2, <2>2 DEF Kept, OnlyOf
  <2>7. ScansAreNewer(s, files[i])
    BY <1>1, <1>2, <2>2 DEF Kept, ScansAreNewer, Running
  <2> QED
    BY <1>1, <1>2, <2>3, <2>4, <2>5, <2>6, <2>7, BecomeKeeps DEF Kept
<1>6. CASE JwksScan(i)
  <2> DEFINE s == [proc[i] EXCEPT !.jwksScan = {KeysIn(i)}]
  <2>1. /\ s.mode = proc[i].mode /\ s.kid = proc[i].kid
        /\ s.override = proc[i].override
        /\ s.keys = proc[i].keys /\ s.jwks = proc[i].jwks
        /\ s.scan = proc[i].scan /\ s.jwksScan = {KeysIn(i)}
    BY <1>1 DEF Process
  <2>2. Become(i, s)
    BY <1>6 DEF JwksScan
  <2> HIDE DEF s
  <2>3. Chosen(s) = Chosen(proc[i])
    BY <2>1 DEF Chosen
  <2>4. \A k \in NeededKids : k \in files[i] /\ Loaded(s, k)
    BY <1>1, <1>2, <1>3, <2>1 DEF Kept, Loaded, Running
  <2>5. OnlyOf(s, files[i] \cup retired)
    BY <1>2, <1>3, <2>1 DEF Kept, OnlyOf
  <2>6. ScansAreNewer(s, files[i])
    BY <1>1, <1>2, <1>3, <2>1 DEF Kept, ScansAreNewer, Running
  <2> QED
    BY <1>1, <1>2, <2>2, <2>3, <2>4, <2>5, <2>6, BecomeKeeps DEF Kept
<1>7. CASE JwksInstall(i)
  <2>1. PICK found \in proc[i].jwksScan :
          Become(i, [proc[i] EXCEPT !.jwks = found, !.jwksScan = {}])
    BY <1>7 DEF JwksInstall
  <2> DEFINE s == [proc[i] EXCEPT !.jwks = found, !.jwksScan = {}]
  <2>2. /\ s.mode = proc[i].mode /\ s.kid = proc[i].kid
        /\ s.override = proc[i].override
        /\ s.keys = proc[i].keys /\ s.jwks = found
        /\ s.scan = proc[i].scan /\ s.jwksScan = {}
    BY <1>1 DEF Process
  <2>3. Become(i, s)
    BY <2>1
  <2> HIDE DEF s
  <2>4. Chosen(s) = Chosen(proc[i])
    BY <2>2 DEF Chosen
  <2>5. \A k \in NeededKids : k \in files[i] /\ Loaded(s, k)
    BY <1>1, <1>2, <2>2 DEF Kept, Loaded, Running
  <2>6. OnlyOf(s, files[i] \cup retired)
    BY <1>2, <2>2 DEF Kept, OnlyOf
  <2>7. ScansAreNewer(s, files[i])
    BY <1>1, <1>2, <2>2 DEF Kept, ScansAreNewer, Running
  <2> QED
    BY <1>1, <1>2, <2>3, <2>4, <2>5, <2>6, <2>7, BecomeKeeps DEF Kept
<1> QED
  BY <1>4, <1>5, <1>6, <1>7 DEF SignerReload, JwksReload

LEMMA EndKeeps ==
  ASSUME TypeOK, RotationInv, NEW i \in Instances, Terminate(i) \/ Exit(i)
  PROVE  RotationInv' /\ NeededKids' \subseteq NeededKids
<1>1. /\ proc[i] \in Process /\ Chosen(proc[i]) \subseteq NeededKids
      /\ UNCHANGED <<files, env, tokens, retired>>
  BY ChosenNeeded, ProcessFields DEF Terminate, Exit, dirs
<1>2. Kept(NeededKids, retired, proc[i], files[i])
  BY KeepsIsKept DEF RotationInv
<1>3. CASE Terminate(i)
  <2> DEFINE s == [proc[i] EXCEPT !.mode = "draining"]
  <2>1. /\ s.mode = "draining" /\ s.kid = proc[i].kid
        /\ s.override = proc[i].override
        /\ s.keys = proc[i].keys /\ s.jwks = proc[i].jwks
        /\ s.scan = proc[i].scan /\ s.jwksScan = proc[i].jwksScan
    BY <1>1 DEF Process
  <2>2. Become(i, s) /\ proc[i].mode = "up"
    BY <1>3 DEF Terminate
  <2> HIDE DEF s
  <2>3. Chosen(s) = Chosen(proc[i])
    BY <2>1, <2>2 DEF Chosen
  <2>4. \A k \in NeededKids : k \in files[i] /\ Loaded(s, k)
    BY <1>2, <2>1, <2>2 DEF Kept, Loaded
  <2>5. OnlyOf(s, files[i] \cup retired) /\ ScansAreNewer(s, files[i])
    BY <1>2, <2>1 DEF Kept, OnlyOf, ScansAreNewer
  <2> QED
    BY <1>1, <1>2, <2>2, <2>3, <2>4, <2>5, BecomeKeeps DEF Kept
<1>4. CASE Exit(i)
  <2>1. Kept(NeededKids, retired, Down, files[i])
    BY <1>2 DEF Kept, Down, OnlyOf, ScansAreNewer, Nothing, Seen
  <2>2. Chosen(Down) = {} /\ Become(i, Down)
    BY <1>4 DEF Down, Exit, Chosen
  <2> QED
    BY <1>1, <2>1, <2>2, BecomeKeeps
<1> QED
  BY <1>3, <1>4

-----------------------------------------------------------------------------
(* The clock and the signatures.                                           *)

(* A step that touches no process and no file. *)
LEMMA SameFiles ==
  ASSUME RotationInv, UNCHANGED <<files, proc, retired>>, Clocks',
         NeededKids' \subseteq NeededKids
  PROVE  RotationInv' /\ NeededKids' \subseteq NeededKids
<1>1. ASSUME NEW i \in Instances
      PROVE  Keeps(proc[i], files[i])'
  <2>1. Kept(NeededKids, retired, proc[i], files[i])
    BY KeepsIsKept DEF RotationInv
  <2>2. Kept(NeededKids', retired', proc'[i], files'[i])
    BY <2>1, KeptWeakens
  <2> QED
    BY <2>2 DEF Keeps, Kept, NeededKids
<1> QED
  BY <1>1 DEF RotationInv

LEMMA SignKeeps ==
  ASSUME TypeOK, RotationInv, NEW i \in Instances, SignAccess(i)
  PROVE  RotationInv' /\ NeededKids' \subseteq NeededKids
<1>1. proc[i].kid \in Kids /\ idle[proc[i].kid] = 0
  BY ProcessFields DEF SignAccess, Active, Chosen, Running, RotationInv, Clocks
<1>2. Clocks'
  BY <1>1 DEF SignAccess, RotationInv, Clocks, Active, Running
<1>3. NeededKids' = NeededKids
  BY DEF SignAccess, NeededKids, Needed, Named, Active, Running
<1> QED
  BY <1>2, <1>3, SameFiles DEF SignAccess, dirs

LEMMA TickKeeps ==
  ASSUME TypeOK, RotationInv, Tick
  PROVE  RotationInv' /\ NeededKids' \subseteq NeededKids
<1>1. ASSUME NEW k \in Kids
      PROVE  /\ Active(k)' <=> Active(k)
             /\ Named(k)' <=> Named(k)
             /\ Active(k) => idle'[k] = 0
             /\ ~ Active(k) /\ idle[k] < AccessTTL => idle'[k] = idle[k] + 1
             /\ ~ Active(k) /\ ~ (idle[k] < AccessTTL) => idle'[k] = idle[k]
             /\ idle[k] \in 0..AccessTTL
  <2>1. UNCHANGED <<proc, env>> /\ idle[k] \in 0..AccessTTL
    BY DEF Tick, TypeOK
  <2>2. (Active(k)' <=> Active(k)) /\ (Named(k)' <=> Named(k))
    BY <2>1 DEF Active, Running, Named
  <2>3. CASE Active(k)
    BY <2>1, <2>2, <2>3 DEF Tick
  <2>4. CASE ~ Active(k)
    <3>1. idle'[k] = IF idle[k] < AccessTTL THEN idle[k] + 1 ELSE idle[k]
      BY <2>4 DEF Tick
    <3> QED
      BY <2>1, <2>2, <2>4, <3>1
  <2> QED
    BY <2>3, <2>4
<1>2. ASSUME NEW t \in tokens'
      PROVE  t.left + idle'[t.kid] <= AccessTTL
  <2> DEFINE before == [t EXCEPT !.left = @ + 1]
  <2>1. before \in tokens /\ t \in Token
    BY DEF Tick
  <2>2. before.kid = t.kid /\ before.left = t.left + 1 /\ t.kid \in Kids
        /\ t.left \in 1..AccessTTL
    BY <2>1 DEF Token
  <2> HIDE DEF before
  <2>3. t.left + 1 + idle[t.kid] <= AccessTTL
    BY <2>1, <2>2 DEF RotationInv, Clocks
  <2> QED
    BY <1>1, <2>2, <2>3
<1>3. Clocks'
  BY <1>1, <1>2 DEF Clocks
<1>4. NeededKids' \subseteq NeededKids
  BY <1>1 DEF NeededKids, Needed
<1> QED
  BY <1>3, <1>4, SameFiles DEF Tick, dirs

-----------------------------------------------------------------------------
(* The operator.                                                           *)

LEMMA DeployKeeps ==
  ASSUME TypeOK, RotationInv, NEW i \in Instances, NEW k \in Kids, Deploy(i, k)
  PROVE  RotationInv' /\ NeededKids' \subseteq NeededKids
<1>1. Clocks' /\ NeededKids' = NeededKids
  BY DEF Deploy, RotationInv, Clocks, NeededKids, Needed, Named, Active, Running
<1>2. ASSUME NEW j \in Instances
      PROVE  Keeps(proc[j], files[j])'
  <2>1. Kept(NeededKids, retired, proc[j], files[j])
    BY KeepsIsKept DEF RotationInv
  <2>2. /\ k \notin files[i] \cup retired /\ UNCHANGED <<proc, retired>>
        /\ files'[i] = files[i] \cup {k} /\ \A x \in Instances \ {i} : files'[x] = files[x]
    BY DEF Deploy, TypeOK
  <2>3. Kept(NeededKids, retired, proc[j], files'[j])
    <3>1. CASE j # i
      BY <2>1, <2>2, <3>1
    <3>2. CASE j = i
      <4>1. k \notin Seen(proc[i].keys) \cup Seen(proc[i].jwks)
        BY <2>1, <2>2, <3>2 DEF Kept, OnlyOf
      <4>2. ScansAreNewer(proc[i], files'[i])
        BY <2>1, <2>2, <3>2, <4>1 DEF Kept, ScansAreNewer
      <4> QED
        BY <2>1, <2>2, <3>2, <4>2 DEF Kept, OnlyOf
    <3> QED
      BY <3>1, <3>2
  <2> QED
    BY <1>1, <2>2, <2>3 DEF Keeps, Kept, NeededKids
<1> QED
  BY <1>1, <1>2 DEF RotationInv

(* The key that is switched to is deployed, in the scans under way as well. *)
LEMMA SwitchKeeps ==
  ASSUME TypeOK, RotationInv,
         NEW i \in Instances, NEW k \in Kids \cup {NoKid},
         SetRuntimeKid(i, k) \/ (k \in Kids /\ SetSigningKid(i, k))
  PROVE  RotationInv'
<1>1. UNCHANGED <<files, proc, tokens, idle, retired>> /\ (k # NoKid => Deployed(k))
  BY DEF SetRuntimeKid, SetSigningKid, dirs
<1>2. Clocks'
  BY <1>1 DEF RotationInv, Clocks, Active, Running
<1>3. ASSUME NEW x \in Kids, Needed(x)', ~ Needed(x)
      PROVE  x = k
  BY <1>1, <1>3 DEF SetRuntimeKid, SetSigningKid, TypeOK, Environment,
       Needed, Named, Active, Running
<1>4. ASSUME NEW j \in Instances
      PROVE  Keeps(proc[j], files[j])'
  <2>1. Kept(NeededKids, retired, proc[j], files[j])
    BY KeepsIsKept DEF RotationInv
  <2>2. ASSUME NEW x \in Kids, Needed(x)'
        PROVE  x \in files[j] /\ (proc[j].mode # "down" => Loaded(proc[j], x))
    <3>1. CASE Needed(x)
      BY <2>1, <3>1 DEF Kept, NeededKids
    <3>2. CASE ~ Needed(x)
      <4>1. x = k /\ Deployed(x)
        BY <1>1, <1>3, <2>2, <3>2
      <4> QED
        BY <2>1, <4>1 DEF Deployed, Kept, ScansAreNewer, Loaded, Seen
    <3> QED
      BY <3>1, <3>2
  <2> QED
    BY <1>1, <2>1, <2>2 DEF Keeps, Kept
<1> QED
  BY <1>2, <1>4 DEF RotationInv

LEMMA RemoveKeeps ==
  ASSUME TypeOK, RotationInv, NEW i \in Instances, NEW k \in Kids, Remove(i, k)
  PROVE  RotationInv' /\ NeededKids' \subseteq NeededKids
<1>1. /\ UNCHANGED <<proc, env, tokens, idle>> /\ ~ Needed(k)
      /\ retired' = retired \cup {k} /\ files'[i] = files[i] \ {k}
      /\ \A x \in Instances \ {i} : files'[x] = files[x]
  BY DEF Remove, Retired, Needed, Named, TypeOK
<1>2. Clocks' /\ NeededKids' = NeededKids
  BY <1>1 DEF RotationInv, Clocks, NeededKids, Needed, Named, Active, Running
<1>3. ASSUME NEW j \in Instances
      PROVE  Keeps(proc[j], files[j])'
  <2>1. Kept(NeededKids, retired, proc[j], files[j])
    BY KeepsIsKept DEF RotationInv
  <2>2. files'[j] \in {files[j], files[j] \ {k}} /\ k \notin NeededKids
    BY <1>1 DEF NeededKids
  <2>3. Kept(NeededKids, retired', proc[j], files'[j])
    BY <1>1, <2>1, <2>2 DEF Kept, ScansAreNewer, OnlyOf
  <2> QED
    BY <1>1, <1>2, <2>3 DEF Keeps, Kept, NeededKids
<1> QED
  BY <1>2, <1>3 DEF RotationInv

-----------------------------------------------------------------------------
LEMMA RotationInit == Init => RotationInv
<1> SUFFICES ASSUME Init
             PROVE  RotationInv
  OBVIOUS
<1>1. Clocks
  BY DEF Init, Clocks, Active, Chosen, Down
<1>2. \A k \in Kids : Needed(k) => k = FirstKid
  BY DEF Init, Needed, Named, Active, Chosen, Down
<1> QED
  BY <1>1, <1>2
  DEF Init, RotationInv, Keeps, Down, OnlyOf, ScansAreNewer, Nothing, Seen

LEMMA UntouchedKeeps ==
  ASSUME RotationInv, UNCHANGED <<files, proc, env, tokens, idle, retired>>
  PROVE  RotationInv' /\ NeededKids' \subseteq NeededKids
<1>1. Clocks' /\ NeededKids' = NeededKids
  BY DEF RotationInv, Clocks, NeededKids, Needed, Named, Active, Running
<1> QED
  BY <1>1, SameFiles

LEMMA RotationStep ==
  ASSUME TypeOK, RotationInv, [Next]_vars
  PROVE  RotationInv'
<1>1. ASSUME NEW i \in Instances, Operate(i)
      PROVE  RotationInv'
  <2>1. ASSUME NEW k \in Kids, SetSigningKid(i, k)
        PROVE  RotationInv'
    BY <2>1, SwitchKeeps
  <2>2. ASSUME NEW k \in Kids \cup {NoKid}, SetRuntimeKid(i, k)
        PROVE  RotationInv'
    BY <2>2, SwitchKeeps
  <2> QED
    BY <1>1, <2>1, <2>2, DeployKeeps, RemoveKeeps DEF Operate
<1>2. ASSUME NEW i \in Instances, DirFault(i) \/ FileFault(i)
      PROVE  RotationInv'
  BY <1>2, UntouchedKeeps DEF DirFault, FileFault
<1>3. CASE UNCHANGED vars
  BY <1>3, UntouchedKeeps DEF vars, dirs
<1> QED
  BY <1>1, <1>2, <1>3, StartKeeps, ReloadKeeps, EndKeeps, SignKeeps, TickKeeps
     DEF Next

LEMMA TokensNeedKeys ==
  ASSUME TypeOK, RotationInv, NEW t \in tokens
  PROVE  t.kid \in NeededKids
<1>1. t.kid \in Kids /\ t.left \in 1..AccessTTL /\ idle[t.kid] \in 0..AccessTTL
  BY DEF TypeOK, Token
<1>2. idle[t.kid] < AccessTTL
  BY <1>1 DEF RotationInv, Clocks
<1> QED
  BY <1>1, <1>2 DEF NeededKids, Needed

LEMMA RotationInvariance == Spec => []RotationInv
BY RotationInit, RotationStep, KeysTypeCorrect, PTL DEF Spec

(* Every running instance accepts every unexpired token and publishes its   *)
(* key, or has found its file in the very pass its keys (its JWKS) come     *)
(* from and could not load it, while keys are added, switched and removed   *)
(* by the runbook over instances that restart, reload and publish each at   *)
(* its own pace (README.md:257-266, signer.go:70-94, provider.go:84-155).   *)
THEOREM RotationSafe == Spec => []UnexpiredVerifies
<1>1. ASSUME TypeOK, RotationInv
      PROVE  UnexpiredVerifies
  <2> SUFFICES ASSUME NEW i \in Instances, NEW t \in tokens, Running(i)
               PROVE  t.kid \in Seen(proc[i].keys) /\ t.kid \in Seen(proc[i].jwks)
    BY DEF UnexpiredVerifies, Verifies, Seen
  <2> QED
    BY <1>1, TokensNeedKeys DEF RotationInv, Keeps, Loaded, NeededKids, Running
<1> QED
  BY <1>1, RotationInvariance, KeysTypeCorrect, PTL

-----------------------------------------------------------------------------
(* The active key.                                                         *)

(* A running process that does not exit runs on with the kid it has. *)
LEMMA RunsOn ==
  ASSUME TypeOK, [Next]_vars, NEW i \in Instances, Running(i),
         proc'[i].mode # "down"
  PROVE  Running(i)' /\ proc'[i].kid = proc[i].kid
<1>1. ASSUME NEW j \in Instances, NEW s, Become(j, s),
             j = i => s.mode \in {"down", "up", "draining"}
                      /\ (s.mode # "down" => s.kid = proc[i].kid)
      PROVE  Running(i)' /\ proc'[i].kid = proc[i].kid
  BY <1>1 DEF Become, TypeOK, Running
<1>2. CASE UNCHANGED proc
  BY <1>2 DEF Running
<1>3. ASSUME NEW j \in Instances, Start(j) \/ NewProvider(j) \/ NewSigner(j)
      PROVE  Running(i)' /\ proc'[i].kid = proc[i].kid
  BY <1>1, <1>3 DEF Start, NewProvider, NewSigner, Running
<1>4. ASSUME NEW j \in Instances, SignerReload(j) \/ JwksReload(j) \/ Terminate(j)
      PROVE  Running(i)' /\ proc'[i].kid = proc[i].kid
  BY <1>1, <1>4, ProcessFields
     DEF SignerReload, SignerScan, SignerInstall, JwksReload, JwksScan,
         JwksInstall, Terminate, Running, Process
<1>5. ASSUME NEW j \in Instances, Exit(j)
      PROVE  Running(i)' /\ proc'[i].kid = proc[i].kid
  BY <1>1, <1>5 DEF Exit, Down
<1> QED
  BY <1>2, <1>3, <1>4, <1>5
     DEF Next, vars, Tick, SignAccess, Operate, Deploy, SetSigningKid,
         SetRuntimeKid, Remove, DirFault, FileFault

(* A running process loses the key it signs with, or stops publishing it,   *)
(* only to a pass over its KEYS_DIR that finds the file of that key and     *)
(* cannot load it (signer.go:84-87, provider.go:114-131): neither to the    *)
(* runbook, nor to restarts elsewhere, nor to a pass that is out of date,   *)
(* nor, in the signer, to a directory that cannot be listed                 *)
(* (signer.go:70-73).                                                      *)
THEOREM ActiveKeyKept == Spec => KeyLostOnlyIfMissed
<1> DEFINE KeySeen == \A i \in Instances :
             Running(i) => /\ proc[i].kid \in Seen(proc[i].keys)
                           /\ proc[i].kid \in Seen(proc[i].jwks)
           Safe == TypeOK /\ KeySeen
           Good == \A i \in Instances :
             Running(i) /\ proc'[i].mode # "down" =>
               LET k == proc[i].kid
               IN  /\ k \in proc[i].keys.found =>
                        proc'[i].kid = k /\ k \in Seen(proc'[i].keys)
                   /\ k \in proc[i].jwks.found => k \in Seen(proc'[i].jwks)
<1>1. TypeOK /\ RotationInv => KeySeen
  BY RunningKidNeeded DEF RotationInv, Keeps, Loaded, NeededKids, Running
<1>2. Safe /\ Safe' /\ [Next]_vars => [Good]_vars
  BY RunsOn
<1>3. Spec => []Safe
  BY <1>1, RotationInvariance, KeysTypeCorrect, PTL
<1> HIDE DEF Safe
<1> QED
  BY <1>2, <1>3, PTL DEF Spec, KeyLostOnlyIfMissed

-----------------------------------------------------------------------------
(* Directories and files that never fail.                                  *)

(* Process s has loaded every file it saw, in every pass. *)
MissesNothing(s) ==
  \A l \in {s.keys, s.jwks} \cup s.scan \cup s.jwksScan : l.missed = {}

DirsIntact ==
  \A i \in Instances :
    readable[i] /\ broken[i] = {} /\ MissesNothing(proc[i])

LEMMA IntactPass ==
  ASSUME DirsIntact, NEW i \in Instances
  PROVE  KeysIn(i).missed = {}
BY DEF DirsIntact, KeysIn

LEMMA DirsIntactStep ==
  ASSUME TypeOK, DirsIntact, DirFaults = {}, FileFaults = {}, [Next]_vars
  PROVE  DirsIntact'
<1>1. \A i \in Instances : readable'[i] /\ broken'[i] = {}
  <2>1. CASE UNCHANGED <<readable, broken>>
    BY <2>1 DEF DirsIntact
  <2>2. ASSUME NEW i \in Instances, NEW k \in Kids, Remove(i, k)
        PROVE  readable' = readable /\ broken' = broken
    BY <2>2 DEF Remove, DirsIntact, TypeOK
  <2>3. ASSUME NEW i \in Instances, FileFault(i)
        PROVE  readable' = readable /\ broken' = broken
    BY <2>3 DEF FileFault, DirsIntact, TypeOK
  <2> QED
    BY <2>1, <2>2, <2>3
    DEF Next, vars, dirs, Tick, Start, NewProvider, NewSigner, Terminate, Exit,
        SignerReload, SignerScan, SignerInstall, JwksReload, JwksScan,
        JwksInstall, SignAccess, Operate, Deploy, SetSigningKid, SetRuntimeKid,
        DirFault
<1>2. ASSUME NEW i \in Instances, NEW s, Become(i, s), MissesNothing(s)
      PROVE  DirsIntact'
  <2>1. \A j \in Instances : proc'[j] = IF j = i THEN s ELSE proc[j]
    BY <1>2 DEF Become, TypeOK
  <2> QED
    BY <1>1, <1>2, <2>1 DEF DirsIntact
<1>3. ASSUME NEW i \in Instances, Start(i) \/ Exit(i)
      PROVE  DirsIntact'
  <2>1. MissesNothing(Down)
    BY DEF Down, MissesNothing, Nothing
  <2>2. CASE Start(i)
    <3> DEFINE s == [Down EXCEPT !.mode = "configured", !.kid = env[i].signing,
                                 !.override = env[i].runtime]
    <3>1. MissesNothing(s)
      BY DEF Down, MissesNothing, Nothing
    <3> QED
      BY <1>2, <2>2, <3>1 DEF Start
  <2> QED
    BY <1>2, <1>3, <2>1, <2>2 DEF Exit
<1>4. ASSUME NEW i \in Instances, NewProvider(i) \/ NewSigner(i)
      PROVE  DirsIntact'
  <2>1. proc[i] \in Process /\ MissesNothing(proc[i]) /\ KeysIn(i).missed = {}
    BY ProcessFields, IntactPass DEF DirsIntact
  <2>2. CASE NewProvider(i)
    <3> DEFINE s == [proc[i] EXCEPT !.mode = "published", !.jwks = KeysIn(i)]
    <3>1. MissesNothing(s)
      BY <2>1 DEF MissesNothing, Process
    <3> QED
      BY <1>2, <2>2, <3>1 DEF NewProvider
  <2>3. CASE NewSigner(i)
    <3> DEFINE s == [proc[i] EXCEPT
                 !.mode = "up", !.keys = KeysIn(i), !.override = NoKid,
                 !.kid  = IF proc[i].override \in KeysIn(i).found
                          THEN proc[i].override ELSE proc[i].kid]
    <3>1. /\ s.keys = KeysIn(i) /\ s.jwks = proc[i].jwks
          /\ s.scan = proc[i].scan /\ s.jwksScan = proc[i].jwksScan
      BY <2>1 DEF Process
    <3>2. MissesNothing(s)
      BY <2>1, <3>1 DEF MissesNothing
    <3>3. Become(i, s)
      BY <2>3 DEF NewSigner
    <3> QED
      BY <1>2, <3>2, <3>3
  <2> QED
    BY <1>4, <2>2, <2>3
<1>5. ASSUME NEW i \in Instances, SignerScan(i) \/ JwksScan(i)
      PROVE  DirsIntact'
  BY <1>2, <1>5, ProcessFields, IntactPass
     DEF SignerScan, JwksScan, DirsIntact, MissesNothing, Process
<1>6. ASSUME NEW i \in Instances,
             SignerInstall(i) \/ JwksInstall(i) \/ Terminate(i)
      PROVE  DirsIntact'
  <2>1. proc[i] \in Process /\ MissesNothing(proc[i])
    BY ProcessFields DEF DirsIntact
  <2>2. ASSUME NEW found \in proc[i].scan
        PROVE  MissesNothing([proc[i] EXCEPT !.keys = found, !.scan = {}])
    BY <2>1 DEF MissesNothing, Process
  <2>3. ASSUME NEW found \in proc[i].jwksScan
        PROVE  MissesNothing([proc[i] EXCEPT !.jwks = found, !.jwksScan = {}])
    BY <2>1 DEF MissesNothing, Process
  <2>4. MissesNothing([proc[i] EXCEPT !.mode = "draining"])
    BY <2>1 DEF MissesNothing, Process
  <2> QED
    BY <1>2, <1>6, <2>2, <2>3, <2>4 DEF SignerInstall, JwksInstall, Terminate
<1>7. CASE UNCHANGED proc
  BY <1>1, <1>7 DEF DirsIntact
<1> QED
  BY <1>3, <1>4, <1>5, <1>6, <1>7
  DEF Next, vars, Tick, SignerReload, JwksReload, SignAccess, Operate, Deploy,
      SetSigningKid, SetRuntimeKid, Remove, DirFault, FileFault

LEMMA DirsIntactInvariance ==
  ASSUME DirFaults = {}, FileFaults = {}
  PROVE  Spec => []DirsIntact
<1>1. Init => DirsIntact
  <2>1. MissesNothing(Down)
    BY DEF Down, MissesNothing, Nothing
  <2> QED
    BY <2>1 DEF Init, DirsIntact
<1>2. TypeOK /\ DirsIntact /\ [Next]_vars => DirsIntact'
  BY DirsIntactStep
<1> QED
  BY <1>1, <1>2, KeysTypeCorrect, PTL DEF Spec

(* What a running process has loaded and published, when nothing is missed. *)
LEMMA AllLoaded ==
  ASSUME TypeOK, RotationInv, DirsIntact, NEW i \in Instances, Running(i),
         NEW k \in NeededKids
  PROVE  k \in proc[i].keys.found /\ k \in proc[i].jwks.found
<1>1. Loaded(proc[i], k)
  BY DEF RotationInv, Keeps, NeededKids, Running
<1> QED
  BY <1>1 DEF Loaded, DirsIntact, MissesNothing, Seen, Running

(* Every running instance accepts and publishes the key of every unexpired  *)
(* token, from its start to its end, as long as every directory can be      *)
(* listed and every key file in it loaded (README.md:257-266,               *)
(* signer.go:70-94, provider.go:84-155).                                    *)
THEOREM RotationSafeIntact ==
  ASSUME DirFaults = {}, FileFaults = {}
  PROVE  Spec => [](\A i \in Instances, t \in tokens :
                      Running(i) =>
                        Verifies(i, t.kid) /\ t.kid \in proc[i].jwks.found)
<1>1. TypeOK /\ RotationInv /\ DirsIntact =>
        \A i \in Instances, t \in tokens :
          Running(i) => Verifies(i, t.kid) /\ t.kid \in proc[i].jwks.found
  BY AllLoaded, TokensNeedKeys DEF Verifies
<1> QED
  BY <1>1, DirsIntactInvariance, KeysTypeCorrect, RotationInvariance, PTL

(* "If something goes wrong, we keep the last good JWKS" (provider.go:65)   *)
(* holds when nothing goes wrong with KEYS_DIR: with directories that can   *)
(* be listed and key files that can be loaded, no rotation by the runbook,  *)
(* restart or late refresh takes the signing key out of what is published.  *)
THEOREM LastGoodKeptIntact ==
  ASSUME DirFaults = {}, FileFaults = {}
  PROVE  Spec => LastGoodKept
<1> DEFINE Publishes == \A i \in Instances :
             Running(i) => proc[i].kid \in proc[i].jwks.found
           Safe == TypeOK /\ Publishes
           Good == \A i \in Instances :
             Running(i) /\ proc[i].kid \in proc[i].jwks.found
               /\ proc'[i].mode # "down" => proc'[i].kid \in proc'[i].jwks.found
<1>1. TypeOK /\ RotationInv /\ DirsIntact => Publishes
  BY AllLoaded, RunningKidNeeded
<1>2. Safe /\ Safe' /\ [Next]_vars => [Good]_vars
  BY RunsOn
<1>3. Spec => []Safe
  BY <1>1, DirsIntactInvariance, KeysTypeCorrect, RotationInvariance, PTL
<1> HIDE DEF Safe
<1> QED
  BY <1>2, <1>3, PTL DEF Spec, LastGoodKept
=============================================================================
