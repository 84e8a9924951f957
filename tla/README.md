# shelf-auth: a TLA+ model of the service

TLA+ modules, TLC configurations and TLAPS proofs about shelf-auth, an
authentication service in Go over PostgreSQL: login with an e-mail and a
password, short-lived access tokens (RS256 JWTs) and long-lived refresh tokens
that are single-use and rotated. File and line references are to `src/`.

## 1. Inventory

| Component | State | Operations | Modelled in |
| --- | --- | --- | --- |
| Session endpoints (`internal/service`, `internal/httpserver/handlers`) | local variables of each request | login, refresh, logout | `Sessions` |
| Sessions table (`internal/repo/postgres/sessions.go`, `internal/domain/session.go`, `migrations/`) | rows of `sessions` | Create, FindByHash, Rotate, RevokeAllByUserAndDevice, RevokeByHash | `SessionsRepo` |
| Signer and JWKS provider (`internal/auth`) | loaded private keys, published key set | load, reload, publish, sign, verify | `SigningKeys` |
| Process (`cmd/shelf-auth/main.go`) | lifetime, reloaders, server | start, SIGTERM, drain, exit | `SigningKeys` (its keys), `Server` (its requests) |
| Accounts (`register.go`, `me.go`, `repo/postgres/users.go`, auth middleware) | rows of `users` | register, credentials of login, me, seeding | `Accounts` |
| Password policy (`internal/security/password.go`) | none | validate, hash, check | `PasswordPolicy` |
| JWKS endpoint (`handlers/jwks.go`) | caches of its clients | conditional GET | `RelyingParties` |
| Connection pool (`repo/postgres/postgres.go`) | ten connections, a line of requests | open, acquire, release, close | `Server` |
| Configuration, client address, SameSite, security headers, CORS, logging, probes, `tools/hashpw` | none that changes | parsing, constant output | not modelled |

**How they interact.** A handler runs in a goroutine of its own and calls
`AuthService`, which calls the signer and the repositories. Requests share
nothing in memory except the signer's key map; all they share is the `sessions`
and the `users` table, one statement (or, in `Rotate`, one transaction) at a
time, over a pool of ten connections per process. Several instances may serve
the same tables. In each process two goroutines reload the signer's keys and the
JWKS from `KEYS_DIR` on a ticker; operators change the directory and the
environment by the runbook in `README.md`, "Key Rotation". Other services fetch
and cache the JWKS.

**What is hard.**

- `Refresh` reads a row (`refresh.go:30`), decides on the copy (`:41-53`) and
  writes in a later transaction (`:87`) that has no condition on the row it
  updates. Anything may happen in between.
- Failures fall in the gaps: a commit whose answer is lost, a statement whose
  error is dropped (`refresh.go:51`, `logout.go:17`), a request that dies at its
  10 s limit, a process that crashes.
- A client keeps every token it ever received and may present any of them,
  under any device id.
- Keys are read before a lock and installed after it, signer and JWKS reload at
  their own pace, in every instance, while files come and go, and services that
  verify tokens cache what they were given. A file that cannot be read or parsed
  is skipped without an error, and what is left replaces what there was.
- Registrations of one address race on a unique index; accounts are seeded and
  deleted under logins that have read them and access tokens that outlive them.
- Handlers wait for one another in the pool, for a database that may hang, and a
  shutdown waits for all of them, for a while.

**What makes each component correct.** Sessions: a token that was dead when a
refresh arrived is never refreshed; chains of rotations never dangle or cross
users; the reuse defence hits the device it is meant for and no other; what is
revoked stays revoked; one login has one usable token; a request is answered.
Keys: every instance accepts every unexpired token, a key is lost only by a
process whose own pass over the directory could not load its file, and comes back
with a later pass, and what a relying party has cached is never too old. Accounts: one account per address,
changed by nobody but the operator, and nobody is signed in to an account
without its password or after its end. Process: no connection is lost, no
handler blocks another for good, every request ends, and so does a shutdown.

## 2. Modules

| Module | What it is |
| --- | --- |
| `SessionsRepo` | The table as a function from tokens to rows; each SQL statement as an operator from table to table. |
| `Sessions` | The three endpoints over the table: requests with a program counter, the clock, the clients' tokens. |
| `SessionsProperties` | Safety, action and liveness properties, the refinement mapping, the inductive invariant. |
| `TokenLedger` | Abstract specification: a ledger of single-use tokens with claims. |
| `SigningKeys` | Signer, JWKS provider, process lifetime and the operator's runbook, with their properties. |
| `RelyingParties` | The JWKS endpoint over `SigningKeys`: clients with caches and ETags, and the wait of an operator who cares for them. |
| `PasswordPolicy` | The password rules, hashing and checking, as operators. |
| `Accounts` | Register, the credentials part of login and `/me`, over the users table and an operator. |
| `AccountsProperties` | Their properties, the inductive invariant, and the refinement mapping. |
| `AccountDirectory` | Abstract specification: a directory of accounts, proofs of ownership, sign-ins. |
| `Server` | One process: requests over the connection pool, the time limit, the shutdown. |
| `MCSessions`, `MCSigningKeys`, `MCAccounts` | What TLC adds: symmetry sets, passwords. |
| `SessionsProofs` | Proof of the inductive invariant and of the safety properties. |
| `SessionsRefinement` | Proof that `Sessions` implements `TokenLedger`. |
| `SessionsLoginProofs` | Proofs about the tokens of one login: it stays over, it forks only by an overlap, and when the texts about rotation, reuse and logout are true. |
| `SigningKeysProofs` | Proof of the types, of `UnexpiredVerifies` and of `KeyLostOnlyIfMissed`, and what holds when no directory and no file fails. |
| `RelyingPartiesProofs` | Proof that the world of the parties implements `SigningKeys`, of `PartiesVerify`, and that nobody is answered 304. |
| `AccountsProofs` | Proof of the inductive invariant and of the safety properties. |
| `AccountsRefinement` | Proof that `Accounts` implements `AccountDirectory`. |
| `ServerProofs` | Proofs of `NothingCutShort`, and of types, `PoolWhole` and `WaitersHaveRunner`. |

Operators whose comment begins with "Mutant" are wrong on purpose: each is a
plausible slip in the definition that follows it (a forgotten condition, a
dropped error, a missing row). `PROJECT.json` names, for every property of a
passing run, the one under which TLC finds that property violated, so that no
property is one the code could not break.

### Sessions: state and actions

A row is named by the opaque token it was created for: row id, jti and refresh
hash are fresh random values of one row, so one name stands for all three
(`replaced_by` holds the successor's jti, although `domain/session.go:101` takes
a session id). Times are ticks. IP, user agent and `created_at` are written and
never read back. `MaxTime` bounds the clock of a run, nothing else is bounded
but the sets.

`req[r]` is the request in slot `r`; its `pc` says which statement comes next:

| Action | Code |
| --- | --- |
| `Login`, `LoginRefused` | handler and `Login` up to `NewSession` (`service/logging.go:45-92`) and every way to stop before |
| `CreateSession`, `CreateFails` | the INSERT (`service/logging.go:94`), stored or not, its answer lost or not |
| `Refresh` | the handler (`handlers/refresh.go:15-30`): cookie, device id, "unknown" if absent |
| `FindSession` | the SELECT (`service/refresh.go:30`) |
| `CheckSession` | the checks on the copy, in their order (`:38-53`) |
| `RevokeAll` | the reuse defence (`:51`); its error is dropped |
| `RotateSession`, `RotateFails` | signer, random source, `ParseIP`, the transaction (`:55-96`), committed or not, its answer lost or not |
| `Logout`, `RevokeHash` | `handlers/logout.go`, `service/logout.go:10-18`; its error is dropped |
| `Reply` | the response and its cookie reach the client |
| `Drop` | the request dies: crash, 10 s limit, lost connection |

`held` is what clients ever received; a client may present any of it, a made-up
value (`Junk`) or nothing. `root` and `loggedOut` are history variables for the
properties, as is the field `dead` of a request: whether its token was revoked,
replaced or expired when it arrived. They guard no action.

The successor's device is the one of the *request*, not of the row it replaces
(`service/refresh.go:80`), and the UPDATE of `Rotate` has no condition but the
jti (`repo/postgres/sessions.go:75`): both are modelled as they are.

PostgreSQL runs at READ COMMITTED. A statement is one atomic step of the model.
That is sound here: the one statement on several rows, the revoke-all, may miss
a row inserted after its snapshot, which is the order "revoke-all first" of the
model: the transaction that inserts the row reads nothing the revoke-all writes.

### SigningKeys: state and actions

A kid stands for its key (the file name is the kid and a file's content does not
change while it is good). A process starts in the three steps of `main`, between
which the directory and the environment may change: `Start` reads the environment
(`main.go:28`), `NewProvider` publishes (`:46`), `NewSigner` loads the keys and
overrides the active kid (`:49-65`). `SignerScan`/`SignerInstall` are the two
halves of `Signer.reload` around its lock, `JwksScan`/`JwksInstall` those of
`Provider.refresh`. `Terminate` stops the reloaders and leaves the server
draining, `Exit` ends the process (both at once are a crash). `SignAccess` adds a
token; a token is the kid that signed it and what is left of its life, so the
clock needs no bound.

What goes wrong with `KEYS_DIR` has two forms, as it has in the code:

| Fault | Signer | JWKS |
| --- | --- | --- |
| `DirFault`: the directory cannot be listed | `os.ReadDir` fails, `reload` keeps what it has (`signer.go:70-73`); at the start it has nothing | the `WalkDir` callback swallows the error (`provider.go:114`), an empty set is published |
| `FileFault`: some files are unreadable, malformed, or hidden by a volume that is not mounted (then all of them: the directory can be listed and is empty) | each is skipped and the map replaced by the rest, without an error (`signer.go:84-87`) | likewise (`provider.go:128-131`) |

`KeysIn` is one pass over the directory. Its result is a `Load`: `found`, what the
code has, and `missed`, history: the files that were there and that the pass did
not load. `missed` guards nothing; the properties use it to say that a key was
lost to *this* pass of *this* instance and to nothing else. `Seen` is both.

The operator follows the runbook: `Deploy` a key under a new name to one
instance after another; switch (`SetSigningKid`, `SetRuntimeKid`) when every
instance has the file and every running one has loaded and published it;
`Remove` a file when nobody signs with the key, no environment names it, and
`ACCESS_TTL` has passed since a process last could sign with it. The runbook
states the waiting in the hot way only; the model assumes it for both, and an
operator who does not wait loses `UnexpiredVerifies`: what the model shows is that
the code keeps its part if the operator does. The same holds for using
the name of a removed key again: a scan that was taken before the file came back
could then be installed after the switch.

### RelyingParties: state and actions

It extends `SigningKeys` with what a verifier elsewhere has: `party[p]` is the
key set it cached, the ETag that came with it, and how much of max-age is left.
`JWKSHandler(p, i)` is one GET with that ETag, answered by any running instance;
`weakETag`, `Current`, `TrimPrefix` and `Matches` are the code's own comparison
(`handlers/jwks.go:22-32`). Equal key sets have equal bodies and so equal ETags.
Every step of `SigningKeys` is a step here; `Switch` demands that the new key has
been `Deployed` for max-age (`waited`). **The runbook (`README.md:257-266`) does
not ask for that wait**: without it `PartiesVerify` is false, because a party may
still hold the set from before. The branch of `Current` for an empty body
(`provider.go:52-55`) is left out: `refresh` fails only without a `KEYS_DIR`, with
which `config.Load` does not start (`config.go:54`). So are HEAD and a list of tags
in `If-None-Match`, which is compared as if it were one.

### Accounts: state and actions

A row of `users` holds the e-mail, the hash and `email_verified`. An e-mail is
an address and a spelling (the case of its letters), as CITEXT tells them apart.
A password is the sequence of the classes of its runes; a hash is what it was
made of.

| Action | Code |
| --- | --- |
| `Register` | handler and `Register` up to the INSERT: JSON, missing fields, e-mail, policy, hash, `NewUser` (`handlers/register.go:25-38`, `service/register.go:17-39`) |
| `InsertUser`, `InsertConflict`, `InsertFails` | the INSERT (`users.go:71-93`): stored (its answer lost or not), refused by the unique index, or failed |
| `Login`, `FindUser`, `CheckCredentials`, `CreateSession`, `CreateFails` | the same login as in `Sessions`, with what it reads of the user (`service/logging.go:45-104`); the foreign key refuses a session for a user who is gone |
| `Me`, `MeRefused`, `FindByID` | the middleware (`middleware/auth.go`), then the SELECT of `/me` (`users.go:41-67`) |
| `Reply`, `Drop` | the response, or the death of the request |
| `SeedUser`, `DeleteUser` | `make seed-user` (`Makefile:203-211`), which overwrites by e-mail; a row deleted by hand, with its sessions |

`sessions` is only the set of users that have one (`Sessions` has them in
detail), `access` the users for whom somebody holds an unexpired access token.
`deleted`, `written` and `known` (who was told 201 for a row nobody touched
since) are history, as is the field `gone`. They guard nothing but the choice of
a fresh id: an id is a random UUID, so a deleted one does not come back.

### Server: state and actions

A slot for a request goes from `idle` over `reading` (its header) to `serving`.
What a handler computes is left to the other modules; here it is its use of
connections, from `Query` and `Transaction`: acquire, run a statement and keep
the connection, run the last one and give it back. `Give` hands what comes back
to the first in line. `End` is every way a handler returns: what it still holds
comes back by deferred calls (`sessions.go:61`). `Expire` is the context of the
request: the router's 10 s, or the connection closed by `srv.Close`. `Outage`
makes PostgreSQL hang or answer again. `Shutdown` begins with the signal or an
error of the server; `Drained` is the return of `srv.Shutdown`, with or without
success; `Exit` is `db.Close`, which waits for every connection. A request whose
header was still being read when the shutdown began is served nevertheless
(`net/http` closes idle connections only), and gets the field `late`.

Abstractions: the three places of the model's `Transaction` stand for BEGIN, two
statements and COMMIT; a new connection is made without delay (dialling a
database that hangs is waiting for the first statement); a connection destroyed
after a cancelled statement counts as free; handlers that register or read a
profile use one statement like logout, a reuse two like login.

## 3. Runs

| Run | Question | Instance | Size |
| --- | --- | --- | --- |
| `sessions_families` | Is the table well-formed, has every revocation a cause, is every handed-out token backed, and does the service keep the ledger? Does a login that is over stay over, and what gives a login a second usable token? All with failing statements and lost commit answers | 2 users, 2 devices, 3 tokens, 2 concurrent requests | 2.2 M states |
| `sessions_serial` | One request at a time, with expiry and requests that die: has a login one usable token, and none after a detected reuse? | 1 user, 1 device, 4 tokens, TTL 1, 2 ticks | 0.8 M |
| `sessions_live` | Is every request answered, do logout and replay take effect in any order, do rows only die, is the invariant of the proofs an invariant? | 1 user, 2 tokens, 2 requests, TTL 0, 1 tick, fair | 0.1 M |
| `keys_rotation` | Does every instance accept every unexpired token through a whole rotation, and keep its active key? | 2 instances, 2 keys, TTL 1, one directory that cannot be listed for a while | 2.8 M |
| `keys_reload` | What does an instance, and a cached JWKS, lose to a file that cannot be loaded, and do the reloaders bring it back? | 1 instance, 2 keys, TTL 2, max-age 2, 1 relying party, a first key whose file fails and heals, fair | 0.8 M |
| `accounts` | Does the service keep a directory of accounts, through races, failures, seeding and deletion, and is the invariant of the proofs an invariant? | 1 address in 2 spellings, 2 ids, 4 passwords, 2 concurrent requests | 0.2 M |
| `server` | Is every connection accounted for, does every request end, and a shutdown? | 3 requests, 2 connections, limits of 1 tick, fair | 0.2 M |

Bounds. Three tokens hold a login, its successor and a second successor or a
second login: the shortest overlapping rotations, crossings between logins and
reuses, and a login forks with its third. Two users and two devices are what it
takes for a revocation to reach the wrong one. The fourth token of the serial run makes a chain with a middle. A
TTL of zero or one puts the expiry edge, the tick before and the tick after
within the bound. Two requests are one more than any request sees of another; the
proofs take any number. A request that dies is in the serial run only: with
concurrent requests it reaches the states of a failing statement or a lost
answer, which `sessions_families` has.

One address suffices for `accounts`: rows of different addresses meet in no
statement; two ids let it be deleted and registered again under another number.
The passwords are two that pass, one that is a rune short, and none. Max-age two
makes a cache that is one tick behind differ from one that is two behind; two
relying parties never meet. The two forms of a failing directory are in a run
each: with two keys, one file that may fail makes the directory an empty one before
the rotation, one with a bad file during it, and a good one after it. The proofs
take both at once, on any number of instances. Three requests over two connections
are the least at which somebody waits while two others hold all, and 0 or 1 ticks
of age tell a request that had its time from one that did not.

Five runs show where the code does not do what a text of the repository says;
each has a finding in `PROJECT.json`:

- `rotated_twice`: two overlapping refreshes rotate one token twice
  (`domain/session.go:100` says a rotated session is not accepted again).
- `chain_device`: after a refresh with another `X-Device-ID` the reuse defence
  misses the rest of the chain (`handlers/refresh.go:43`).
- `logout_error`: 204 is answered although the UPDATE failed (`README.md:30`).
- `jwks_last_good`: an unreadable directory empties the JWKS
  (`provider.go:65`).
- `conditional_get`: no ETag the service gave out is ever recognised
  (`handlers/jwks.go:17`).

### What the code does not promise

`OneUsablePerFamily` and `ReuseRevokesChain` hold for requests that come one at
a time from one device without failing statements. Overlapping refreshes break
the first (`rotated_twice`). The second also fails when the revoke-all fails and
its error is dropped (`refresh.go:51`), and when a refresh that passed the checks
rotates after the revoke-all. What does hold in every interleaving and under
every fault is proved below, and so are the conditions under which these two, and
the texts behind `rotated_twice` and `logout_error`, are true.

Further disagreements, seen while reading:

- `ACTIVE_KID_RUNTIME` is read once, before the server starts (`main.go:59`), and
  no SIGHUP handler exists: the "hot way" of `README.md:264` needs a restart.
- The HTTP status of a reuse is 401, not the 409 of `README.md:307`.
- `domain.IsActive` (`session.go:87`) calls a session expired at the very moment
  at which `refresh.go:44` still accepts it, and has no caller.
- A registration whose INSERT fails, or is stored and its answer lost, is told
  400 INVALID_INPUT (`handlers/register.go:73`); `README.md:308` says 500.
- `/me` for a user who is gone answers 500: `users.go:52` hands `pgx.ErrNoRows`
  through, `handlers/me.go:39` expects `ErrUserNotFound`. `CreatedAt` of its
  answer is never set.
- `ParseEmail` checks `Bob <a@b>` and keeps it as written, although `email.go:8`
  speaks of a normalised address: one mailbox can have two accounts.
- A login that read the row before the operator reset the password succeeds
  after it (`AccountDirectory` allows it).
- `Validate` allows a clock skew of 5 s (`signer.go:196`), which `jwt.Parse`,
  called before it, does not.
- "Best-effort; keep last good state on errors" (`main.go:71`): the signer keeps its
  keys only if the directory cannot be listed. A file that cannot be read or parsed
  (`signer.go:84-87`), or a volume that is not mounted, takes the active key out of
  the map without an error, and every login and refresh fails until a later pass.
- A request whose header arrives while the server drains may be cut before its
  10 s are over. A server error ends the process with status 0, and a second
  SIGTERM during the drain is swallowed.

### Fairness

`Sessions!FairSpec`: weak fairness of the steps of an accepted request. The Go
scheduler runs every goroutine, no step waits for another request, and the 10 s
limit of the router (`router.go:47`) ends a statement that hangs, with an error.
Nothing is fair about arrivals, the clock, clients or faults. `LogoutTakesEffect`
and `ReplayTakesEffect` are checked without faults, as a failed UPDATE is dropped.

`RelyingParties!PartiesFairSpec`: weak fairness of each reloader, whose ticker fires again
and again while the process is up (`signer.go:99-110`, `provider.go:66-77`); it
supposes `KEYS_RELOAD_INTERVAL > 0` (`main.go:72`). Operators, signatures, faults,
starts, stops and relying parties are not fair.

`Server!FairSpec`: weak fairness of the steps of a handler (goroutines run, and a
context that is done wakes what waits on it), of `Tick` (time passes) and of
`Stop` (main goes on to its end). Nothing is fair about clients, failures, the
database, which may hang for good, or the beginning of a shutdown.

## 4. Proofs

All proofs are for arbitrary sets of users, devices, tokens, requests, instances,
keys, relying parties, ids, addresses, passwords and connections and any TTL,
max-age or limit, from the named assumptions `NullsAssumption`,
`SessionsAssumption`, `KeysAssumption`, `PartiesAssumption`, `AccountsAssumption`
and `ServerAssumption`. They say only that the constants are
of their kind and that "null" values are none of them; and, in the last one,
that the drain (`main.go:141`, 10 s) is not shorter than a request
(`router.go:47`, 10 s).

**Sessions.** No safety property is inductive alone: what `Rotate` writes comes
from a copy of a row read two steps earlier, and even `TypeOK` needs the copy to
be a row. `IInv` adds what a request knows:

- `SnapshotAgrees`: the row still exists, its owner, device and expiry are those
  of the copy, and what the copy says was replaced or revoked still is;
- `DecisionHolds`: what the checks established on the copy;
- `DeadStaysDead`: a token dead on arrival is dead in the table and in the copy,
  so the checks refuse it whenever they run;
- `NewRowUnused`, `NewOnlyInReply`, `ExpiryBounded`: a row that is being created
  is new, only an answer carries a token, and no stored row outlives one created
  now (so that a chain's expiry does not shrink).

`Invariance` (`Spec => []IInv`) has one step per action. From it follow
`TypeCorrect`, `NoLateRefresh`, `ChainsWellFormed`, `RevocationsCaused`,
`HandoutsAreBacked` and, as an action property, `RowsOnlyDie`.

**Logins** (`SessionsLoginProofs`). The arguments about the tokens of one login
rest on one more inductive invariant, `LoginInv`: every stored token belongs to a
stored login of its user (`RootsStored`), a cookie that is a token is the token
of a stored session (`PresentedStored`), and so is the token of a reported reuse.
Two lemmas carry the rest. `UsableStep`: a token that can be used after a step
could be used before, or is the only new one, of a new login or traded by a
request with a claim on a token that dies in that step. `ClaimStep`: a claim is
only ever made on a usable token. From them:

- `LoginsStayOver` (`OverForGood`) and `OverlapsFork` (`ForkedOnlyByOverlap`) hold
  without any hypothesis, in every interleaving and under every fault. `Single`
  is the strengthening: a login with one usable token also has claims on that
  one only.
- The other theorems are about what texts of the repository say and the code
  does not do by itself. Each has the hypothesis that makes it true:

| Theorem | Says | Provided that | Without it |
| --- | --- | --- | --- |
| `OneUsable` | one usable token per login | no two refreshes of one login overlap | `rotated_twice` |
| `RotatedOnceUncontested` | a session is rotated once (`domain/session.go:100`) | no two refreshes read the same token and found it good (`Contested`) | `rotated_twice` |
| `ReuseEndsLogin` | a reported reuse has ended the login (`handlers/refresh.go:43`) | the device id stays the same (`Steady`), no refresh with a claim is under way while the client is told (`Quiet`), no statement fails | `chain_device`; TLC finds a violation without each of the other two |
| `LogoutTrue` | a 204 means revoked (`README.md:30`) | no statement fails | `logout_error` |

  `Overlap`, `Contested`, `Steady` and `Quiet` speak of what clients and the network
  do, not of the code. `OneUsableSerially` and `ReuseEndsLoginSerially` are the
  instances that `sessions_serial` runs: one slot has no overlap and is always
  quiet, and one device is steady, so that no hypothesis on behaviours is left.

**Refinement.** Under the mapping of `SessionsProperties` a request's claim on a
token appears at its SELECT, if the copy is live, and is redeemed by the
rotation; the ledger's four sets are read off the table. `Refinement` proves
`Spec => KeepsLedger`: the initial states map, and every step is a step of the
ledger or a stutter. The ledger says the most one can promise about concurrent
refreshes: a claim made while a token was live may be redeemed after the token
was spent or revoked, a claim made later may not.

**SigningKeys.** `RotationSafe` rests on `RotationInv`. A key is `Needed` while an
environment names it, a process signs with it or is starting with it, or did so
less than `ACCESS_TTL` ago; a token's life and its key's idle time never exceed
`ACCESS_TTL` together (`Clocks`), so the keys of unexpired tokens are needed. The
files of needed keys are in every directory, and every pass that was published,
loaded or is under way has seen them (`Loaded`). A key becomes needed by a switch
only, and then it is `Deployed`: loaded everywhere, but what about scans that began
earlier? `ScansAreNewer` answers that: a scan under way lacks no key that is loaded
and still has its file; and `OnlyOf`: what is loaded has its file or is retired, so
that a new file is nowhere loaded, which is where the proof uses that names of keys
are not used again.

`RotationInv` speaks of files seen, not of keys loaded, which is why the faults of
files and directories do not disturb it: a pass sees exactly the files that are there
(`PassSeesFiles`) and then loads them or not. `ActiveKeyKept` follows from it, for
both sides of a step, and from `RunsOn`: a running process keeps its kid.

If no directory and no file fails (`DirFaults = {}`, `FileFaults = {}`), `DirsIntact`
shows that no pass misses anything: `RotationSafeIntact` says without exception that
every running instance accepts and publishes every unexpired token's key, and
`LastGoodKeptIntact` that the text violated by `jwks_last_good` is true of everything
but these faults.

**RelyingParties.** `PartiesOnlyWatch`: the world with relying parties implements
`SigningKeys`, whose theorems thus hold in it (`ActiveKeyKeptWatched`). `CachesVerify`
needs of the rotation that only a switch makes a key needed. `CachesKeepUp`: a fresh
cache without a deployed key is left with no more time than the operator still has to
wait. `NeverMatches`, the lemma that no tag of a cache is ever recognised, is the
finding of `conditional_get`; `NeverNotModified` draws the conclusion for every state.
`CachesVerifyIntact` is `CachesVerify` without the exception for files that could not
be loaded, when no directory and no file fails.

**Accounts.** `RegisteredCanLogin` is about a row and a client that has long left,
so `AccountsInv` says what survives of the one until the other comes back:
`RowsDistinct` (one row per address, no row under the number of a deleted one:
the lookup finds at most one), `AccountsStrong`, `Knows` (what each request knows
of the tables between two of its statements: the strong password it is about to
insert, the row it wrote or read unless the operator has touched it since, the
subject of `/me` who was there or was gone when it came) and `KnownStands` (the
row of a 201 is as it was written). `KnowledgeStands` is the lemma all steps
share: knowledge survives a step on one number if that number is new, or gets
into the history as deleted or written. `AccountsRefinement` maps rows to accounts; a
login shows its password on arrival, proves itself with the SELECT, if the row
matches, and enters with the INSERT; every other step is a withdrawal, an
operator's, or a stutter. That the address of an insert is new is all it needs
of the unique index.

**Server.** `ShutdownIsPatient`: while main waits in `Shutdown`, the age of a
request that was there and the ticks main has left add up to at least `Limit`
(`DrainOutlasts`); `Tick` moves both. It is the reason the two limits of 10 s may be
equal and the drain may not be the shorter.

The pool rests on `PoolInv`. What a handler holds follows from what it has still
to do: in every program an "acquire" is followed by statements up to a "last" one
(`Bracketed`), and inside the brackets a handler has one connection, outside none
(`Sound`). `Pool` counts the free connections and the handlers that have one. It has
a parameter, the connections on their way back, because a handler that ends changes
its own state and then `Give` passes what it had to the first in line: `Releases`
takes a connection out of a handler, `Returns` brings it back. It also says
that the line has nobody twice and only handlers that ask, and that nobody waits
while a connection is free. `PoolIsWhole` and `PoolNeverStuck` follow: if somebody
waits, nothing is free, so somebody has a connection, and is therefore inside its
brackets, where no statement asks the pool; were `Rotate` to insert on the pool
instead of its transaction, `Bracketed` would fail for its program. `PoolWhole` counts
handlers (each has at most one connection) rather than summing what they hold: the
sum would be a fold, whose induction is out of the provers' reach.

**Model-checked only.** Liveness (`Answered`, `LogoutTakesEffect`,
`ReplayTakesEffect`, `ReloadConverges`, and `Ended` and `ShutdownEnds` of `Server`),
which needs fairness and `ENABLED`. Every invariant and every action property of the
passing runs is stated by a theorem.

## 5. Not modelled, and abstractions

- bcrypt, token entropy, SHA-256, JWT claims and PEM parsing: only their outcomes.
  The access token of a refresh does not appear in `Sessions`, nor does the
  deletion of a user (`Accounts` has it; the table cascades).
- Configuration (parsing at startup), client address, SameSite, security headers,
  CORS, logging, probes: no state that changes, and nothing that reads it back.
- `WalkDir` descends into subdirectories of `KEYS_DIR` and `ReadDir` does not:
  the model takes the directory as flat.
- One pass over `KEYS_DIR` is one step; a file that changes in the middle of a pass
  is in the pass that sees it before or after.
- A server error that ends `main` without a signal: for the keys it is `Terminate` and `Exit`.
- The cookie jar: `held` lets a client present any token it ever got, which
  covers lost, late and reordered `Set-Cookie` headers.

## 6. Plan

1. The deletion of a user in `Sessions`, as in `Accounts`, with `LifecycleMonotone`
   and the chain restricted to rows that are still there.
2. What `TokenLedger` and `AccountDirectory` promise by themselves, as theorems about
   them that `Refinement` and `DirectoryRefinement` carry over.
