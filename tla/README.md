# Specification and proofs for Axoflow-IdP

Axoflow-IdP is a small OpenID Connect provider in Go: a set of HTTP handlers in
front of a user database kept in one JSON file and of several tables kept only
in memory. This directory holds TLA+ modules for it, TLC configurations that
check them on small instances, and TLAPS proofs about them for any number of
requests, users and crashes.

Contents: [inventory](#inventory), [modules](#modules), [runs](#runs),
[findings](#findings), [proofs](#proofs), [limits](#what-is-not-modelled),
[plan](#plan).

## Inventory

| Component | Code | State | Operations that change it |
|---|---|---|---|
| User database | `pkg/user/{user,admin,password}.go` | `User.users` under `User.mu` | `Register`, `SelfRegister`, `RegisterLocked`, `ChangePassword`, `SetPassword`, `AdminResetPassword`, `AdminDelete`, `AdminUpdateUserGroups` |
| User file | `pkg/user/user.go` (`SaveUsers`, `loadUsersFromFile`) | the file at `FilePath`, the temporary file `FilePath~`, `User.saveMu` | save (marshal, create, write, close, rename), load at start |
| Sessions | `internal/session` | map of session id to user id | `Create`, `Delete`, `DeleteUserSessions` |
| Reset links | `internal/resettoken` | maps `byToken` and `byUser` | `Create`, `Consume`, `Peek` (drops expired ones) |
| Account handlers | `internal/routes/{root,admin,password,routes}.go` | none of their own: where each request is | login, logout, register, the password forms, the admin forms |
| Route table, configuration | `main.go` | constant after start | defaults, `Validate`, `newMux` |
| Start-up seeding | `pkg/user` `New`, `seedUsers`, `applySeedPasswords` | users and file, once | seed, load, update seed passwords |
| Authorization codes | `internal/codestore` | map of code to token and time of issue | `Create` (and clean-up), `Pop`, `CleanUp` |
| Revoked access tokens | `internal/tokenstore` | map of token to time of revocation | `Revoke`, `CleanUp` |
| OIDC provider | `pkg/oidc`, `internal/routes/oidc.go` | none of its own; signed tokens live with the clients | auth, token, userinfo, revoke |
| Signing keys | `pkg/keychain`, `pkg/oidc` | key pair, keychain, key file | generate, load |
| CSRF tokens, error pages, templates | `internal/routes/{csrf,error}.go`, `templates/` | none | - |

**How they interact.** Every HTTP request runs in a goroutine of its own. A
handler is a sequence of calls into the stores; each call takes that store's
lock, does its work and releases it, and nothing is held between two calls.
User operations hash passwords *outside* the lock (it takes about 200 ms), so
what was checked before may have changed at the write. After the write a handler
calls `SaveUsers`, which serializes all saves with `saveMu` and marshals the
users under the read lock of `mu`; then, depending on the form, it consumes the
reset link, deletes the user's sessions, creates a session, or mints a link.
The OIDC endpoints read users and sessions, sign a token from a *copy* of the
user record and leave it in the code store; the token endpoint pops it, and
userinfo trusts what the token says without asking the user database again.

**Which behaviours are hard.** The order in which these critical sections of
several requests interleave; a save that fails after its change was made in
memory; the death of the process between any two steps, which keeps the file and
forgets sessions, links and unsaved changes; a link that expires or is submitted
twice while its password is being hashed; the bootstrap window of an empty
database, open to everybody at once; a code that is redeemed, retried, cleaned up
or lost with its process; a user deleted or demoted while tokens about them are
in circulation; a start that dies between creating the key file and writing it, or
that finds what another configuration has left. `PROJECT.json` lists each of them, at its
line, under `hazards`.

**What makes each component correct.**

- *User database*: no user name and no email twice; the bootstrap form admits
  one account and it is an admin; the last admin does not get lost; a deleted
  user stays deleted; a replaced password stays replaced; every change and every
  password has somebody behind it who had the right to make it.
- *User file*: whole at every instant, never older than it was, loadable by the
  next start (finding 3 is where it is not), and ahead of every success page.
- *Sessions*: after a password is changed or reset, none that was proved with
  the old one.
- *Reset links*: one active link per user, consumed at most once and within its
  time; not burned when the new password could not be saved; whatever password is
  set through a link is its user's.
- *Handlers*: each enters only the critical sections of its route, in order, and
  every request is answered.
- *OIDC*: a code is exchanged at most once, and works until its lifetime is over;
  a revocation holds while the process lives, and for each request that comes in
  after its answer; claims that an administrator has
  changed fade with the token.
- *Keys and start-up*: a key on file is kept and is the one that signs; a user
  file that exists is never reseeded; a configuration that has come up once comes
  up again.

## Modules

| Module | What it is |
|---|---|
| `UserStore` | `User.users`: the rules of each operation and its write, one operator per critical section of `User.mu`. |
| `SessionStore` | the session table, one operator per critical section. |
| `ResetTokens` | the reset-token store with its two maps and its clock; a specification of its own and a component of `Accounts`. |
| `ResetLinks` | abstract: what reset links promise. `ResetTokens` implements it. |
| `UserFile` | `SaveUsers` system call by system call, with failures, crashes and restarts. |
| `DurableLog` | abstract: what `SaveUsers` promises. `UserFile` and `Accounts` both implement it. |
| `Accounts` | the composition: requests as processes over `UserStore`, `SessionStore`, `ResetTokens` and the file. |
| `AccountsSafety` | the properties of `Accounts`. |
| `CodeStore`, `TokenStore` | the authorization codes and the revoked tokens, one operator per critical section. |
| `OneTimeCodes` | abstract: what authorization codes promise. `OidcFlow` implements it. |
| `Provider` | the rules of `pkg/oidc` for clients, redirect URIs and the three kinds of requests. |
| `OidcFlow` | the composition: the OIDC endpoints as processes over users, sessions, codes and revocations. |
| `OidcSafety` | the properties of `OidcFlow`. |
| `Config` | `LoadConfig`'s defaults, `Validate`, and which routes `newMux` registers. |
| `Keychain` | the keychain of `pkg/keychain`: create, add, which key signs and verifies. |
| `Startup` | `main`: starts and lives with changing configurations over the same files. |
| `StartupSafety` | the properties of `Startup`. |
| `MCAccounts`, `MCUserFile`, `MCResetTokens`, `MCOidcFlow`, `MCStartup` | instances for TLC. |
| `AccountsProofs`, `AccountsUserProofs`, `AccountsRulesProofs`, `AccountsRightsProofs` (each extends the one before), `UserFileProofs`, `ResetTokensProofs`, `OidcFlowProofs`, `StartupProofs` | theorems and proofs. |

`UserStore` is shared: `Accounts`, `OidcFlow` and `Startup` are three views of
one program that take the operations of the user database from the same module,
`SessionStore` serves the first two, and each view treats the others' part as
its environment. `Accounts` has every account handler section by section;
`OidcFlow` has the protocol endpoints section by section and takes account
changes as one saved step; `Startup` has the start system call by system call
and takes handlers as one step with a save that may fail.

### Accounts

A request `r` is a process; `req[r]` holds the form it submitted (`kind`), the
caller its cookie named (`actor`), the user it is about (`target`), the reset
token it came with, and in `pc` the critical section it enters next:

    login      -> session -> ok
    register   -> write -> save -> rename -> session -> ok
    change     -> whoami -> check -> write -> save -> rename -> purge -> session -> ok
    setpw      -> look -> write -> save -> rename -> consume -> purge -> ok
    areset     -> whoami -> verify -> look -> write -> save -> rename -> purge -> ok
    adelete, agroups, aregister
               -> whoami -> verify -> write -> save -> rename -> ok
    reglocked  -> whoami -> verify -> write -> save -> rename -> mint -> ok
    alink      -> whoami -> look -> mint -> ok

`fail` is a refusal before anything was written, `error` an internal error after
the write, `lost` the death of the process. Refusals that do not depend on the
state (a malformed form, no CSRF token, a weak or wrong password) are the
actions `Reject` and `Refuse`, which may always happen at the places where the
handlers make them. `SaveFail` and `MintFail` are the failures after the write.

Data are abstract. The list of users is a function from ids to records: ids are
unique and nothing depends on the order. Whatever a request mints - a user id, a
session id, a password hash, a token - is named after the request; fresh ULIDs,
salted hashes and 32 random bytes never collide in the code. In particular every
new password differs from every other. A seed user's password, and a session it
may hold at the start, are named after the user. `RoleUser`, the group everybody
has, is left out of the group lists, so the empty list stands for it.

Names and email addresses are the bytes that a form carried. Memory keeps and
compares them as they are, but `json.Marshal` writes every byte that is not UTF-8 as
U+FFFD. `InFile` maps each of them to what a save makes of it, `Written` applies it
to a database, and it is `Written(users)` that a save marshals and a restart loads.
So two names in memory can be one name in the file; `Garbled` are the names and
addresses that `InFile` makes of others. `InFile` is arbitrary, but for what
`JSONAssumption` says: what was written once is the same when it is written again,
and a configuration, which was itself read from JSON, has only such names.

Three variables are history that no step reads: `cred` (the password hash a
sign-in was proved with), `applied` (whose write is in `users`; the copy of it
that is saved with the database is `file.log`) and `overtaken` (sign-ins that
were in flight when their user was signed out).

A crash is the death of the process, not of the machine: what `rename` has put
in place is there at the next start. The code calls no `fsync`, so nothing here
is said of a power failure. A restart loads the file and, like
`user.New`, sets the seed passwords of the configuration and saves them: the accounts
named in `PresetNames` get the hash `Preset` (`Configured`). With
`updateSeedPasswords` off, `PresetNames` is empty. Before it serves anybody a start
is one step here; in `Startup` it is many. A file that `validateUsers` refuses
keeps the server down: `Crash` then leaves no request to be served.

What a reset link promises is divided between two modules. `SetPassword` peeks at
the link, hashes and writes the password, saves, and only then consumes the link,
going on whatever `Consume` answers. So the promise of `ResetLinks` is one about
`Consume` (once, and within the lifetime), and not that a link sets one password
only: submitted twice at once it sets two, and one that expires while a password is
being hashed still sets it. Whose password that is, and that the link is spent
afterwards, are properties of `Accounts` (`PasswordsAccountedFor`,
`LinkSpentWhenDone`, `LinkBurnedOnlyWhenDurable`).

### OidcFlow

    auth, session cookie   -> lookup -> sign -> create -> ok        (code)
                           -> lookup -> sign -> ok                  (id_token)
    auth, login form       -> session -> validate -> sign -> ...
    token                  -> [Pop] answer -> ok
    userinfo               -> [IsRevoked] verify -> ok
    revoke                 -> [Revoke] ok

A request with a session cookie is validated before the session is read, one with
the login form after its session is created: the order of the code. `lookup` is
the second half of `getUserFromSession`, the copy of the user record; what happens
to the user after it is not seen by `sign`. `Sign` fills in `token[r]`, the claims
of the token that request `r` signed. `token` is no table of the server but what
is in circulation, so a crash leaves it alone; whether the restarted provider
accepts it depends on the signing key (`KeyKept`), on the token's age and on the
revocation list, which starts empty. A crash between `Redeem` and `Answer` loses a
code that was already popped, and the client may retry.

Forms are records from `AuthForms`, `TokenForms` and `RevokeForms`, judged by
`Provider`, whose `ValidateRedirect`, `ValidateAuthenticationRequest`,
`ValidateTokenRequest` and `ValidateRevocationRequest` give the code's verdicts in
the code's order. There is no PKCE, no refresh token and no
binding of a code to the client that redeems it in this provider, so there is none
in the model. `Administer` deletes a user or changes groups at any moment;
`CleanUp` runs the public clean-ups of both stores if `CallsCleanUp`. `main` never
does, so the server is the case `FALSE`; the run has `TRUE`, which allows more
behaviours, and the proofs cover both. History is `outdated`
(when the database first disagreed with the claims), `revokedIn` (in which life
of the process a revocation was answered) and `tardy` (the userinfo requests that
came in after the revocation of their token was answered).

### Startup

    down -> validate -> key [-> truncate -> write] -> open -> load -> apply -> serving

`cfg` is the configuration that the running process was started with. Any
configuration of `Configs` may be tried at any start, and all of them share the
key files and the user file. `Refuse*` are the `os.Exit(1)` of `main` for a reason
that the code gives; `Die` is the death of the process, or a system call that
fails, in any phase. `os.WriteFile` creates or truncates the key file and then
writes it, so a death in between leaves it `Torn`. `last`, a history variable, is
the configuration that served last. `Config` decides which handlers exist: a
route that `newMux` does not register offers nothing to `Register`, `Delete` and
`SetPassword`.

### Bounds and assumptions

`MaxCrashes`, `MaxNow` and `TTL` bound the crashes, the clock and the validity
of links; every request is sent at most once. The proofs hold for every value of
them. `ConfigAssumption` is what `config.Validate` enforces and when `user.New` applies
seed passwords, `JSONAssumption` what JSON does to strings, `NameAssumption`
says which names are distinct, and `DatabaseAssumption` what the server may have
been started with: users that pass `validateUsers`. `SlotAssumption` says that the
marks of a token that is not in a map differ from every entry of that map.
`FlowAssumption`, `FlowNames`, `FlowDatabases`, `FlowEntries`, `FlowClaims` and
`StartAssumption` say the same kind of things of `OidcFlow` and `Startup`; their
bounds are `MaxNow`, `MaxCrashes`, `MaxAuths` (how many requests may be
authentications) and `MaxFaults` (deaths and failing system calls together).

Operators marked "wrong on purpose" are never used by the specifications. Each
stands before the definition it distorts, and replacing that definition by it
makes the run named in `PROJECT.json` (`mutants`) fail; this is how each checked
property is known to depend on the code.

## Runs

Every run is exhaustive. `Kinds` selects the forms of an instance, `Databases`
what it starts with. Deadlock is not checked: requests are finite in number, so
an instance stops when all are answered (`EveryRequestAnswered` is the property
that matters). Symmetry under permutation of the requests (or tokens) is used in
the runs without liveness only.

| Run | Instance | Checks |
|---|---|---|
| `all_handlers` | 2 requests of all 11 forms, start databases with nobody (bootstrap window open), or an admin and a locked user; a name that JSON garbles; 1 crash, 1 tick, under fairness | `TypeOK`, `OnlyGarbledNamesClash`, `SavesNest`, `BootstrapAdmitsOne`, `FreshDeploymentManageable`, `EveryRequestAnswered` |
| `operations` | 3 requests of all forms but `reglocked`; an admin with a configured password and a user, or nobody; 1 crash | `AckedDeleteIsFinal`, `DeletesStick`, `EmailsUnique`, `ChangesAreAuthorized`, `AckedDurable`, `OldPasswordRetired`, `StaleSessionsExplained`, `LastAdminFallsToStaleCaller`, `ImplementsDurableLog` |
| `link_flow` | 4 requests: link, set password, login, delete; an admin and a user, locked or not; 1 crash, 1 tick | `PasswordsAccountedFor`, `LinkSpentWhenDone`, `StaleSessionsExplained`, `LinkBurnedOnlyWhenDurable` |
| `memory_only` | 3 requests, no user file, 1 crash | `StaleSessionsExplained` |
| `save_users` | 3 saves under fairness, 2 crashes | `FileWhole`, `IInv`, `ImplementsDurableLog`, `ServerComesBack`, `EverySaveReturns` |
| `token_store` | 4 tokens, 2 users, 3 ticks | `MapsAgree`, `ImplementsResetLinks` |
| `oidc_flow` | 3 requests, at most 2 of them authentications, 2 clients, 1 user, 2 ticks, 1 crash | `TypeOK`, `RevocationHolds`, `RevokedMeansRefused`, `ImplementsOneTimeCodes`, `OutdatedClaimsFade` |
| `startup` | 7 configurations, 2 key paths, 3 keys, 2 user ids, 3 faults, under fairness | `TypeOK`, `SignsWithTheKeyOnFile`, `KeysAreKept`, `NeverReseeded`, `ServesTheFile`, `StaticNeverWrites`, `ComesUpAgain`, `ServesAgain` |
| `two_admins_lost`, `login_overtaken`, `names_garbled`, `reset_undone` | 2 requests | the findings below |

Why these are enough: the races of this code are between two handlers, or two
and a third that saves or reads what they left, so three requests in flight show
each of them; a link takes one request more, since it has to be minted first. Rights
have a history in `operations`: the user may have a session from the start, so three
requests are enough for it to be made an admin, to act as one, and for the grant to
be revoked while it does; to act on a grant whose save failed; or to make a link that
is then used.
One crash reaches every state that a crash can leave, as a restart begins from
the file alone; the second crash in `save_users` hits the server that came back
with a leftover temporary file. Three names and two emails let
registrations collide with each other, with an account, or not; `all_handlers` and
`names_garbled` have a fourth name, `broken`, of which JSON makes `fresh`. `TTL = 0` with one tick is a link that is
valid, or has expired, at every point of its handler.

In `oidc_flow` three requests are what a flow takes: one that authorizes, one that
redeems or revokes, one that races or uses the result; two authorizations and an
exchange show a code that is cleaned up by the next `Create`. The lifetimes are
1, 1 and 2 ticks, so that within two ticks a code can expire, a token can expire,
and a revocation can be cleaned up. Revocations last longer than tokens there,
as `RevocationsHold` needs of a program that cleans up. In the code both lifetimes come to 24 hours
(`defaultIDTokenTTL`, and the default of the token store's configuration), and a
token is revoked after it was issued; what equal lifetimes leave open is a token
revoked within the second it was issued in, at the last second of its life, and
only in a program that calls the clean-up. `KeyKept` is `{TRUE}`: a
restart with a new key rejects all old tokens, so every interesting case is with
the old one. In `startup` the seven
configurations cover a key path or none, generation allowed or not, seeding,
static and memory-only databases, seed passwords to update, and configurations
that `Validate` refuses; three faults let a start die, its successor die on what
it left, and a third one too. One of its three user names is garbled by JSON; one
password hash, next to the empty and the locked one, is enough to tell whether a
password is the configured one.

**Fairness.** `FairSpec` of `Accounts` is weak fairness of each request's
handler once it has been entered: goroutines are scheduled, and system calls
return with a result or an error. Nothing is assumed of clients (no fairness of
first steps), of the clock or of crashes. Waiting for `saveMu` is the only
blocking in the model, and whoever holds it is fair itself; in an instance of n
requests it can be taken by others only n - 1 times, so weak fairness is enough.
`FairSpec` of `UserFile` adds that a dead server is restarted, as a supervisor
does. `FairSpec` of `Startup` is weak fairness of `Main`, since a start is one
goroutine that runs on, and strong fairness of a start with the configuration that
served last: whoever runs the server may try others and see them refused, but
comes back to the one that worked. Nothing is assumed of the requests it serves.

## Findings

Three comments and a line of the README promise more than the code keeps. Each is a
run in which TLC finds the counterexample; where a weaker property holds, it is
named.

1. `two_admins_lost`. `pkg/user/admin.go:133`: the guards keep "at least one
   admin: the caller is still one after every operation". `getAndVerifyAdmin`
   reads the caller before the write lock is taken, and the write does not look
   again: two admins who delete or demote each other at once both succeed.
   *What holds*: `LastAdminFallsToStaleCaller` (proved).
2. `login_overtaken`. `internal/session/session.go:71`: `DeleteUserSessions` is
   "used to log a user out of all devices after their password changes or is
   reset". A login that verified the old password before the reset creates its
   session after the sign-out and keeps it. *What holds*:
   `StaleSessionsExplained` (proved): such a session comes of a sign-in that
   was in flight at the sign-out, or of a handler that has not signed the user
   out yet or failed to save.
3. `names_garbled`. `README.md:56`: "accounts added or edited via the admin panel
   survive restarts and upgrades". `Register` compares the bytes of user names, and
   `json.Marshal` (`pkg/user/user.go:424`) writes every byte that is not UTF-8 as
   U+FFFD. Two names that differ only in such a byte are both accepted, both
   answered with success, and the same in the file; `validateUsers` refuses it at
   every later start. *What holds*: `OnlyGarbledNamesClash` (proved): no other two
   names in memory, a save or the file are ever the same. `ComesUpAgain`, too, holds
   but for this.
4. `reset_undone`. `internal/routes/admin.go:300`: the sessions are deleted "so an
   admin reset actually locks out a compromised/departed user". `ChangePassword`
   verifies the old password, hashes the new one and overwrites the record without
   looking again: in flight at the reset, it puts a password of the old one's
   holder in force after the reset was answered. *What holds*:
   `OldPasswordRetired` (proved): the password before the reset does not come back
   itself, and the one that replaces it comes of a request.

One more disagreement needs no run: `README.md:47` has `redirectUris` "alongside (or
instead of) the singular `redirectUri`", and `config.Validate` (`main.go:122`) refuses
every client without a `redirectUri`.

## Proofs

TLAPS checks these for every value of the constants that satisfies the
assumptions of `Accounts`, `UserFile`, `ResetTokens`, `OidcFlow` and `Startup`:
37 theorems in eight modules. Further hypotheses are in the theorems themselves and
named here.

**UserFileProofs.** `IInv` = types, `FileWhole`, `SaverOwnsTmp` (one process
holds `saveMu` from lock to return, so the temporary file is its own) and
`SavesGrow` (what it marshalled contains the file and its own change). `FileWhole`
alone is not inductive: a rename publishes the temporary file, so one has to know
that nobody else wrote to it. With `IInv`, `Edit` maps to `Apply`, `Rename` to
`Ack`, `Crash` to `Lose` of `DurableLog` and everything else stutters.

**ResetTokensProofs.** `MapsAgree` with the types is inductive; without it a
removal could leave a dangling entry. The refinement to `ResetLinks` also needs
that consumed and dropped tokens are never minted again.

**AccountsProofs.** `TypeOK`, which is inductive as it stands because it says of
each request that it is at a place its form has (`Sections`) and that from the
write on it has a target. Generic lemmas (`PutRequest`, `GoRequest`) carry the
requests; one lemma per table follows. The second half is about the file: `SavesNest` is the strengthening for the file: at the
rename a request holds `saveMu`, `file.log` is contained in what it marshalled and
that in `applied`, and whoever is past its save is in the file.
It yields `AckedDurable`, `FileNeverRegresses`, and that all handlers together
implement `DurableLog`: `Write` is `Apply`, `SaveCommit` is `Ack` for forms that
end with the save and `Persist` for the others, whose last step is their `Ack`.
The refinement assumes `Persistent`: in memory-only mode a success page promises
nothing.

**AccountsUserProofs.** The proofs of this module and the next two speak of every
*version* of the database at once: memory, the copies being saved, the file, each
with the writes that are in it. `VersionsStep` and `WriteVersions` say where the
versions after a step come from. A `Write` makes one new version, the one in memory.
Every other step leaves only versions that have become of one from before (`Becomes`),
or the empty one: with the same writes, the same users and groups, names and
addresses kept or garbled, and passwords kept or, after a restart, set from the
configuration (`Recast`). So an invariant of versions is proved by two lemmas, one
for `Becomes` and one for `Write`. `OnlyGarbledNamesClash` is of this kind: `register`
checks the name under the lock, what JSON leaves alone stays apart, and what it does
not is garbled. For deletions
`DeletesStick` pairs every version of the database with the writes that are in
it: a version with a deletion lacks the user, and only a registration, which a
deleted user's request has behind it, could make the record again. From it follow
`AckedDeleteIsFinal` and, with the guards against deleting or demoting oneself,
`LastAdminFallsToStaleCaller`.

**AccountsRulesProofs.** The rules that users would notice, each with a
strengthening that speaks of every version of the database.
- `EmailsUnique` (`OneEmailEach`: in every version; of the seed's own users and of
  garbled addresses it says nothing, as `validateUsers` does not check emails) and `BootstrapAdmitsOne` (`OneSelfMade`: in no version are there two accounts that
  came through the bootstrap form).
- `FreshDeploymentManageable` (`AllManaged`; assumes that each start database is
  empty or has an admin).
- `OldPasswordRetired` (`PasswordsStick`): a version that contains a password
  change of a user has a password that one of the changes in it set, or the
  configured one that a restart has set since, or has lost the user, whom nothing can
  register again.
- `LinkSpentWhenDone` and `LinkBurnedOnlyWhenDurable` (`LinksHold`: the two maps
  agree inside `Accounts` too, a link was minted before anybody submits it, and
  whoever is past `consume` has spent it).
- `StaleSessionsExplained` (`SessionsHold`): every session and every sign-in in
  flight carries the password it was proved with; where that is no longer the one
  in force, some request has yet to sign the user out, has failed to save, or has
  signed them out and left its mark in `overtaken`. The weight is in relating a
  sign-in to *all* sign-outs that run beside it.

**AccountsRightsProofs.** Who is behind what a version contains.
- `ChangesAreAuthorized`. A caller's rights are read by `WhoAmI` and `VerifyCaller`
  and used at the write, with other requests, failing saves and crashes in between;
  so "an admin made the change" is not what holds (see finding 1). What does hold
  is that the *reason* for the rights is in the same version: `Rightful` says that
  the user is of the seed, was made an admin by a request whose write is in the
  version, or was the first to register in it. `Lawful` asks this of the admins of
  a version and of the admins behind its changes. It is inductive together with
  `Vouched`, which asks it, of memory, for each request on its way from a check to a
  write or a link, and for the minter of each link that works or has been submitted.
  `RightsKept` is the step that matters: reasons grow with writes and are never
  lost while the process lives; a crash, which can lose them, takes the requests and
  the links that rest on them along. A file that has a change has everything that
  was in memory when the change was made, so it has the reason too.
- `PasswordsAccountedFor` (`AllAccountedFor`): a hash comes to the record of the
  user it was made for, over `WriteForms` (what each write does to `users`) and the
  part of `Vouched` that ties a submitted link to the user it was minted for.
- `NobodyIsStuck` (`Held`, with `SessionsHold` and `LinksHold`) and
  `HandlersAdvance`: nothing a handler waits for is taken for good, and each of its
  steps takes it to a later `Stage`. These are what `EveryRequestAnswered` rests on;
  that a handler not at its end has a step to take and is scheduled is about
  `ENABLED` and fairness and stays with TLC.

Three theorems state properties that no run lists because a stronger one of the same
run implies them or rests on them: `FileNeverRegresses` (`ImplementsDurableLog`),
`NobodyIsStuck` and `HandlersAdvance` (`EveryRequestAnswered`).

**OidcFlowProofs.** `TypeOK`, then three facts about the history:
`SignedOnce` (a token is signed once, never in the future), `OutdatedAfter` (a token
is outdated when it is signed or later, or was read before) and
`RevokedAfter` (an entry of the revocation list is no older than its token). Under
`LongRemembered` (`CallsCleanUp => RevokedTTL > IDTokenTTL`, which holds of `main`
whatever its configuration) they give `RevocationHolds`: by the time the clean-up
drops an entry, its token has expired. `RevokedMeansRefused` follows with
`TardyFail`: of the requests that came in after the revocation, those that the list
let pass are about an expired token, which the second check refuses.
`OutdatedClaimsFade` also needs that a token says what its request has read, and the
database the same until the token is outdated (`SaysWhatWasRead`), that whoever was
answered with a code or a token has read the user (`AnsweredCopied`), and that
what others redeem and present was handed out in such an answer (`OthersPresent`). `TakenIsGone` (a
code that a request took is never stored again) is the invariant under which
every step maps to a step of `OneTimeCodes`: `CreateCode` is `Issue`, `Redeem` is
`Take`, the clean-up is `Lapse`, `Tick` is `Advance` and `Crash` is `Reset`.

**StartupProofs.** `SInv` = types, `KeyOK` (what the key and the keychain are in
each phase) and `UsersOK` (memory and file agree once loaded, and the file is
loadable but for two garbled names). `ComesUpAgain` needs more, because it speaks of a later start:
`PInv` adds `Proven`, what the configuration that served last has left
behind, namely a valid configuration, a key at its path, a user file that loads
and a seed without doubles, and that no start with any other configuration takes
that away, but for the default key file, which every start without a path
overwrites, and tears if it dies in the middle. `ComesUpAgain` is about the
configuration that served last, and says nothing of those that served before it.

**Only model-checked**: the four liveness properties `EveryRequestAnswered`,
`ServerComesBack`, `EverySaveReturns` and `ServesAgain`, as fairness and `ENABLED`
are out of the prover's reach. Every invariant, action property and refinement
of the passing runs is proved.

## What is not modelled

- `GET` pages, templates, flash messages, redirects, error pages, the JSON user
  list: they change no state.
- CSRF tokens are a stateless MAC over the session id; a request without a valid
  one takes `Reject`.
- Password hashing and the length rule; the encoding of the user file and of the
  configuration file, but for what it does to names and email addresses (`InFile`).
  Groups are not garbled: all that they are compared with is `userAdminGroup`, which
  is taken to have no U+FFFD in it, so that no other group can become it.
- `UserFile` is about the file being whole; what `validateUsers` says of its
  contents is the subject of `Accounts` and `Startup`. `OidcFlow` takes the names of
  its users as they are in the file.
- `LoadConfig`'s trimming of the base URL and its default for the token section (a
  lifetime, which is a constant of `OidcFlow`), and the refusal of a key file whose
  key is not one for RS256 (`jose.NewSigner`).
- Spellings of a token: clients present a token as they were given it. `IsRevoked`
  compares the string it is sent with the one that was revoked, and the decoder
  behind `userinfo` may accept other spellings of the same token.
- The discovery document, the JWKS answer and the encoding and signature of a
  token: a token is its claims and the key it was signed with.
- What `url.Parse` and `path.Clean` compute, and how `ServeMux` matches a path: a
  base URL stands for its verdict, a route for its name.
- Logging, headers and the HTTP server itself.
- Power failures, and edits of the file by hand while the server runs.

## Plan

1. *Done*: `UserStore`, `SessionStore`, `ResetTokens`/`ResetLinks`,
   `UserFile`/`DurableLog`, `Accounts`, their runs and proofs.
2. *Done*: `CodeStore`/`OneTimeCodes`, `TokenStore`, `Provider`, `OidcFlow`;
   `Config`, `Keychain`, `Startup`; their runs and proofs; the safety properties of
   `Accounts` that were only checked before.
3. *Done*: who is behind the changes and the passwords (`ChangesAreAuthorized`,
   `PasswordsAccountedFor`), revocations as a userinfo request sees them
   (`RevokedMeansRefused`), and the safety half of "every request is answered".
4. *Done*: what JSON does to names, seed passwords at a restart, and the two findings
   that came of them and of a password change that outlives a reset.
5. `Accounts` and `OidcFlow` composed: a sign-out or a password reset leaves codes
   and tokens of the old session alive, and for how long.
6. One hazard has no property: clients with the same id, of which the first one
   wins.
7. Larger instances: two users in `oidc_flow`, a second crash in `all_handlers`.
