--------------------------- MODULE AccountsSafety ----------------------------
(***************************************************************************)
(* What the account life cycle promises, and the promises of its comments  *)
(* and documents that the code does not keep.                              *)
(***************************************************************************)
EXTENDS Accounts, FiniteSets

\* The critical sections the handler of each form can be about to enter.
Sections(kind) ==
  CASE kind = "login" -> {"session"}
    [] kind = "register" -> {"write", "save", "rename", "session"}
    [] kind = "change" -> {"whoami", "check", "write", "save", "rename", "purge", "session"}
    [] kind = "setpw" -> {"look", "write", "save", "rename", "consume", "purge"}
    [] kind = "areset" -> {"whoami", "verify", "look", "write", "save", "rename", "purge"}
    [] kind \in {"adelete", "agroups", "aregister"} ->
         {"whoami", "verify", "write", "save", "rename"}
    [] kind = "reglocked" -> {"whoami", "verify", "write", "save", "rename", "mint"}
    [] kind = "alink" -> {"whoami", "look", "mint"}
    [] OTHER -> {"idle"}

Places == {"idle", "whoami", "verify", "check", "look", "write", "save", "rename",
           "consume", "purge", "session", "mint"} \cup Ended

Request == [pc     : Places,
            kind   : {"none", "login", "logout", "register", "change", "setpw"} \cup AdminKinds,
            actor  : Id \cup {NoUser},
            target : Id \cup {NoUser},
            token  : Req \cup {NoToken}]

\* Where a handler has a target user already.
Aimed == {"look", "write", "save", "rename", "consume", "purge", "session", "mint"}

WellFormed(q) ==
  /\ q.pc \in Sections(q.kind) \cup Ended
  /\ q.pc \in Aimed => q.target \in Id
  /\ q.kind = "setpw" => q.token \in Req

RequestsOK == req \in [Req -> Request] /\ \A r \in Req : WellFormed(req[r])

TablesOK == Sessions!TypeOK /\ Links!TypeOK

DiskOK ==
  /\ saveMu \in Req \cup {NoReq}
  /\ snap \in [Req -> Snapshot]
  /\ file \in Snapshot

HistoryOK ==
  /\ cred \in [Id -> Id \cup {Locked, Preset}]
  /\ applied \subseteq Req /\ overtaken \subseteq Req

\* Types, and that no handler strays into a critical section that its route
\* does not have (an admin's reset never logs anyone in, say).
TypeOK ==
  /\ users \in Users!Database
  /\ TablesOK /\ RequestsOK /\ DiskOK /\ HistoryOK
  /\ crashes \in Nat

(***************************************************************************)
(* The database.                                                           *)
(***************************************************************************)

\* loadUsersFromFile refuses a database with a user name twice, and the server
\* then never starts again.  No interleaving of registrations, deletions, saves
\* and restarts puts a name twice into memory, a marshalled copy or the file, but
\* for a name that json.Marshal has garbled: two that differ in memory can become
\* this one (RestartAlwaysLoads).
OnlyGarbledNamesClash ==
  \A db \in {users, file.db} \cup {snap[r].db : r \in Req} :
    \A u, v \in Users!Present(db) :
      db[u].name = db[v].name => u = v \/ db[u].name \in Users!Garbled

\* An account that was registered never shares an email address with another
\* one, in memory and in the file, although several handlers call register at once
\* and hash passwords outside the lock.  (Of the users of a seed, or of a file,
\* validateUsers does not demand it, and garbled addresses can become one.)
EmailsUnique ==
  \A db \in {users, file.db} : \A u, v \in Users!Present(db) :
    db[u].email = db[v].email /\ db[u].email # NoEmail =>
      u = v \/ {u, v} \subseteq Seed \/ db[u].email \in Users!Garbled

\* While only the bootstrap window is open, a burst of registrations leaves at
\* most one account made through the public form, in memory and in the file.
BootstrapAdmitsOne ==
  ~SelfRegistration =>
    \A db \in {users, file.db} :
      Cardinality({r \in Users!Present(db) \cap Req : req[r].kind = "register"}) <= 1

\* "The first user becomes an admin, so a fresh deployment is manageable"
\* (user.go:266): whatever saves failed and whenever the process died, a
\* database that filled up from empty and saw no demotion or deletion has an
\* admin, in memory and on disk.
FreshDeploymentManageable ==
  UserAdminGroup # NoGroup /\ Persistent =>
    \A v \in {[db |-> users, log |-> applied], file} :
      /\ Users!Present(v.db) # {}
      /\ \A r \in v.log : req[r].kind \notin {"adelete", "agroups"}
      => Users!Admins(v.db) # {}

\* The last admin is only ever lost to a deletion or demotion made by a caller
\* who was no admin any more when the write took the lock (or to a crash).
LastAdminFallsToStaleCaller ==
  [][Users!Admins(users) # {} /\ Users!Admins(users') = {} =>
       \/ crashes' # crashes
       \/ \E r \in Req :
            /\ At(r, "write") /\ req'[r].pc = "save"
            /\ req[r].kind \in {"adelete", "agroups"}
            /\ req[r].actor \notin Users!Admins(users)]_vars

(***************************************************************************)
(* The file.                                                               *)
(***************************************************************************)
Acked(r) == At(r, "ok") /\ req[r].kind \in Mutating

\* A success page is only sent for a change that is in the user file, and a
\* later save or a crash never takes it out again.
AckedDurable == Persistent => \A r \in Req : Acked(r) => r \in file.log

\* Saves by different requests never put an older database back.
FileNeverRegresses == [][file.log \subseteq file'.log]_vars

\* Before a handler has written to the database, and after its save.
Before == {"idle", "whoami", "verify", "check", "look", "write"}
After == {"consume", "purge", "session", "mint", "ok"}

SaveInOrder(r) ==
  /\ At(r, "save") => r \in applied
  /\ At(r, "rename") =>
       /\ Persistent /\ saveMu = r
       /\ r \in snap[r].log
       /\ file.log \subseteq snap[r].log /\ snap[r].log \subseteq applied
  /\ Persistent /\ req[r].kind \in Mutating /\ req[r].pc \in After => r \in file.log

\* What makes a save safe, an inductive invariant: only the holder of saveMu is
\* at the rename, the file is older than what it has marshalled and that no
\* newer than memory, its own change is in all it is about to persist, and no
\* handler gets past its save before its change is in the file.
SavesNest ==
  /\ Persistent => file.log \subseteq applied
  /\ \A r \in applied : req[r].pc \notin Before
  /\ \A r \in Req : SaveInOrder(r)

\* Handlers, SaveUsers and restarts together keep the promise of DurableLog.
Durable == INSTANCE DurableLog WITH
  Entry <- Req, mem <- applied, disk <- file.log,
  acked <- {r \in Req : Acked(r)}

ImplementsDurableLog == Durable!DSpec

\* The databases around, each with the requests whose writes are in it.
Versions == {[db |-> users, log |-> applied], file} \cup {snap[r] : r \in Req}

\* A record made by a registration is only in versions that have the
\* registration, and a version that has a deletion lacks the user.
Consistent(v) ==
  /\ Users!Present(v.db) \cap Req \subseteq v.log
  /\ \A r \in v.log :
       /\ req[r].pc \notin Before
       /\ req[r].kind = "adelete" => req[r].target \notin Users!Present(v.db)

\* Nobody is about to delete its own account, and who is deleted has done its
\* one registration.
NeverBack(r) ==
  req[r].kind = "adelete" /\ req[r].target # NoUser =>
    /\ req[r].target # req[r].actor
    /\ req[r].target \in Req => req[req[r].target].pc \notin Before
    /\ ~Persistent /\ At(r, "ok") => req[r].target \notin Users!Present(users)

\* Why a deletion is final, an inductive invariant: no version of the database
\* can bring a user back whose deletion it has, and nothing writes the user
\* again.
DeletesStick ==
  /\ \A v \in Versions : Consistent(v)
  /\ \A r \in Req : NeverBack(r)
  /\ ~Persistent => file = NoSnapshot

\* A user whose deletion was answered with success is gone from the file as
\* well and stays gone, whatever was in flight for it and through restarts.
AckedDeleteIsFinal ==
  \A r \in Req : Acked(r) /\ req[r].kind = "adelete" =>
    /\ req[r].target \notin Users!Present(users)
    /\ req[r].target \notin Users!Present(file.db)

\* The password of a seed user that a restart has set: "a password changed in the
\* IdP lasts until the next start" with updateSeedPasswords (README.md:63).
SetByStart(info) == info.pw = Preset /\ info.name \in PresetNames

\* Once a password change or reset was answered with success, the password in
\* force, in memory and in the file, is one such a request has set, or one that a
\* restart has set from the configuration: neither a crash nor a save in flight
\* brings back the one before.
OldPasswordRetired ==
  \A r \in Req : Acked(r) /\ req[r].kind \in PasswordKinds =>
    \A db \in {users, file.db} : LET u == req[r].target IN
      u \in Users!Present(db) =>
        \/ crashes > 0 /\ SetByStart(db[u])
        \/ \E q \in Req : /\ db[u].pw = q
                          /\ req[q].kind \in PasswordKinds /\ req[q].target = u

(***************************************************************************)
(* Who is behind a change.                                                 *)
(***************************************************************************)
StartAdmins == {u \in Seed : \E db \in Databases : u \in Users!Admins(db)}

Granted(v, u) == \E g \in v.log : req[g].kind = "agroups" /\ req[g].target = u

\* The account of a registration through the public form that no admin touched.
SelfMadeOnly(v, u) == u \in v.log /\ req[u].kind = "register" /\ ~Granted(v, u)

\* What can have made u an admin, by what version v of the database says: the
\* seed, an admin, or being the first to register when nobody was there.
Rightful(v, u) ==
  \/ u \in StartAdmins \/ Granted(v, u)
  \/ u \in v.log /\ req[u].kind \in {"aregister", "reglocked"}
  \/ SelfMadeOnly(v, u) /\ Users!Present(v.db) \cap Seed = {}

\* A reset link is made by an admin, for one user.
MadeFor(t, u) == req[t].kind \in {"alink", "reglocked"} /\ req[t].target = u

Authorized(v, p) ==
  /\ req[p].kind \in AdminKinds => Rightful(v, req[p].actor)
  /\ req[p].kind = "setpw" =>
       MadeFor(req[p].token, req[p].target) /\ Rightful(v, req[req[p].token].actor)

\* The caller's rights are read before the lock is taken (admin.go:71), the
\* links are in memory only, and saves fail.  For all that every version of the
\* database accounts for itself: its admins, and the admins behind its changes
\* and behind the links used for them, were made by what the same version
\* contains, never by a grant that it has lost.  Two admins never both owe their
\* rights to having registered first.
ChangesAreAuthorized ==
  \A v \in Versions :
    /\ \A u \in Users!Admins(v.db) : Rightful(v, u)
    /\ \A p \in v.log : Authorized(v, p)
    /\ \A u, w \in Users!Admins(v.db) : SelfMadeOnly(v, u) /\ SelfMadeOnly(v, w) => u = w

\* Every password of every version is the user's first one, or the one configured
\* for its name, or one that the user has set with the old one at hand, or an
\* admin's reset, or one set through a link that was made for this very user: no
\* password ever lands on another account, whatever is in flight while it is
\* hashed.
PasswordsAccountedFor ==
  \A v \in Versions : \A u \in Users!Present(v.db) :
    LET pw == v.db[u].pw IN
      \/ pw = u \/ SetByStart(v.db[u])
      \/ pw = Locked /\ (u \in Seed \/ req[u].kind = "reglocked")
      \/ \E p \in v.log :
           /\ pw = p /\ req[p].kind \in PasswordKinds /\ req[p].target = u
           /\ req[p].kind = "change" => req[p].actor = u
           /\ req[p].kind = "setpw" => MadeFor(req[p].token, u)

(***************************************************************************)
(* Sessions and reset links.                                               *)
(***************************************************************************)

\* Password writes to u whose handler has not signed u out yet, or never will.
Unpurged(u) ==
  {r \in Req : /\ req[r].kind \in PasswordKinds /\ req[r].target = u
               /\ req[r].pc \in {"save", "rename", "consume", "purge", "error"}}

\* A session proved with a password that is no longer in force exists only
\* while the handler that replaced the password still has to sign the user out
\* (or failed to save), or because it comes of a login or a password change
\* that was in flight at the sign-out.
StaleSessionsExplained ==
  \A s \in Id : LET u == sessions[s] IN
    Sessions!Live(s) /\ u \in Users!Present(users) /\ cred[s] # users[u].pw =>
      Unpurged(u) # {} \/ s \in overtaken

\* When SetPassword has answered with success its link is spent.
LinkSpentWhenDone ==
  \A r \in Req : At(r, "ok") /\ req[r].kind = "setpw" => ~Links!Known(req[r].token)

\* "If persisting the new password fails the link remains usable"
\* (password.go:205): a link dies of age, of a crash, by a newer link for its
\* user, or by a request whose new password is in the file.
LinkBurnedOnlyWhenDurable ==
  [][\A t \in Req : Links!Known(t) /\ byToken'[t] \in {Gone, Consumed} =>
       \/ Links!Expired(t) \/ crashes' # crashes
       \/ \E r \in Req : At(r, "mint") /\ req[r].target = byToken[t].user
       \/ \E r \in Req : /\ At(r, "consume") /\ req[r].token = t
                         /\ Persistent => r \in file.log]_vars

\* Where a handler is on its way: every step takes it further.
Stage(pc) ==
  CASE pc = "idle" -> 0
    [] pc = "whoami" -> 1
    [] pc \in {"verify", "check"} -> 2
    [] pc = "look" -> 3
    [] pc = "write" -> 4
    [] pc = "save" -> 5
    [] pc = "rename" -> 6
    [] pc \in {"consume", "mint"} -> 7
    [] pc = "purge" -> 8
    [] pc = "session" -> 9
    [] OTHER -> 10

\* No handler retries or goes round: each is done after ten steps at most, and
\* what it has answered is final.
HandlersAdvance ==
  [][\A r \in Req : req'[r] # req[r] => Stage(req[r].pc) < Stage(req'[r].pc)]_vars

\* No handler is ever stuck: saveMu is free or held by a request that is about to
\* give it back, however saves fail and the process dies; and the session and the
\* link that a request is about to make do not exist yet.
NobodyIsStuck ==
  /\ saveMu # NoReq => At(saveMu, "rename")
  /\ \A r \in Req : /\ At(r, "session") => sessions[r] = Unborn
                    /\ At(r, "mint") => byToken[r] = Unborn

\* No handler waits for ever, for saveMu or for anything else.
EveryRequestAnswered == \A r \in Req : InFlight(r) ~> ~InFlight(r)

(***************************************************************************)
(* What comments say, and interleavings of the code refute.                *)
(***************************************************************************)

\* admin.go:133: the guards of AdminDelete and AdminUpdateUserGroups keep "at
\* least one admin: the caller is still one after every operation".
KeepsAnAdmin == [][Users!Admins(users) # {} => Users!Admins(users') # {}]_vars

\* README.md:56: "accounts added or edited via the admin panel survive restarts":
\* the file is one that loadUsersFromFile accepts.
RestartAlwaysLoads == Users!ValidUsers(file.db)

\* admin.go:300: the sessions are deleted "so an admin reset actually locks out a
\* compromised/departed user": who does not know the password that an answered
\* reset has set does not replace it with one of their own.
ResetLocksOut ==
  [][\A r, q \in Req :
       /\ Acked(r) /\ req[r].kind = "areset"
       /\ At(q, "write") /\ req[q].kind = "change" /\ req'[q].pc = "save"
       /\ users[req[q].target].pw = r
       => cred[q] = r]_vars

\* session.go:71: DeleteUserSessions logs a user "out of all devices after
\* their password changes or is reset", so once the handler is done no session
\* proved with an older password is left.
NoStaleSession ==
  \A s \in Id : LET u == sessions[s] IN
    Sessions!Live(s) /\ u \in Users!Present(users) /\ Unpurged(u) = {} =>
      cred[s] = users[u].pw
=============================================================================
