------------------------------ MODULE Accounts -------------------------------
(***************************************************************************)
(* The account life cycle of the identity provider: HTTP handlers of       *)
(* internal/routes that run concurrently against the user database         *)
(* (UserStore), the session table (SessionStore), the password-reset       *)
(* links (ResetTokens) and the user file on disk.                          *)
(*                                                                         *)
(* A request is a process.  Its pc names the next critical section its     *)
(* handler enters, so any other request may run between two of them, as    *)
(* in the code.  Whatever a request mints (a user id, a session id, a      *)
(* password hash, a reset token) is named after the request; a seed user's *)
(* password and the session it may already have are named after the user.  *)
(***************************************************************************)
EXTENDS Naturals

CONSTANTS
  Req,             \* HTTP requests, each sent at most once
  Seed,            \* users that can be in the database at start
  Name, Email, NoEmail, InFile, Group, UserAdminGroup, NoGroup, Locked,
  PresetNames,     \* the users whose password the configuration sets at every start
  Preset,          \* the hash configured for such a user
  FormGroups,      \* group lists an admin can submit
  NoUser, NoToken, NoReq, Unborn, Gone, Consumed,
  SelfRegistration, AllowBootstrap, Static, Persistent,
  Databases,       \* databases the server can have been started with
  Kinds,           \* the forms clients submit in this instance
  TTL, MaxNow,     \* reset links: validity, and the bound of the clock
  MaxCrashes       \* bound: how often the process dies

Id == Req \cup Seed

\* What Config.Validate makes sure of before the server starts, and when New
\* applies seed passwords.
ASSUME ConfigAssumption ==
  /\ {SelfRegistration, AllowBootstrap, Static, Persistent} \subseteq BOOLEAN
  /\ AllowBootstrap => ~Static /\ Persistent
  /\ PresetNames # {} => ~Static /\ Persistent

ASSUME BoundAssumption == {TTL, MaxNow, MaxCrashes} \subseteq Nat

ASSUME NameAssumption ==
  /\ Req \cap Seed = {}
  /\ {NoUser, NoToken, NoReq, Unborn, Gone, Consumed, Locked, Preset} \cap Id = {}
  /\ Preset # Locked
  /\ NoEmail \notin Email /\ NoGroup \notin Group
  /\ UserAdminGroup \in Group \cup {NoGroup}
  /\ FormGroups \subseteq SUBSET Group

\* What JSON leaves of a string is the same when it is written again; the empty
\* string and the configuration, which was read from JSON, are left alone.
ASSUME JSONAssumption ==
  /\ DOMAIN InFile = Name \cup Email \cup {NoEmail}
  /\ \A n \in Name : InFile[n] \in Name
  /\ \A e \in Email : InFile[e] \in Email
  /\ InFile[NoEmail] = NoEmail
  /\ \A s \in DOMAIN InFile : InFile[InFile[s]] = InFile[s]
  /\ PresetNames \subseteq {n \in Name : InFile[n] = n}

VARIABLES
  users,           \* User.users
  sessions,        \* Session.sessions
  byToken, byUser, now,  \* resettoken.Store, and the wall clock
  req,             \* where each request is in its handler
  saveMu,          \* the request that holds User.saveMu, or NoReq
  snap,            \* what a request that is saving has marshalled
  file,            \* the user file
  crashes,
  \* History that no step reads:
  cred,            \* the password hash a login or a session was proved with
  applied,         \* the requests whose write is in users
  overtaken        \* sign-ins that were in flight when their user was signed out

Users == INSTANCE UserStore WITH UserId <- Id, Hash <- Id \cup {Locked, Preset}
Sessions == INSTANCE SessionStore WITH SessionId <- Id, UserId <- Id
Links == INSTANCE ResetTokens WITH Token <- Req, UserId <- Id

\* A slot of the token table that holds no entry is told apart from one that does.
ASSUME SlotAssumption ==
  /\ Unborn \notin {Gone, Consumed}
  /\ \A e \in Links!NoEntry : e \notin Links!Entry

\* applySeedPasswords, where updateSeedPasswords (with createIfMissing) is on:
\* the accounts that bear a seed user's name get the configured password.
Configured(db) ==
  [u \in Id |->
     IF db[u] # NoUser /\ db[u].name \in PresetNames
       THEN [db[u] EXCEPT !.pw = Preset] ELSE db[u]]

\* New refuses to start with users that validateUsers finds fault with, and has
\* read and configured the others.  Seed passwords are known under the user's
\* own name; a locked account has none.
ASSUME DatabaseAssumption ==
  /\ Databases \subseteq Users!Database /\ NoUser \notin Users!UserInfo
  /\ \A db \in Databases :
       /\ Users!ValidUsers(db)
       /\ db = Users!Written(db) /\ db = Configured(db)
       /\ \A u \in Id : db[u] # NoUser =>
            /\ u \in Seed /\ db[u].pw \in {u, Locked, Preset}
            /\ db[u].pw = Preset => db[u].name \in PresetNames

store == <<users, applied>>
links == <<byToken, byUser, now>>
disk == <<saveMu, snap, file>>
vars == <<users, sessions, byToken, byUser, now, req, saveMu, snap, file,
          crashes, cred, applied, overtaken>>

AdminKinds == {"areset", "adelete", "agroups", "aregister", "reglocked", "alink"}
RegisterKinds == {"register", "aregister", "reglocked"}
PasswordKinds == {"change", "setpw", "areset"}
Mutating == RegisterKinds \cup PasswordKinds \cup {"adelete", "agroups"}

(***************************************************************************)
(* The routes newMux registers: none that changes users in static mode.    *)
(***************************************************************************)
Routes ==
  {"login", "logout"}
    \cup (IF (SelfRegistration \/ AllowBootstrap) /\ ~Static THEN {"register"} ELSE {})
    \cup (IF ~Static THEN {"change", "setpw"} ELSE {})
    \cup (IF UserAdminGroup # NoGroup /\ ~Static THEN AdminKinds ELSE {})

Offered == Kinds \cap Routes

Idle == [pc |-> "idle", kind |-> "none", actor |-> NoUser, target |-> NoUser,
         token |-> NoToken]

\* ok: answered with success.  fail: refused, nothing was written.  error: an
\* internal error after something was written.  lost: the process died.
Ended == {"ok", "fail", "error", "lost"}
InFlight(r) == req[r].pc \notin Ended \cup {"idle"}

At(r, pc) == req[r].pc = pc
Go(r, pc) == req' = [req EXCEPT ![r].pc = pc]

Snapshot == [db : Users!Database, log : SUBSET Req]
NoSnapshot == [db |-> Users!EmptyDB, log |-> {}]

Init ==
  /\ users \in Databases
  /\ file = [db |-> IF Persistent THEN users ELSE Users!EmptyDB, log |-> {}]
  /\ sessions \in {s \in [Id -> Id \cup {Unborn}] :
       \A i \in Id : s[i] # Unborn => s[i] = i /\ Users!CanVerify(i)}
  /\ Links!Init
  /\ req = [r \in Req |-> Idle]
  /\ saveMu = NoReq
  /\ snap = [r \in Req |-> NoSnapshot]
  /\ crashes = 0
  /\ cred = [i \in Id |-> IF Users!Get(i) THEN users[i].pw ELSE i]
  /\ applied = {} /\ overtaken = {}

(***************************************************************************)
(* First steps.                                                            *)
(***************************************************************************)

\* Login: Authenticate copies the record and verifies the copy.
Login(r) ==
  /\ At(r, "idle") /\ "login" \in Offered
  /\ \E u \in Id :
       /\ Users!CanVerify(u)
       /\ req' = [req EXCEPT ![r] =
                    [Idle EXCEPT !.pc = "session", !.kind = "login", !.target = u]]
       /\ cred' = [cred EXCEPT ![r] = users[u].pw]
  /\ UNCHANGED <<store, sessions, links, disk, crashes, overtaken>>

Logout(r) ==
  /\ At(r, "idle") /\ "logout" \in Offered
  /\ \E s \in Id : Sessions!Live(s) /\ Sessions!Delete(s)
  /\ req' = [req EXCEPT ![r] = [Idle EXCEPT !.pc = "ok", !.kind = "logout"]]
  /\ UNCHANGED <<store, links, disk, crashes, cred, overtaken>>

\* getUserFromSession, first half: the cookie's session names the caller.
Cookie(r) ==
  /\ At(r, "idle")
  /\ \E k \in Offered \cap (AdminKinds \cup {"change"}), s \in Id :
       /\ Sessions!Live(s)
       /\ req' = [req EXCEPT ![r] =
                    [Idle EXCEPT !.pc = "whoami", !.kind = k, !.actor = sessions[s]]]
  /\ UNCHANGED <<store, sessions, links, disk, crashes, cred, overtaken>>

\* Register looks whether the form is open before it reads the request.
RegisterPage(r) ==
  /\ At(r, "idle") /\ "register" \in Offered
  /\ Users!RegistrationOpen
  /\ req' = [req EXCEPT ![r] =
               [Idle EXCEPT !.pc = "write", !.kind = "register", !.target = r]]
  /\ UNCHANGED <<store, sessions, links, disk, crashes, cred, overtaken>>

\* SetPassword peeks at the token it was sent and drops it if it has expired.
PeekLink(r) ==
  /\ At(r, "idle") /\ "setpw" \in Offered
  /\ \E t \in Req :
       /\ Links!Known(t)
       /\ Links!Peek(t)
       /\ req' = [req EXCEPT ![r] =
                    IF Links!Valid(t)
                      THEN [pc |-> "look", kind |-> "setpw", actor |-> NoUser,
                            target |-> byToken[t].user, token |-> t]
                      ELSE [Idle EXCEPT !.pc = "fail"]]
  /\ UNCHANGED <<store, sessions, now, disk, crashes, cred, overtaken>>

(***************************************************************************)
(* Checks made before the write.                                           *)
(***************************************************************************)

\* getUserFromSession, second half, and the handler's IsAdmin on that copy.
\* A reset link for oneself is refused here.
WhoAmI(r) ==
  /\ At(r, "whoami")
  /\ Users!Get(req[r].actor)
  /\ \/ req[r].kind = "change" /\ Go(r, "check")
     \/ /\ req[r].kind = "alink" /\ Users!VerifyAdmin(req[r].actor)
        /\ \E u \in Users!Present(users) \ {req[r].actor} :
             req' = [req EXCEPT ![r].pc = "look", ![r].target = u]
     \/ /\ req[r].kind \in AdminKinds \ {"alink"}
        /\ Users!VerifyAdmin(req[r].actor) /\ Go(r, "verify")
  /\ UNCHANGED <<store, sessions, links, disk, crashes, cred, overtaken>>

\* getAndVerifyAdmin in pkg/user, and the guard against deleting oneself.
VerifyCaller(r) ==
  /\ At(r, "verify")
  /\ Users!VerifyAdmin(req[r].actor)
  /\ \E u \in Users!Present(users) \cup {r} :
       /\ u = r <=> req[r].kind \in RegisterKinds
       /\ req[r].kind = "adelete" => u # req[r].actor
       /\ req' = [req EXCEPT ![r].pc = IF req[r].kind = "areset" THEN "look" ELSE "write",
                             ![r].target = u]
  /\ UNCHANGED <<store, sessions, links, disk, crashes, cred, overtaken>>

\* ChangePassword: the old password is verified against a copy of the record.
CheckOldPassword(r) ==
  /\ At(r, "check")
  /\ Users!CanVerify(req[r].actor)
  /\ req' = [req EXCEPT ![r].pc = "write", ![r].target = req[r].actor]
  /\ cred' = [cred EXCEPT ![r] = users[req[r].actor].pw]
  /\ UNCHANGED <<store, sessions, links, disk, crashes, overtaken>>

\* The Get that precedes hashing in SetPassword and AdminResetPassword, and
\* minting in AdminCreateResetLink.
LookUp(r) ==
  /\ At(r, "look")
  /\ Users!Get(req[r].target)
  /\ Go(r, IF req[r].kind = "alink" THEN "mint" ELSE "write")
  /\ UNCHANGED <<store, sessions, links, disk, crashes, cred, overtaken>>

\* An early return: a check above fails, or the form is one that the handler
\* refuses (malformed, no CSRF token, weak or wrong password, unknown target).
Reject(r) ==
  /\ req[r].pc \in {"whoami", "verify", "check", "look"}
  /\ req' = [req EXCEPT ![r] = [Idle EXCEPT !.pc = "fail"]]
  /\ UNCHANGED <<store, sessions, links, disk, crashes, cred, overtaken>>

(***************************************************************************)
(* The write to the database, one critical section of User.mu.             *)
(***************************************************************************)
Form(r) ==
  [name : Name,
   email : IF req[r].kind = "register" THEN Email ELSE Email \cup {NoEmail},
   groups : IF req[r].kind = "register" THEN {{}} ELSE FormGroups]

Hashed(r) == IF req[r].kind = "reglocked" THEN Locked ELSE r

SelfService(r) == req[r].kind = "register"

\* Wrong on purpose: the guard that follows is gone.
MayAssignAnything(r, groups) == r \in Req

\* AdminUpdateUserGroups: an admin keeps the admin group of its own account.
MayAssign(r, groups) ==
  req[r].actor = req[r].target => UserAdminGroup \in groups

Write(r) ==
  /\ At(r, "write")
  /\ \/ /\ req[r].kind \in RegisterKinds
        /\ \E f \in Form(r) :
             Users!Register(r, f.name, Hashed(r), f.groups, f.email, SelfService(r))
        /\ cred' = [cred EXCEPT ![r] = r]
     \/ /\ req[r].kind \in PasswordKinds
        /\ Users!SetHash(req[r].target, r)
        /\ cred' = [cred EXCEPT ![r] = r]
     \/ req[r].kind = "adelete" /\ Users!Delete(req[r].target) /\ UNCHANGED cred
     \/ /\ req[r].kind = "agroups"
        /\ \E g \in FormGroups : MayAssign(r, g) /\ Users!SetGroups(req[r].target, g)
        /\ UNCHANGED cred
  /\ applied' = applied \cup {r}
  /\ Go(r, "save")
  /\ UNCHANGED <<sessions, links, disk, crashes, overtaken>>

\* The same checks failing under the lock, or a form refused just before it.
Refuse(r) ==
  /\ At(r, "write")
  /\ \/ req[r].kind \in RegisterKinds
     \/ req[r].kind \notin RegisterKinds /\ ~Users!Get(req[r].target)
     \/ req[r].kind = "agroups" /\ \E g \in FormGroups : ~MayAssign(r, g)
  /\ req' = [req EXCEPT ![r] = [Idle EXCEPT !.pc = "fail"]]
  /\ UNCHANGED <<store, sessions, links, disk, crashes, cred, overtaken>>

(***************************************************************************)
(* SaveUsers, down to the atomic rename (UserFile has the steps inside).   *)
(***************************************************************************)
\* Wrong on purpose: an admin who resets a password is logged in as the user,
\* and a password change leaves the other sessions alone.
AfterSaveLogsIn(kind) ==
  CASE kind \in {"register", "areset"} -> "session"
    [] kind = "change" -> "purge"
    [] kind = "setpw" -> "consume"
    [] kind = "reglocked" -> "mint"
    [] OTHER -> "ok"

AfterSaveKeepsSessions(kind) ==
  CASE kind \in {"register", "change"} -> "session"
    [] kind = "areset" -> "purge"
    [] kind = "setpw" -> "consume"
    [] kind = "reglocked" -> "mint"
    [] OTHER -> "ok"

AfterSave(kind) ==
  CASE kind = "register" -> "session"
    [] kind \in {"change", "areset"} -> "purge"
    [] kind = "setpw" -> "consume"
    [] kind = "reglocked" -> "mint"
    [] OTHER -> "ok"

SaveNothing(r) ==
  /\ At(r, "save") /\ ~Persistent
  /\ Go(r, AfterSave(req[r].kind))
  /\ UNCHANGED <<store, sessions, links, disk, crashes, cred, overtaken>>

\* Wrong on purpose: saves are not serialized.
MayLockAnyway == TRUE

MayLockSave == saveMu = NoReq

SaveBegin(r) ==
  /\ At(r, "save") /\ Persistent
  /\ MayLockSave
  /\ saveMu' = r
  /\ snap' = [snap EXCEPT ![r] = [db |-> Users!Written(users), log |-> applied]]
  /\ Go(r, "rename")
  /\ UNCHANGED <<store, sessions, links, file, crashes, cred, overtaken>>

SaveCommit(r) ==
  /\ At(r, "rename")
  /\ file' = snap[r]
  /\ saveMu' = NoReq
  /\ snap' = [snap EXCEPT ![r] = NoSnapshot]
  /\ Go(r, AfterSave(req[r].kind))
  /\ UNCHANGED <<store, sessions, links, crashes, cred, overtaken>>

\* Wrong on purpose: a failed save is taken for a success, and a failed save
\* returns without the unlock.
SaveFailIgnored(r) ==
  /\ At(r, "rename")
  /\ saveMu' = NoReq
  /\ snap' = [snap EXCEPT ![r] = NoSnapshot]
  /\ Go(r, AfterSave(req[r].kind))
  /\ UNCHANGED <<store, sessions, links, file, crashes, cred, overtaken>>

SaveFailKeepsLock(r) ==
  /\ At(r, "rename")
  /\ snap' = [snap EXCEPT ![r] = NoSnapshot]
  /\ Go(r, "error")
  /\ UNCHANGED <<store, sessions, links, saveMu, file, crashes, cred, overtaken>>

\* Wrong on purpose: memory goes back to the file when a save fails.
SaveFailRollsBack(r) ==
  /\ At(r, "rename")
  /\ saveMu' = NoReq
  /\ snap' = [snap EXCEPT ![r] = NoSnapshot]
  /\ users' = file.db /\ applied' = file.log
  /\ Go(r, "error")
  /\ UNCHANGED <<sessions, links, file, crashes, cred, overtaken>>

\* Create, write, close or rename failed: the handler answers 500 and leaves
\* the write in memory.
SaveFail(r) ==
  /\ At(r, "rename")
  /\ saveMu' = NoReq
  /\ snap' = [snap EXCEPT ![r] = NoSnapshot]
  /\ Go(r, "error")
  /\ UNCHANGED <<store, sessions, links, file, crashes, cred, overtaken>>

(***************************************************************************)
(* After the save.                                                         *)
(***************************************************************************)
\* Wrong on purpose: a request that finds its link consumed by another one
\* stops there and signs nobody out.
ConsumeLinkOrStop(r) ==
  /\ At(r, "consume")
  /\ Links!Consume(req[r].token)
  /\ Go(r, IF Links!Known(req[r].token) THEN "purge" ELSE "ok")
  /\ UNCHANGED <<store, sessions, now, disk, crashes, cred, overtaken>>

ConsumeLink(r) ==
  /\ At(r, "consume")
  /\ Links!Consume(req[r].token)
  /\ Go(r, "purge")
  /\ UNCHANGED <<store, sessions, now, disk, crashes, cred, overtaken>>

\* History: q has proved a password, or set a new one, and will create a
\* session on the strength of it.
SigningIn(q) ==
  /\ req[q].kind \in {"login", "register", "change"}
  /\ req[q].pc \in {"save", "rename", "purge", "session"}

AfterPurge(kind) == IF kind = "change" THEN "session" ELSE "ok"

SignOut(r) ==
  /\ At(r, "purge")
  /\ Sessions!DeleteUserSessions(req[r].target)
  /\ Go(r, AfterPurge(req[r].kind))
  /\ overtaken' = overtaken \cup
       {q \in Req \ {r} : SigningIn(q) /\ req[q].target = req[r].target}
  /\ UNCHANGED <<store, links, disk, crashes, cred>>

CreateSession(r) ==
  /\ At(r, "session")
  /\ Sessions!Create(r, req[r].target)
  /\ Go(r, "ok")
  /\ UNCHANGED <<store, links, disk, crashes, cred, overtaken>>

MintLink(r) ==
  /\ At(r, "mint")
  /\ Links!Create(r, req[r].target)
  /\ Go(r, "ok")
  /\ UNCHANGED <<store, sessions, now, disk, crashes, cred, overtaken>>

\* No randomness to be had: the handler answers 500.
MintFail(r) ==
  /\ At(r, "mint")
  /\ Go(r, "error")
  /\ UNCHANGED <<store, sessions, links, disk, crashes, cred, overtaken>>

(***************************************************************************)
(* The environment.                                                        *)
(***************************************************************************)
Tick ==
  /\ Links!Tick
  /\ UNCHANGED <<store, sessions, byToken, byUser, req, disk, crashes, cred, overtaken>>

\* The database after user.New on the file db.
Started(db) == IF Users!ValidUsers(db) THEN Configured(db) ELSE db

\* The process dies and is started again on the same file.  New sets the seed
\* passwords and saves them.  A file that loadUsersFromFile refuses keeps the
\* server down: nobody looks at users any more, and no request is ever served.
Crash ==
  /\ crashes < MaxCrashes
  /\ crashes' = crashes + 1
  /\ users' = IF Persistent THEN Started(file.db) ELSE Users!EmptyDB
  /\ file' = [file EXCEPT !.db = Started(file.db)]
  /\ applied' = IF Persistent THEN file.log ELSE {}
  /\ Sessions!Forget
  /\ Links!Forget
  /\ saveMu' = NoReq
  /\ snap' = [r \in Req |-> NoSnapshot]
  /\ req' = [r \in Req |->
               IF InFlight(r) \/ (At(r, "idle") /\ ~Users!ValidUsers(file.db))
                 THEN [req[r] EXCEPT !.pc = "lost"] ELSE req[r]]
  /\ UNCHANGED <<now, cred, overtaken>>

Start(r) == Login(r) \/ Logout(r) \/ Cookie(r) \/ RegisterPage(r) \/ PeekLink(r)

Serve(r) ==
  \/ WhoAmI(r) \/ VerifyCaller(r) \/ CheckOldPassword(r) \/ LookUp(r) \/ Reject(r)
  \/ Write(r) \/ Refuse(r)
  \/ SaveNothing(r) \/ SaveBegin(r) \/ SaveCommit(r) \/ SaveFail(r)
  \/ ConsumeLink(r) \/ SignOut(r) \/ CreateSession(r) \/ MintLink(r) \/ MintFail(r)

Next == (\E r \in Req : Start(r) \/ Serve(r)) \/ Tick \/ Crash

Spec == Init /\ [][Next]_vars

\* Goroutines are scheduled and system calls return, so a handler that has
\* been entered keeps going.
FairSpec == Spec /\ \A r \in Req : WF_vars(Serve(r))
=============================================================================
