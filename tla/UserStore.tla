------------------------------ MODULE UserStore ------------------------------
(***************************************************************************)
(* The in-memory user database of pkg/user: User.users, the rules that     *)
(* guard it and the writes made to it under User.mu.  Every operator that  *)
(* primes users is one critical section of that lock; how callers combine  *)
(* critical sections is the business of the modules that instantiate this  *)
(* one.                                                                    *)
(*                                                                         *)
(* The list of the code is a function from ids to records here: validated  *)
(* ids are unique and nothing in the code depends on the order.  Names,    *)
(* emails, groups and password hashes are abstract values.  A name and an  *)
(* address are the bytes a form carried: InFile maps each to what a save   *)
(* and a load make of it, itself if it is valid UTF-8.  (Ids and hashes    *)
(* are ASCII.  A group is only ever compared with UserAdminGroup, so its   *)
(* bytes do not matter as long as that one has no replacement character.)  *)
(***************************************************************************)

CONSTANTS
  UserId,          \* ids a user record can have (ULIDs, or ids given in a seed)
  Name,            \* user names
  Email, NoEmail,  \* email addresses, and the empty one
  InFile,          \* what json.Marshal makes of a name or an email address
  Group,           \* group names
  UserAdminGroup,  \* Config.UserAdminGroup, or NoGroup when it is ""
  NoGroup,
  Hash, Locked,    \* stored password hashes; Locked is LockedPasswordHash ("!")
  NoUser,          \* marks an id that no record has
  SelfRegistration, AllowBootstrap, Static,  \* the flags of Config
  Persistent       \* Config.FilePath # ""

VARIABLE users

UserInfo == [name   : Name,
             email  : Email \cup {NoEmail},
             pw     : Hash,
             groups : SUBSET Group]

Database == [UserId -> UserInfo \cup {NoUser}]

EmptyDB == [u \in UserId |-> NoUser]

Present(db) == {u \in UserId : db[u] # NoUser}

(***************************************************************************)
(* What loadUsersFromFile demands of a database before the server starts   *)
(* (validateUsers): no user name twice.  Ids are unique in a function.     *)
(***************************************************************************)
ValidUsers(db) ==
  \A u, v \in Present(db) : db[u].name = db[v].name => u = v

(***************************************************************************)
(* The database as json.Marshal writes it and json.Unmarshal reads it: all *)
(* bytes that are not UTF-8 have become the replacement character, so two  *)
(* names can become one.  Garbled are the strings that come of this.       *)
(***************************************************************************)
Written(db) ==
  [u \in UserId |->
     IF db[u] = NoUser THEN NoUser
     ELSE [db[u] EXCEPT !.name = InFile[db[u].name], !.email = InFile[db[u].email]]]

Garbled == {InFile[s] : s \in {t \in DOMAIN InFile : InFile[t] # t}}

\* Two users whose names only the file cannot tell apart.
GarbledNamesClash(db) ==
  \E u, v \in Present(db) :
    u # v /\ db[u].name = db[v].name /\ db[u].name \in Garbled

(***************************************************************************)
(* Reads.                                                                  *)
(***************************************************************************)
Get(u) == u \in Present(users)

IsAdmin(info) == UserAdminGroup # NoGroup /\ UserAdminGroup \in info.groups

Admins(db) == {u \in Present(db) : IsAdmin(db[u])}

VerifyAdmin(u) == u \in Admins(users)

\* Authenticate and verifyPassword: the caller knows the password behind the
\* stored hash.  The locked marker verifies no password.
CanVerify(u) == Get(u) /\ users[u].pw # Locked

RegistrationOpen ==
  SelfRegistration \/ (AllowBootstrap /\ Present(users) = {})

(***************************************************************************)
(* register: the checks and the append are one critical section.  The      *)
(* first user of an empty persistent database is given the admin group.    *)
(***************************************************************************)
\* Wrong on purpose, for the mutation runs: the form being open, the name or
\* the email is only looked at by the page, before the lock is taken.
MayRegisterOnceShown(name, email, selfService) ==
  /\ ~Static
  /\ \A u \in Present(users) : users[u].name # name
  /\ email # NoEmail => \A u \in Present(users) : users[u].email # email

MayRegisterAnyName(name, email, selfService) ==
  /\ ~Static
  /\ selfService => RegistrationOpen
  /\ email # NoEmail => \A u \in Present(users) : users[u].email # email

MayRegisterAnyEmail(name, email, selfService) ==
  /\ ~Static
  /\ selfService => RegistrationOpen
  /\ \A u \in Present(users) : users[u].name # name

MayRegister(name, email, selfService) ==
  /\ ~Static
  /\ selfService => RegistrationOpen
  /\ \A u \in Present(users) : users[u].name # name
  /\ email # NoEmail => \A u \in Present(users) : users[u].email # email

\* Wrong on purpose: the first user only becomes an admin in memory-only mode.
GrantedGroupsInverted(groups) ==
  IF Present(users) = {} /\ UserAdminGroup # NoGroup /\ ~Persistent
    THEN groups \cup {UserAdminGroup}
    ELSE groups

GrantedGroups(groups) ==
  IF Present(users) = {} /\ UserAdminGroup # NoGroup /\ Persistent
    THEN groups \cup {UserAdminGroup}
    ELSE groups

Register(id, name, hash, groups, email, selfService) ==
  /\ MayRegister(name, email, selfService)
  /\ users' = [users EXCEPT ![id] =
                 [name |-> name, email |-> email, pw |-> hash,
                  groups |-> GrantedGroups(groups)]]

(***************************************************************************)
(* The write halves of ChangePassword, SetPassword and AdminResetPassword, *)
(* of AdminDelete and of AdminUpdateUserGroups.  Each looks the user up    *)
(* again under the write lock.                                             *)
(***************************************************************************)
\* Wrong on purpose: the index found before the lock was taken is used under it.
SetHashAtOldIndex(u, hash) ==
  /\ ~Static
  /\ Get(u)
  /\ \E v \in Present(users) : users' = [users EXCEPT ![v].pw = hash]

\* Wrong on purpose: the record found before the lock was taken is stored back.
SetHashOfCopy(u, hash) ==
  /\ ~Static
  /\ \E info \in UserInfo :
       /\ Get(u) => info = users[u]
       /\ users' = [users EXCEPT ![u] = [info EXCEPT !.pw = hash]]

SetHash(u, hash) ==
  /\ ~Static
  /\ Get(u)
  /\ users' = [users EXCEPT ![u].pw = hash]

Delete(u) ==
  /\ ~Static
  /\ Get(u)
  /\ users' = [users EXCEPT ![u] = NoUser]

SetGroups(u, groups) ==
  /\ ~Static
  /\ Get(u)
  /\ users' = [users EXCEPT ![u].groups = groups]
=============================================================================
