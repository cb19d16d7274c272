------------------------- MODULE AccountsRulesProofs --------------------------
(***************************************************************************)
(* The rules of the user database that each registration, password change  *)
(* and group change keeps, carried through every version of the database:  *)
(* in memory, in a save under way and in the file.                         *)
(***************************************************************************)
EXTENDS AccountsUserProofs, FiniteSetTheorems

\* The version of the database that is in memory.
Memory == [db |-> users, log |-> applied]

LEMMA MemoryIsAVersion == Memory \in Versions /\ Memory.db = users /\ Memory.log = applied
  BY DEF Memory, Versions

\* A write is made by a request that moves on to its save, and by no other.
LEMMA WriteMoves ==
  ASSUME TypeOK, NEW r \in Req, Write(r)
  PROVE /\ req[r].pc = "write" /\ applied' = applied \cup {r}
        /\ req'[r].pc = "save" /\ req'[r].kind = req[r].kind /\ req'[r].target = req[r].target
        /\ req'[r].actor = req[r].actor /\ req'[r].token = req[r].token
        /\ \A p \in Req : p # r => req'[p] = req[p]
        /\ users \in Users!Database /\ NoUser \notin Users!UserInfo /\ NoUser \notin Id
<1>1. /\ req'[r] = [req[r] EXCEPT !.pc = "save"] /\ req[r] \in Request
      /\ \A p \in Req : p # r => req'[p] = req[p]
  BY DEF Write, Go, TypeOK, RequestsOK
<1>2. users \in Users!Database /\ NoUser \notin Users!UserInfo /\ NoUser \notin Id
  BY DatabaseAssumption, NameAssumption DEF TypeOK
<1> QED
  BY <1>1, <1>2 DEF Write, At, Request

\* The four writes, with everything a rule can depend on.
LEMMA WriteForms ==
  ASSUME TypeOK, NEW r \in Req, Write(r)
  PROVE \/ \E i \in Users!UserInfo :
             /\ req[r].kind \in RegisterKinds
             /\ Users!MayRegister(i.name, i.email, SelfService(r))
             /\ Users!Present(users) = {} /\ UserAdminGroup # NoGroup /\ Persistent =>
                  UserAdminGroup \in i.groups
             /\ req[r].kind = "register" /\ i.groups # {} => Users!Present(users) = {}
             /\ i.pw = Hashed(r)
             /\ users' = [users EXCEPT ![r] = i]
        \/ /\ req[r].kind \in PasswordKinds
           /\ req[r].target \in Users!Present(users)
           /\ users' = [users EXCEPT ![req[r].target].pw = r]
        \/ /\ req[r].kind = "adelete"
           /\ req[r].target \in Users!Present(users)
           /\ users' = [users EXCEPT ![req[r].target] = NoUser]
        \/ \E g \in FormGroups :
             /\ req[r].kind = "agroups"
             /\ req[r].target \in Users!Present(users)
             /\ users' = [users EXCEPT ![req[r].target].groups = g]
<1>1. CASE \E f \in Form(r) :
             /\ req[r].kind \in RegisterKinds
             /\ Users!Register(r, f.name, Hashed(r), f.groups, f.email, SelfService(r))
  <2>1. PICK f \in Form(r) :
          /\ req[r].kind \in RegisterKinds
          /\ Users!Register(r, f.name, Hashed(r), f.groups, f.email, SelfService(r))
    BY <1>1
  <2> DEFINE i == [name |-> f.name, email |-> f.email, pw |-> Hashed(r),
                   groups |-> Users!GrantedGroups(f.groups)]
  <2>2. f.name \in Name /\ f.email \in Email \cup {NoEmail} /\ f.groups \in SUBSET Group
    BY NameAssumption DEF Form
  <2>3. i \in Users!UserInfo
    BY <2>2, GrantedGroupsAreGroups DEF Users!UserInfo, Hashed, Id
  <2>4. users' = [users EXCEPT ![r] = i] /\ Users!MayRegister(i.name, i.email, SelfService(r))
    BY <2>1 DEF Users!Register
  <2>5. Users!Present(users) = {} /\ UserAdminGroup # NoGroup /\ Persistent =>
          UserAdminGroup \in i.groups
    BY DEF Users!GrantedGroups
  <2>6. req[r].kind = "register" /\ i.groups # {} => Users!Present(users) = {}
    BY DEF Form, Users!GrantedGroups
  <2> QED
    BY <2>1, <2>3, <2>4, <2>5, <2>6
<1>2. CASE req[r].kind \in PasswordKinds /\ Users!SetHash(req[r].target, r)
  BY <1>2 DEF Users!SetHash, Users!Get
<1>3. CASE req[r].kind = "adelete" /\ Users!Delete(req[r].target)
  BY <1>3 DEF Users!Delete, Users!Get
<1>4. CASE req[r].kind = "agroups" /\ \E g \in FormGroups : Users!SetGroups(req[r].target, g)
  BY <1>4 DEF Users!SetGroups, Users!Get
<1> QED
  BY <1>1, <1>2, <1>3, <1>4 DEF Write

\* A version keeps its requests as they are: they have written already.
LEMMA LogsStay ==
  ASSUME TypeOK, [Next]_vars, NEW v \in Snapshot, Consistent(v), NEW p \in v.log
  PROVE /\ p \in Req /\ req[p].pc \notin Before /\ req'[p].pc \notin Before
        /\ req'[p].kind = req[p].kind /\ req'[p].target = req[p].target
        /\ req'[p].actor = req[p].actor /\ req'[p].token = req[p].token
<1>1. p \in Req /\ req[p].pc \notin Before
  BY DEF Snapshot, Consistent
<1> QED
  BY <1>1, EveryoneMovesOn DEF MovesOn

LEMMA VersionsKnown ==
  ASSUME TypeOK, DeletesStick, NEW v \in Versions \cup {NoSnapshot}
  PROVE v \in Snapshot /\ Consistent(v)
  BY NoSnapshotIsSnapshot, NothingIsConsistent, VersionsAreSnapshots DEF DeletesStick

\* A version after a step is what has become of one from before it, or of the
\* empty one, or has just been made by a write.
LEMMA NewVersions ==
  ASSUME TypeOK, [Next]_vars, NEW w \in Versions'
  PROVE \/ \E v \in Versions \cup {NoSnapshot} :
             v \in Snapshot /\ w \in Snapshot /\ Becomes(crashes', v, w)
        \/ \E r \in Req : Write(r) /\ w = Memory'
<1>1. w \in Snapshot /\ \A v \in Versions \cup {NoSnapshot} : v \in Snapshot
  BY NoSnapshotIsSnapshot, VersionsAreSnapshots, NewVersionsAreSnapshots
<1>2. CASE \E r \in Req : Write(r)
  BY <1>1, <1>2, StaysItself, WriteVersions DEF Memory
<1>3. CASE \A r \in Req : ~Write(r)
  BY <1>1, <1>3, StaysItself, VersionsStep
<1> QED
  BY <1>2, <1>3

LEMMA CrashesGrow ==
  ASSUME TypeOK, [Next]_vars
  PROVE crashes > 0 => crashes' > 0
<1>1. crashes' = crashes \/ crashes' = crashes + 1
  BY DEF Next, Start, Serve, vars, Login, Logout, Cookie, RegisterPage, PeekLink, WhoAmI,
         VerifyCaller, CheckOldPassword, LookUp, Reject, Write, Refuse, SaveNothing, SaveBegin,
         SaveCommit, SaveFail, ConsumeLink, SignOut, CreateSession, MintLink, MintFail, Tick, Crash
<1> QED
  BY <1>1 DEF TypeOK

\* What becomes of a version has the same admins.
LEMMA SameAdmins ==
  ASSUME NEW n, NEW v \in Snapshot, NEW w \in Snapshot, Becomes(n, v, w)
  PROVE Users!Admins(w.db) = Users!Admins(v.db)
  BY DEF Becomes, Recast, SameButFor, Users!Admins, Users!Present, Users!IsAdmin

\* A password is kept, or is the configured one: JSON keeps the names that the
\* configuration mentions.
LEMMA RecastPassword ==
  ASSUME NEW n, NEW v \in Snapshot, NEW w \in Snapshot, Becomes(n, v, w),
         NEW u \in Users!Present(w.db)
  PROVE /\ u \in Users!Present(v.db)
        /\ \/ n > 0 /\ SetByStart(w.db[u])
           \/ w.db[u].pw = v.db[u].pw /\ (SetByStart(v.db[u]) => SetByStart(w.db[u]))
<1>1. u \in Id /\ v.db[u] # NoUser /\ SameButFor(n, v.db[u], w.db[u])
  BY DEF Becomes, Recast, Users!Present
<1>2. v.db[u].name \in PresetNames => InFile[v.db[u].name] = v.db[u].name
  BY JSONAssumption
<1> QED
  BY <1>1, <1>2 DEF SameButFor, SetByStart, Users!Present

\* A write leaves the names and passwords of everyone else as they are.
LEMMA WriteElsewhere ==
  ASSUME TypeOK, NEW r \in Req, Write(r), NEW u \in Id, u # r,
         ~(req[r].kind \in PasswordKinds /\ req[r].target = u),
         u \in Users!Present(users')
  PROVE /\ u \in Users!Present(users)
        /\ users'[u].pw = users[u].pw /\ users'[u].name = users[u].name
<1>0. users \in Users!Database /\ NoUser \notin Users!UserInfo
  BY WriteMoves
<1>1. CASE \E i \in Users!UserInfo : users' = [users EXCEPT ![r] = i]
  BY <1>0, <1>1 DEF Users!Present, Users!Database
<1>2. CASE /\ req[r].kind \in PasswordKinds
           /\ req[r].target \in Users!Present(users)
           /\ users' = [users EXCEPT ![req[r].target].pw = r]
  BY <1>0, <1>2 DEF Users!Present, Users!Database
<1>3. CASE users' = [users EXCEPT ![req[r].target] = NoUser]
  BY <1>0, <1>3 DEF Users!Present, Users!Database
<1>4. CASE \E g \in FormGroups :
             /\ req[r].target \in Users!Present(users)
             /\ users' = [users EXCEPT ![req[r].target].groups = g]
  BY <1>0, <1>4 DEF Users!Present, Users!Database, Users!UserInfo
<1> QED
  BY <1>1, <1>2, <1>3, <1>4, WriteForms

(***************************************************************************)
(* Email addresses.                                                        *)
(***************************************************************************)
UniqueEmails(db) ==
  \A u, v \in Users!Present(db) :
    db[u].email = db[v].email /\ db[u].email # NoEmail =>
      u = v \/ {u, v} \subseteq Seed \/ db[u].email \in Users!Garbled

OneEmailEach == \A v \in Versions : UniqueEmails(v.db)

LEMMA WriteKeepsEmails ==
  ASSUME TypeOK, NEW r \in Req, Write(r), UniqueEmails(users)
  PROVE UniqueEmails(users')
<1> USE DEF UniqueEmails, Users!Present, Users!Database
<1>0. users \in Users!Database /\ NoUser \notin Users!UserInfo /\ Req \subseteq Id
  BY WriteMoves DEF Id
<1>1. CASE \E i \in Users!UserInfo :
             /\ Users!MayRegister(i.name, i.email, SelfService(r))
             /\ users' = [users EXCEPT ![r] = i]
  BY <1>0, <1>1 DEF Users!MayRegister
<1>2. CASE /\ req[r].target \in Users!Present(users)
           /\ users' = [users EXCEPT ![req[r].target].pw = r]
  BY <1>0, <1>2 DEF Users!UserInfo
<1>3. CASE users' = [users EXCEPT ![req[r].target] = NoUser]
  BY <1>0, <1>3
<1>4. CASE \E g \in FormGroups :
             /\ req[r].target \in Users!Present(users)
             /\ users' = [users EXCEPT ![req[r].target].groups = g]
  BY <1>0, <1>4 DEF Users!UserInfo
<1> QED
  BY <1>1, <1>2, <1>3, <1>4, WriteForms

LEMMA RecastKeepsEmails ==
  ASSUME NEW n, NEW v \in Snapshot, NEW w \in Snapshot, Becomes(n, v, w), UniqueEmails(v.db)
  PROVE UniqueEmails(w.db)
<1> SUFFICES ASSUME NEW a \in Users!Present(w.db), NEW b \in Users!Present(w.db),
                    w.db[a].email = w.db[b].email, w.db[a].email # NoEmail,
                    w.db[a].email \notin Users!Garbled
             PROVE a = b \/ {a, b} \subseteq Seed
  BY DEF UniqueEmails
<1>1. v.db \in Users!Database /\ w.db \in Users!Database /\ Recast(n, v.db, w.db)
  BY DEF Snapshot, Becomes
<1>2. /\ a \in Users!Present(v.db) /\ b \in Users!Present(v.db)
      /\ w.db[a].email = v.db[a].email /\ w.db[b].email = v.db[b].email
  BY <1>1, RecastName
<1> QED
  BY <1>2 DEF UniqueEmails

LEMMA EmailsStep == TypeOK /\ OneEmailEach /\ [Next]_vars => OneEmailEach'
<1> SUFFICES ASSUME TypeOK, OneEmailEach, [Next]_vars, NEW w \in Versions'
             PROVE UniqueEmails(w.db)
  BY DEF OneEmailEach
<1>1. UniqueEmails(NoSnapshot.db)
  BY NobodyIsPresent DEF NoSnapshot, UniqueEmails
<1>2. CASE \E v \in Versions \cup {NoSnapshot} :
             v \in Snapshot /\ w \in Snapshot /\ Becomes(crashes', v, w)
  BY <1>1, <1>2, RecastKeepsEmails DEF OneEmailEach
<1>3. CASE \E r \in Req : Write(r) /\ w = Memory'
  <2>1. UniqueEmails(users)
    BY MemoryIsAVersion DEF OneEmailEach
  <2> QED
    BY <1>3, <2>1, WriteKeepsEmails DEF Memory
<1> QED
  BY <1>2, <1>3, NewVersions

\* register tests the address under the lock it appends under, so an account that
\* was registered never comes to share its address with another one, whoever
\* registers whom at the same time and whatever is saved, lost and loaded, unless
\* it is the address that json.Marshal makes of others.
THEOREM AddressesStayUnique == Spec => []EmailsUnique
<1>1. Init => OneEmailEach
  <2> SUFFICES ASSUME Init, NEW v \in Versions PROVE UniqueEmails(v.db)
    BY DEF OneEmailEach
  <2>1. v.db \in Databases \cup {Users!EmptyDB}
    BY DEF Init, Versions, NoSnapshot
  <2>2. Users!Present(v.db) \subseteq Seed
    BY <2>1, NobodyIsPresent, DatabaseAssumption DEF Users!Present
  <2> QED
    BY <2>2 DEF UniqueEmails
<1>2. OneEmailEach => EmailsUnique
  BY MemoryIsAVersion DEF OneEmailEach, UniqueEmails, EmailsUnique, Versions
<1> QED
  BY <1>1, <1>2, EmailsStep, AccountsTypes, PTL DEF Spec

(***************************************************************************)
(* The bootstrap window.                                                   *)
(***************************************************************************)
\* The accounts in a version that came through the public form.
SelfMade(v) == {p \in Users!Present(v.db) \cap Req : req[p].kind = "register"}

OneSelfMade == ~SelfRegistration => \A v \in Versions : \A p, q \in SelfMade(v) : p = q

LEMMA SelfMadeStays ==
  ASSUME TypeOK, [Next]_vars, NEW v \in Snapshot, Consistent(v)
  PROVE SelfMade(v)' = SelfMade(v)
<1>1. \A p \in Users!Present(v.db) \cap Req : req'[p].kind = req[p].kind
  BY LogsStay DEF Consistent
<1> QED
  BY <1>1 DEF SelfMade

\* register looks again, under the lock, whether the database is still empty.
LEMMA WriteKeepsOneSelfMade ==
  ASSUME TypeOK, ~SelfRegistration, NEW r \in Req, Write(r),
         \A p, q \in SelfMade(Memory) : p = q
  PROVE \A p, q \in SelfMade(Memory)' : p = q
<1>1. \A p \in Req : req'[p].kind = req[p].kind
  BY WriteMoves
<1>2. /\ SelfMade(Memory) = {p \in Users!Present(users) \cap Req : req[p].kind = "register"}
      /\ SelfMade(Memory)' = {p \in Users!Present(users') \cap Req : req'[p].kind = "register"}
  BY DEF SelfMade, Memory
<1>3. users \in Users!Database /\ NoUser \notin Users!UserInfo /\ Req \subseteq Id
  BY WriteMoves DEF Id
<1>4. CASE /\ req[r].kind = "register"
           /\ \E i \in Users!UserInfo : /\ Users!MayRegister(i.name, i.email, SelfService(r))
                                        /\ users' = [users EXCEPT ![r] = i]
  <2>1. Users!Present(users) = {}
    BY <1>4 DEF Users!MayRegister, SelfService, Users!RegistrationOpen
  <2>2. Users!Present(users') \subseteq {r}
    BY <1>3, <1>4, <2>1 DEF Users!Present, Users!Database
  <2> QED
    BY <1>2, <2>2
<1>5. CASE /\ req[r].kind # "register"
           /\ Users!Present(users') \subseteq Users!Present(users) \cup {r}
  BY <1>1, <1>2, <1>5
<1>6. CASE req[r].kind # "register" /\ \E i \in Users!UserInfo : users' = [users EXCEPT ![r] = i]
  BY <1>3, <1>5, <1>6 DEF Users!Present, Users!Database
<1>7. CASE /\ req[r].kind \notin RegisterKinds /\ req[r].target \in Users!Present(users)
           /\ \E x : users' = [users EXCEPT ![req[r].target] = x]
  <2>1. Users!Present(users') \subseteq Users!Present(users)
    BY <1>3, <1>7 DEF Users!Present, Users!Database
  <2> QED
    BY <1>5, <1>7, <2>1 DEF RegisterKinds
<1>8. \/ \E i \in Users!UserInfo : /\ req[r].kind \in RegisterKinds
                                   /\ Users!MayRegister(i.name, i.email, SelfService(r))
                                   /\ users' = [users EXCEPT ![r] = i]
      \/ /\ req[r].kind \notin RegisterKinds /\ req[r].target \in Users!Present(users)
         /\ \E x : users' = [users EXCEPT ![req[r].target] = x]
  BY WriteForms DEF RegisterKinds, PasswordKinds
<1> QED
  BY <1>4, <1>6, <1>7, <1>8

LEMMA OneSelfMadeStep ==
  TypeOK /\ DeletesStick /\ OneSelfMade /\ [Next]_vars => OneSelfMade'
<1> SUFFICES ASSUME TypeOK, DeletesStick, OneSelfMade, [Next]_vars, ~SelfRegistration,
                    NEW w \in Versions'
             PROVE \A p, q \in SelfMade(w)' : p = q
  BY DEF OneSelfMade
<1>1. CASE \E v \in Versions \cup {NoSnapshot} :
             v \in Snapshot /\ w \in Snapshot /\ Becomes(crashes', v, w)
  <2>1. PICK v \in Versions \cup {NoSnapshot} :
          v \in Snapshot /\ w \in Snapshot /\ Becomes(crashes', v, w)
    BY <1>1
  <2>2. SelfMade(v)' = SelfMade(v)
    BY <2>1, VersionsKnown, SelfMadeStays
  <2>3. \A p, q \in SelfMade(v) : p = q
    BY <2>1, NobodyIsPresent DEF OneSelfMade, SelfMade, NoSnapshot
  <2>4. SelfMade(w)' = SelfMade(v)'
    BY <2>1, SameUsers DEF SelfMade
  <2> QED
    BY <2>2, <2>3, <2>4
<1>2. CASE \E r \in Req : Write(r) /\ w = Memory'
  <2>1. \A p, q \in SelfMade(Memory) : p = q
    BY MemoryIsAVersion DEF OneSelfMade
  <2>2. \A p, q \in SelfMade(Memory)' : p = q
    BY <1>2, <2>1, WriteKeepsOneSelfMade
  <2> QED
    BY <1>2, <2>2 DEF SelfMade
<1> QED
  BY <1>1, <1>2, NewVersions

\* However many registrations pass the open page at once, the bootstrap window
\* lets one through, in memory and in the file, and a crash that loses it is
\* the only way another one gets the window.
THEOREM BootstrapLetsOneIn == Spec => []BootstrapAdmitsOne
<1>1. Init => OneSelfMade
  BY DEF Init, OneSelfMade, SelfMade, Idle
<1>2. TypeOK /\ OneSelfMade => BootstrapAdmitsOne
  <2> SUFFICES ASSUME OneSelfMade, ~SelfRegistration, NEW db \in {users, file.db}
               PROVE Cardinality({p \in Users!Present(db) \cap Req : req[p].kind = "register"}) <= 1
    BY DEF BootstrapAdmitsOne
  <2> DEFINE S == {p \in Users!Present(db) \cap Req : req[p].kind = "register"}
  <2>1. \A p, q \in S : p = q
    BY MemoryIsAVersion DEF OneSelfMade, SelfMade, Versions
  <2>2. S = {} \/ \E p \in S : S = {p}
    BY <2>1
  <2> HIDE DEF S
  <2>3. Cardinality(S) \in {0, 1}
    BY <2>2, FS_EmptySet, FS_Singleton
  <2>4. Cardinality(S) <= 1
    BY <2>3
  <2> QED
    BY <2>4 DEF S
<1> QED
  BY <1>1, <1>2, OneSelfMadeStep, AccountsTypes, DeletesAlwaysStick, PTL DEF Spec

(***************************************************************************)
(* The first admin.                                                        *)
(***************************************************************************)
NobodyDemoted(v) == \A p \in v.log : req[p].kind \notin {"adelete", "agroups"}

Managed(v) == Users!Present(v.db) # {} /\ NobodyDemoted(v) => Users!Admins(v.db) # {}

AllManaged == UserAdminGroup # NoGroup /\ Persistent => \A v \in Versions : Managed(v)

\* register decides under the lock whether it makes the first user; everyone
\* else keeps the groups they have.
LEMMA WriteKeepsManaged ==
  ASSUME TypeOK, DeletesStick, UserAdminGroup # NoGroup, Persistent,
         NEW r \in Req, Write(r), Managed(Memory)
  PROVE Managed(Memory)'
<1> SUFFICES ASSUME \A p \in applied' : req'[p].kind \notin {"adelete", "agroups"}
             PROVE Users!Admins(users') # {}
  BY DEF Managed, Memory, NobodyDemoted
<1>1. req[r].kind \notin {"adelete", "agroups"} /\ NobodyDemoted(Memory)
  BY WriteMoves, MemoryIsAVersion DEF NobodyDemoted, TypeOK, HistoryOK
<1>2. users \in Users!Database /\ NoUser \notin Users!UserInfo /\ Req \subseteq Id
  BY WriteMoves DEF Id
<1>3. ASSUME Users!Present(users) # {}
      PROVE \E a \in Id : users[a] # NoUser /\ UserAdminGroup \in users[a].groups
  BY <1>1, <1>3, MemoryIsAVersion DEF Managed, Users!Admins, Users!Present, Users!IsAdmin
<1>4. CASE \E i \in Users!UserInfo :
             /\ Users!Present(users) = {} => UserAdminGroup \in i.groups
             /\ users' = [users EXCEPT ![r] = i]
  <2>1. users[r] = NoUser
    <3>1. Consistent(Memory) /\ r \notin applied
      BY WriteMoves, MemoryIsAVersion DEF DeletesStick, Consistent, Before
    <3> QED
      BY <1>2, <3>1, MemoryIsAVersion DEF Consistent, Users!Present
  <2>2. CASE Users!Present(users) = {}
    BY <1>2, <1>4, <2>2 DEF Users!Admins, Users!Present, Users!IsAdmin, Users!Database
  <2>3. CASE Users!Present(users) # {}
    BY <1>2, <1>3, <1>4, <2>1, <2>3 DEF Users!Admins, Users!Present, Users!IsAdmin, Users!Database
  <2> QED
    BY <2>2, <2>3
<1>5. CASE /\ req[r].target \in Users!Present(users)
           /\ users' = [users EXCEPT ![req[r].target].pw = r]
  <2> DEFINE t == req[r].target
             i == [users[t] EXCEPT !.pw = r]
  <2>1. t \in Id /\ users[t] \in Users!UserInfo
    BY <1>2, <1>5 DEF Users!Present, Users!Database
  <2>2. i.groups = users[t].groups /\ i \in Users!UserInfo
    BY <2>1 DEF Users!UserInfo, Id
  <2>3. users' = [users EXCEPT ![t] = i]
    BY <1>5
  <2>4. PICK a \in Id : users[a] # NoUser /\ UserAdminGroup \in users[a].groups
    BY <1>3, <1>5
  <2>5. users'[a] # NoUser /\ UserAdminGroup \in users'[a].groups
    BY <1>2, <2>1, <2>2, <2>3, <2>4 DEF Users!Database
  <2> QED
    BY <2>5 DEF Users!Admins, Users!Present, Users!IsAdmin
<1> QED
  BY <1>1, <1>4, <1>5, WriteForms

LEMMA ManagedStep == TypeOK /\ DeletesStick /\ AllManaged /\ [Next]_vars => AllManaged'
<1> SUFFICES ASSUME TypeOK, DeletesStick, AllManaged, [Next]_vars,
                    UserAdminGroup # NoGroup, Persistent, NEW w \in Versions'
             PROVE Managed(w)'
  BY DEF AllManaged
<1>1. CASE \E v \in Versions \cup {NoSnapshot} :
             v \in Snapshot /\ w \in Snapshot /\ Becomes(crashes', v, w)
  <2>1. PICK v \in Versions \cup {NoSnapshot} :
          v \in Snapshot /\ w \in Snapshot /\ Becomes(crashes', v, w)
    BY <1>1
  <2>2. Consistent(v)
    BY <2>1, VersionsKnown
  <2>3. NobodyDemoted(w)' => NobodyDemoted(v)
    BY <2>1, <2>2, LogsStay, SameUsers DEF NobodyDemoted
  <2>4. Managed(v)
    BY <2>1, NobodyIsPresent DEF AllManaged, Managed, NoSnapshot
  <2>5. Users!Present(w.db) = Users!Present(v.db) /\ Users!Admins(w.db) = Users!Admins(v.db)
    BY <2>1, SameUsers, SameAdmins
  <2> QED
    BY <2>3, <2>4, <2>5 DEF Managed, NobodyDemoted
<1>2. CASE \E r \in Req : Write(r) /\ w = Memory'
  <2>1. Managed(Memory)'
    BY <1>2, MemoryIsAVersion, WriteKeepsManaged DEF AllManaged
  <2> QED
    BY <1>2, <2>1 DEF Managed, NobodyDemoted
<1> QED
  BY <1>1, <1>2, NewVersions

\* A database that was empty, or had an admin, when the server was first
\* started has an admin as long as nobody was deleted or demoted: whichever of
\* the concurrent first registrations wins, whatever saves fail and crashes.
THEOREM FreshDeploymentsHaveAnAdmin ==
  ASSUME \A db \in Databases : Users!Present(db) = {} \/ Users!Admins(db) # {}
  PROVE Spec => []FreshDeploymentManageable
<1>1. Init => AllManaged
  <2> SUFFICES ASSUME Init, Persistent, NEW v \in Versions PROVE Managed(v)
    BY DEF AllManaged
  <2>1. v.db \in Databases \cup {Users!EmptyDB}
    BY DEF Init, Versions, NoSnapshot
  <2> QED
    BY <2>1, NobodyIsPresent DEF Managed
<1>2. AllManaged => FreshDeploymentManageable
  BY DEF AllManaged, Managed, NobodyDemoted, Versions, FreshDeploymentManageable
<1> QED
  BY <1>1, <1>2, ManagedStep, AccountsTypes, DeletesAlwaysStick, PTL DEF Spec

(***************************************************************************)
(* Passwords.                                                              *)
(***************************************************************************)
\* In a version that has a password write, the user is not one that is still
\* to be registered, and the password in force is one such a write has set, or
\* one that a restart has set from the configuration.
PasswordsSet(v) ==
  \A p \in v.log : req[p].kind \in PasswordKinds =>
    /\ req[p].target \in Req => req[req[p].target].pc \notin Before
    /\ req[p].target \in Users!Present(v.db) =>
         \/ crashes > 0 /\ SetByStart(v.db[req[p].target])
         \/ \E q \in v.log : /\ v.db[req[p].target].pw = q
                             /\ req[q].kind \in PasswordKinds
                             /\ req[q].target = req[p].target

\* Without a file there is only memory: there the write is, until a crash takes
\* the user with it, and nothing registers that user again.
Wrote == After \cup {"save", "rename"}

StillSet(r) ==
  ~Persistent /\ req[r].kind \in PasswordKinds /\ req[r].pc \in Wrote =>
    /\ req[r].target \in Req => req[req[r].target].pc \notin Before
    /\ r \in applied \/ req[r].target \notin Users!Present(users)

PasswordsStick ==
  /\ \A v \in Versions : PasswordsSet(v)
  /\ \A r \in Req : StillSet(r)

LEMMA PasswordsSetStay ==
  ASSUME TypeOK, [Next]_vars, NEW v \in Snapshot, NEW w \in Snapshot, Consistent(v),
         PasswordsSet(v), Becomes(crashes', v, w)
  PROVE PasswordsSet(w)'
<1>1. \A p \in v.log : /\ req'[p].kind = req[p].kind /\ req'[p].target = req[p].target
  BY LogsStay
<1>2. \A t \in Req : req[t].pc \notin Before => req'[t].pc \notin Before
  BY EveryoneMovesOn DEF MovesOn
<1>3. w.log = v.log
  BY SameUsers
<1> SUFFICES ASSUME NEW p \in v.log, req[p].kind \in PasswordKinds
             PROVE /\ req[p].target \in Req => req'[req[p].target].pc \notin Before
                   /\ req[p].target \in Users!Present(w.db) =>
                        \/ crashes' > 0 /\ SetByStart(w.db[req[p].target])
                        \/ \E q \in v.log : /\ w.db[req[p].target].pw = q
                                            /\ req[q].kind \in PasswordKinds
                                            /\ req[q].target = req[p].target
  BY <1>1, <1>3 DEF PasswordsSet, SetByStart
<1>4. PICK t : t = req[p].target
  OBVIOUS
<1>5. t \in Req => req'[t].pc \notin Before
  BY <1>2, <1>4 DEF PasswordsSet
<1>6. ASSUME t \in Users!Present(w.db)
      PROVE \/ crashes' > 0 /\ SetByStart(w.db[t])
            \/ \E q \in v.log : /\ w.db[t].pw = q
                                /\ req[q].kind \in PasswordKinds /\ req[q].target = t
  <2>1. /\ t \in Users!Present(v.db)
        /\ \/ crashes' > 0 /\ SetByStart(w.db[t])
           \/ w.db[t].pw = v.db[t].pw /\ (SetByStart(v.db[t]) => SetByStart(w.db[t]))
    BY <1>6, RecastPassword
  <2>2. \/ crashes > 0 /\ SetByStart(v.db[t])
        \/ \E q \in v.log : /\ v.db[t].pw = q
                            /\ req[q].kind \in PasswordKinds /\ req[q].target = t
    BY <1>4, <2>1 DEF PasswordsSet
  <2> QED
    BY <2>1, <2>2, CrashesGrow
<1> QED
  BY <1>4, <1>5, <1>6

\* Who is in memory is not about to be registered.
LEMMA PresentHasWritten ==
  ASSUME TypeOK, DeletesStick, NEW t \in Users!Present(users) \cap Req
  PROVE t \in applied /\ req[t].pc \notin Before
  BY MemoryIsAVersion DEF DeletesStick, Consistent

LEMMA WriteKeepsPasswords ==
  ASSUME TypeOK, DeletesStick, [Next]_vars, NEW r \in Req, Write(r), PasswordsSet(Memory)
  PROVE PasswordsSet(Memory)'
<1>0. /\ users \in Users!Database /\ NoUser \notin Users!UserInfo /\ NoUser \notin Id
      /\ Req \subseteq Id /\ applied \subseteq Req /\ applied' = applied \cup {r}
  BY WriteMoves DEF Id, TypeOK, HistoryOK
<1>1. \A p \in applied' : req'[p].kind = req[p].kind /\ req'[p].target = req[p].target
  BY <1>0, WriteMoves
<1>2. \A t \in Req : req[t].pc \notin Before => req'[t].pc \notin Before
  BY EveryoneMovesOn DEF MovesOn
<1> SUFFICES ASSUME NEW p \in applied', req[p].kind \in PasswordKinds
             PROVE /\ req[p].target \in Req => req[req[p].target].pc \notin Before
                   /\ req[p].target \in Users!Present(users') =>
                        \/ crashes' > 0 /\ SetByStart(users'[req[p].target])
                        \/ \E q \in applied' : /\ users'[req[p].target].pw = q
                                               /\ req[q].kind \in PasswordKinds
                                               /\ req[q].target = req[p].target
  BY <1>1, <1>2 DEF PasswordsSet, Memory, SetByStart
<1> DEFINE t == req[p].target
<1>3. ASSUME p \in applied
      PROVE /\ t \in Req => req[t].pc \notin Before
            /\ t \in Users!Present(users) =>
                 \/ crashes > 0 /\ SetByStart(users[t])
                 \/ \E q \in applied : /\ users[t].pw = q
                                       /\ req[q].kind \in PasswordKinds
                                       /\ req[q].target = t
  BY <1>3, MemoryIsAVersion DEF PasswordsSet
<1>4. CASE req[r].kind \in PasswordKinds /\ req[r].target = t
  <2>1. t \in Users!Present(users) /\ users' = [users EXCEPT ![t].pw = r]
    BY <1>4, WriteForms DEF PasswordKinds, RegisterKinds
  <2>2. t \in Id /\ users[t] \in Users!UserInfo
    BY <1>0, <2>1 DEF Users!Present, Users!Database
  <2>3. users'[t].pw = r
    BY <1>0, <2>1, <2>2 DEF Users!Database, Users!UserInfo
  <2>4. t \in Req => req[t].pc \notin Before
    BY <2>1, PresentHasWritten
  <2> QED
    BY <1>0, <1>4, <2>3, <2>4
<1>5. CASE ~(req[r].kind \in PasswordKinds /\ req[r].target = t)
  <2>1. p \in applied
    BY <1>0, <1>5
  <2>2. t # r
    BY <1>3, <2>1, WriteMoves DEF Before
  <2>3. ASSUME t \in Users!Present(users')
        PROVE /\ t \in Users!Present(users)
              /\ users'[t].pw = users[t].pw /\ users'[t].name = users[t].name
    <3>1. t \in Id
      BY <2>3 DEF Users!Present
    <3> QED
      BY <1>5, <2>2, <2>3, <3>1, WriteElsewhere
  <2> QED
    BY <1>0, <1>3, <2>1, <2>3, CrashesGrow DEF SetByStart
<1> QED
  BY <1>4, <1>5

\* A handler has written when it is at its save or past it.
LEMMA WrittenBefore ==
  ASSUME TypeOK, [Next]_vars, NEW r \in Req, ~Write(r),
         req'[r].kind \in PasswordKinds, req'[r].pc \in Wrote
  PROVE /\ req[r].pc \in Wrote
        /\ req'[r].kind = req[r].kind /\ req'[r].target = req[r].target
<1>0. req \in [Req -> Request]
  BY DEF TypeOK, RequestsOK
<1>1. ASSUME req[r].pc \in Wrote
      PROVE req'[r].kind = req[r].kind /\ req'[r].target = req[r].target
  BY <1>1, EveryoneMovesOn DEF MovesOn, Wrote, After, Before
<1>2. ASSUME Start(r) PROVE FALSE
  <2>1. ~Login(r) /\ ~Logout(r) /\ ~RegisterPage(r)
    BY <1>0 DEF Login, Logout, RegisterPage, Idle, PasswordKinds
  <2>2. ~Cookie(r)
    BY <1>0 DEF Cookie, Idle, Wrote, After
  <2>3. ~PeekLink(r)
    BY <1>0 DEF PeekLink, Idle, Wrote, After
  <2> QED
    BY <1>2, <2>1, <2>2, <2>3 DEF Start
<1>3. ASSUME NEW x, Go(r, x), x \notin Wrote PROVE FALSE
  BY <1>0, <1>3 DEF Go, Request
<1>4. ASSUME NEW x, NEW u, req' = [req EXCEPT ![r].pc = x, ![r].target = u], x \notin Wrote
      PROVE FALSE
  <2>1. req'[r] = [req[r] EXCEPT !.pc = x, !.target = u]
    BY <1>0, <1>4
  <2> QED
    BY <1>0, <1>4, <2>1 DEF Request
<1>5. ~Reject(r) /\ ~Refuse(r)
  BY <1>0 DEF Reject, Refuse, Idle, Wrote, After
<1>6. ~VerifyCaller(r) /\ ~CheckOldPassword(r) /\ ~WhoAmI(r)
  BY <1>3, <1>4 DEF VerifyCaller, CheckOldPassword, WhoAmI, Wrote, After
<1>7. ~LookUp(r)
  <2>1. ASSUME LookUp(r), req[r].kind = "alink" PROVE FALSE
    <3>1. req'[r].kind = "alink"
      BY <1>0, <2>1 DEF LookUp, Go, Request
    <3> QED
      BY <3>1 DEF PasswordKinds
  <2>2. ASSUME LookUp(r), req[r].kind # "alink" PROVE FALSE
    BY <1>3, <2>2 DEF LookUp, Wrote, After
  <2> QED
    BY <2>1, <2>2
<1>8. CASE Serve(r)
  <2>1. req[r].pc \in Wrote
    BY <1>5, <1>6, <1>7, <1>8
       DEF Serve, SaveNothing, SaveBegin, SaveCommit, SaveFail, ConsumeLink, SignOut,
           CreateSession, MintLink, MintFail, At, Wrote, After
  <2> QED
    BY <1>1, <2>1
<1>9. ASSUME req'[r] = req[r] PROVE req[r].pc \in Wrote
  BY <1>9
<1>10. ASSUME NEW p \in Req, p # r, Start(p) \/ Serve(p) PROVE req'[r] = req[r]
  BY <1>0, <1>10
     DEF Start, Serve, Login, Logout, Cookie, RegisterPage, PeekLink, WhoAmI, VerifyCaller,
         CheckOldPassword, LookUp, Reject, Write, Refuse, SaveNothing, SaveBegin, SaveCommit,
         SaveFail, ConsumeLink, SignOut, CreateSession, MintLink, MintFail, Go
<1>11. CASE Tick \/ Crash \/ UNCHANGED vars
  <2>1. req'[r] = req[r] \/ req'[r].pc = "lost"
    BY <1>11, CrashMoves DEF Tick, vars, TypeOK
  <2>2. req'[r] = req[r]
    BY <2>1 DEF Wrote, After
  <2> QED
    BY <1>1, <1>9, <2>2
<1> QED
  BY <1>1, <1>2, <1>8, <1>9, <1>10, <1>11 DEF Next

\* Memory changes by a write or a crash only.
LEMMA MemoryStep ==
  ASSUME [Next]_vars, \A r \in Req : ~Write(r), ~Crash
  PROVE UNCHANGED <<users, applied>>
  BY DEF Next, Start, Serve, vars, store, Login, Logout, Cookie, RegisterPage, PeekLink, WhoAmI,
         VerifyCaller, CheckOldPassword, LookUp, Reject, Refuse, SaveNothing, SaveBegin,
         SaveCommit, SaveFail, ConsumeLink, SignOut, CreateSession, MintLink, MintFail, Tick

LEMMA StillSetStep ==
  ASSUME TypeOK, DeletesStick, PasswordsStick, [Next]_vars, NEW r \in Req
  PROVE StillSet(r)'
<1> SUFFICES ASSUME ~Persistent, req'[r].kind \in PasswordKinds, req'[r].pc \in Wrote
             PROVE /\ req'[r].target \in Req => req'[req'[r].target].pc \notin Before
                   /\ r \in applied' \/ req'[r].target \notin Users!Present(users')
  BY DEF StillSet
<1>1. \A t \in Req : req[t].pc \notin Before => req'[t].pc \notin Before
  BY EveryoneMovesOn DEF MovesOn
<1>2. CASE Write(r)
  <2>1. /\ req'[r].kind = req[r].kind /\ req'[r].target = req[r].target /\ r \in applied'
    BY <1>2, WriteMoves
  <2>2. req[r].target \in Users!Present(users)
    BY <1>2, <2>1, WriteForms DEF PasswordKinds, RegisterKinds
  <2> QED
    BY <1>1, <2>1, <2>2, PresentHasWritten
<1>3. CASE ~Write(r)
  <2> DEFINE t == req[r].target
  <2>1. /\ req[r].pc \in Wrote
        /\ req'[r].kind = req[r].kind /\ req'[r].target = t
    BY <1>3, WrittenBefore
  <2>2. /\ t \in Req => req[t].pc \notin Before
        /\ r \in applied \/ t \notin Users!Present(users)
    BY <2>1 DEF PasswordsStick, StillSet
  <2>3. CASE \E p \in Req : Write(p)
    <3>1. PICK p \in Req : Write(p)
      BY <2>3
    <3>2. p # t /\ applied' = applied \cup {p} /\ users \in Users!Database
      BY <2>2, <3>1, WriteMoves DEF Before
    <3>3. NoUser \notin Id /\ NoUser \notin Users!UserInfo
      BY <3>1, WriteMoves
    <3>4. ASSUME t \notin Users!Present(users) PROVE t \notin Users!Present(users')
      <4>1. CASE \E i \in Users!UserInfo : users' = [users EXCEPT ![p] = i]
        BY <3>2, <3>4, <4>1 DEF Users!Present
      <4>2. CASE \E u \in Users!Present(users), i \in Users!UserInfo : users' = [users EXCEPT ![u] = i]
        BY <3>4, <4>2 DEF Users!Present
      <4>3. CASE users' = [users EXCEPT ![req[p].target] = NoUser]
        BY <3>2, <3>4, <4>3 DEF Users!Present, Users!Database
      <4> QED
        BY <3>1, <4>1, <4>2, <4>3, WriteCases
    <3> QED
      BY <1>1, <2>1, <2>2, <3>2, <3>4
  <2>4. CASE Crash
    <3>1. Users!Present(users') = {}
      BY <2>4, NobodyIsPresent DEF Crash
    <3> QED
      BY <1>1, <2>1, <2>2, <3>1
  <2>5. CASE ~Crash /\ \A p \in Req : ~Write(p)
    BY <1>1, <2>1, <2>2, <2>5, MemoryStep
  <2> QED
    BY <2>3, <2>4, <2>5
<1> QED
  BY <1>2, <1>3

LEMMA PasswordsStep ==
  TypeOK /\ DeletesStick /\ PasswordsStick /\ [Next]_vars => PasswordsStick'
<1> SUFFICES ASSUME TypeOK, DeletesStick, PasswordsStick, [Next]_vars PROVE PasswordsStick'
  OBVIOUS
<1>1. ASSUME NEW w \in Versions' PROVE PasswordsSet(w)'
  <2>1. CASE \E v \in Versions \cup {NoSnapshot} :
               v \in Snapshot /\ w \in Snapshot /\ Becomes(crashes', v, w)
    <3>1. PICK v \in Versions \cup {NoSnapshot} :
            v \in Snapshot /\ w \in Snapshot /\ Becomes(crashes', v, w)
      BY <2>1
    <3>2. Consistent(v)
      BY <3>1, VersionsKnown
    <3>3. PasswordsSet(v)
      BY <3>1 DEF PasswordsStick, PasswordsSet, NoSnapshot
    <3> QED
      BY <3>1, <3>2, <3>3, PasswordsSetStay
  <2>2. CASE \E r \in Req : Write(r) /\ w = Memory'
    <3>1. PasswordsSet(Memory)'
      BY <2>2, MemoryIsAVersion, WriteKeepsPasswords DEF PasswordsStick
    <3> QED
      BY <2>2, <3>1 DEF PasswordsSet
  <2> QED
    BY <1>1, <2>1, <2>2, NewVersions
<1>2. \A r \in Req : StillSet(r)'
  BY StillSetStep
<1> QED
  BY <1>1, <1>2 DEF PasswordsStick

\* ChangePassword, SetPassword and AdminResetPassword: once one of them was
\* answered with success, the password in force, in memory and in the file, is one
\* that such a request has set, or after a restart the one configured for the
\* user, whatever else is saved, fails and crashes.
THEOREM OldPasswordsAreRetired == Spec => []OldPasswordRetired
<1>1. Init => PasswordsStick
  BY DEF Init, PasswordsStick, PasswordsSet, StillSet, Versions, NoSnapshot, Idle, PasswordKinds
<1>2. TypeOK /\ SavesNest /\ DeletesStick /\ PasswordsStick => OldPasswordRetired
  <2> SUFFICES ASSUME TypeOK, SavesNest, DeletesStick, PasswordsStick,
                      NEW r \in Req, At(r, "ok"), req[r].kind \in PasswordKinds,
                      NEW db \in {users, file.db}, req[r].target \in Users!Present(db)
               PROVE \/ crashes > 0 /\ SetByStart(db[req[r].target])
                     \/ \E q \in Req : /\ db[req[r].target].pw = q
                                       /\ req[q].kind \in PasswordKinds
                                       /\ req[q].target = req[r].target
    BY DEF OldPasswordRetired, Acked
  <2>1. /\ PasswordsSet(Memory) /\ PasswordsSet(file)
        /\ applied \subseteq Req /\ file.log \subseteq Req
    BY MemoryIsAVersion DEF PasswordsStick, Versions, TypeOK, HistoryOK, DiskOK, Snapshot
  <2>2. CASE Persistent
    <3>1. r \in file.log /\ r \in applied
      BY <2>2 DEF SavesNest, SaveInOrder, At, After, Mutating
    <3> QED
      BY <2>1, <3>1, MemoryIsAVersion DEF PasswordsSet
  <2>3. CASE ~Persistent
    <3>1. Users!Present(file.db) = {}
      BY <2>3, NobodyIsPresent DEF DeletesStick, NoSnapshot
    <3>2. db = users
      BY <3>1
    <3>3. r \in applied
      BY <2>3, <3>2 DEF PasswordsStick, StillSet, At, Wrote, After
    <3> QED
      BY <2>1, <3>2, <3>3, MemoryIsAVersion DEF PasswordsSet
  <2> QED
    BY <2>2, <2>3
<1> QED
  BY <1>1, <1>2, PasswordsStep, AccountsTypes, SavesAlwaysNest, DeletesAlwaysStick, PTL DEF Spec

(***************************************************************************)
(* Reset links.                                                            *)
(***************************************************************************)
\* A step is p's own, or a crash that hits p, or leaves p where it is.
LEMMA OwnStep ==
  ASSUME TypeOK, [Next]_vars, NEW p \in Req
  PROVE \/ Start(p) \/ Serve(p)
        \/ Crash /\ req[p].pc \notin Ended /\ req'[p] = [req[p] EXCEPT !.pc = "lost"]
        \/ req'[p] = req[p]
<1>0. req \in [Req -> Request]
  BY DEF TypeOK, RequestsOK
<1>1. ASSUME NEW r \in Req, p # r, Start(r) \/ Serve(r) PROVE req'[p] = req[p]
  BY <1>0, <1>1
     DEF Start, Serve, Login, Logout, Cookie, RegisterPage, PeekLink, WhoAmI, VerifyCaller,
         CheckOldPassword, LookUp, Reject, Write, Refuse, SaveNothing, SaveBegin, SaveCommit,
         SaveFail, ConsumeLink, SignOut, CreateSession, MintLink, MintFail, Go
<1>2. RequestsOK
  BY DEF TypeOK
<1> QED
  BY <1>1, <1>2, CrashMoves DEF Next, Tick, vars

\* What is answered stays answered.
LEMMA EndedStays ==
  ASSUME TypeOK, [Next]_vars, NEW p \in Req, req[p].pc \in Ended
  PROVE req'[p] = req[p]
<1>1. ~Start(p)
  BY DEF Start, Login, Logout, Cookie, RegisterPage, PeekLink, At, Ended
<1>2. ~Serve(p)
  BY DEF Serve, WhoAmI, VerifyCaller, CheckOldPassword, LookUp, Reject, Write, Refuse, SaveNothing,
         SaveBegin, SaveCommit, SaveFail, ConsumeLink, SignOut, CreateSession, MintLink, MintFail,
         At, Ended
<1> QED
  BY <1>1, <1>2, OwnStep

\* The two maps agree, a minted token is the last thing its request does, and a
\* link that SetPassword has consumed is gone.
LinkOf(r) ==
  /\ byToken[r] # Unborn => req[r].pc \in Ended
  /\ req[r].kind = "setpw" =>
       /\ byToken[req[r].token] # Unborn
       /\ req[r].pc \in {"purge", "ok"} => ~Links!Known(req[r].token)

LinksHold == Links!MapsAgree /\ \A r \in Req : LinkOf(r)

\* The critical sections of the store keep its maps in agreement.
LEMMA MapsKept ==
  ASSUME Links!TypeOK, Links!MapsAgree,
         \/ \E t \in Req : Links!Peek(t) \/ Links!Consume(t)
         \/ \E t \in Req, u \in Id : Links!Create(t, u)
         \/ Links!Forget
  PROVE Links!MapsAgree'
<1> USE DEF Links!TypeOK, Links!MapsAgree, Links!Known
<1>0. /\ NoToken \notin Req /\ \A e \in Links!Entry : e \notin Links!NoEntry
      /\ {Unborn, Gone, Consumed} = Links!NoEntry
  BY NameAssumption, SlotAssumption DEF Id, Links!NoEntry
<1>1. ASSUME NEW t \in Req, NEW fate \in {Gone, Consumed}, Links!Known(t), Links!Remove(t, fate)
      PROVE Links!MapsAgree'
  <2>1. byToken' = [byToken EXCEPT ![t] = fate] /\ fate \in Links!NoEntry
    BY <1>0, <1>1 DEF Links!Remove
  <2>2. byToken[t].user \in Id /\ byUser[byToken[t].user] = t
    BY <1>1 DEF Links!Entry
  <2>3. byUser' = [byUser EXCEPT ![byToken[t].user] = NoToken]
    BY <1>1, <2>2 DEF Links!Remove
  <2>4. \A x \in Req : byToken[x] \notin Links!NoEntry => byToken[x].user \in Id
    BY DEF Links!Entry
  <2> QED
    BY <1>0, <2>1, <2>2, <2>3, <2>4
<1>2. ASSUME NEW t \in Req, Links!Peek(t) \/ Links!Consume(t) PROVE Links!MapsAgree'
  <2>1. CASE UNCHANGED <<byToken, byUser>>
    BY <2>1
  <2>2. CASE Links!Known(t) /\ (Links!Remove(t, Gone) \/ Links!Remove(t, Consumed))
    BY <1>1, <2>2
  <2> QED
    BY <1>2, <2>1, <2>2 DEF Links!Peek, Links!Consume
<1>3. ASSUME NEW t \in Req, NEW u \in Id, Links!Create(t, u) PROVE Links!MapsAgree'
  <2> DEFINE e == [user |-> u, expiresAt |-> now + TTL]
  <2>1. e \in Links!Entry /\ e.user = u
    BY BoundAssumption DEF Links!Entry
  <2>2. /\ byToken[t] = Unborn /\ byUser' = [byUser EXCEPT ![u] = t]
        /\ byToken' = [x \in Req |-> IF x = t THEN e ELSE IF x = byUser[u] THEN Gone ELSE byToken[x]]
    BY <1>3 DEF Links!Create
  <2>3. \A x \in Req : byToken[x] \notin Links!NoEntry => byToken[x].user \in Id
    BY DEF Links!Entry
  <2> HIDE DEF e
  <2>4. \A x \in Req : byToken'[x] \notin Links!NoEntry => byUser'[byToken'[x].user] = x
    BY <1>0, <2>1, <2>2, <2>3
  <2>5. \A v \in Id : byUser'[v] # NoToken =>
          byToken'[byUser'[v]] \notin Links!NoEntry /\ byToken'[byUser'[v]].user = v
    BY <1>0, <2>1, <2>2, <2>3
  <2> QED
    BY <2>4, <2>5
<1>4. ASSUME Links!Forget PROVE Links!MapsAgree'
  BY <1>0, <1>4 DEF Links!Forget
<1> QED
  BY <1>2, <1>3, <1>4

\* What a step can do to the store, and who does it.
LEMMA StoreStep ==
  ASSUME TypeOK, [Next]_vars
  PROVE \/ \E r \in Req : PeekLink(r)
        \/ \E r \in Req : ConsumeLink(r)
        \/ \E r \in Req : MintLink(r)
        \/ Crash
        \/ UNCHANGED <<byToken, byUser>>
  BY DEF Next, Start, Serve, vars, store, links, Login, Logout, Cookie, RegisterPage, WhoAmI,
         VerifyCaller, CheckOldPassword, LookUp, Reject, Write, Refuse, SaveNothing, SaveBegin,
         SaveCommit, SaveFail, SignOut, CreateSession, MintFail, Tick

LEMMA MapsStep == TypeOK /\ Links!MapsAgree /\ [Next]_vars => Links!MapsAgree'
<1> SUFFICES ASSUME TypeOK, Links!MapsAgree, [Next]_vars PROVE Links!MapsAgree'
  OBVIOUS
<1>0. Links!TypeOK /\ RequestsOK
  BY DEF TypeOK, TablesOK
<1>1. ASSUME NEW r \in Req, PeekLink(r) PROVE Links!MapsAgree'
  BY <1>0, <1>1, MapsKept DEF PeekLink
<1>2. ASSUME NEW r \in Req, ConsumeLink(r) PROVE Links!MapsAgree'
  <2>1. req[r].token \in Req
    BY <1>0, <1>2, KindsAt DEF ConsumeLink
  <2> QED
    BY <1>0, <1>2, <2>1, MapsKept DEF ConsumeLink
<1>3. ASSUME NEW r \in Req, MintLink(r) PROVE Links!MapsAgree'
  <2>1. req[r].target \in Id
    BY <1>0, <1>3, KindsAt DEF MintLink, At, Aimed
  <2> QED
    BY <1>0, <1>3, <2>1, MapsKept DEF MintLink
<1>4. CASE Crash
  BY <1>0, <1>4, MapsKept DEF Crash
<1>5. CASE UNCHANGED <<byToken, byUser>>
  BY <1>5 DEF Links!MapsAgree, Links!Known
<1> QED
  BY <1>1, <1>2, <1>3, <1>4, <1>5, StoreStep

\* A token is minted once, by its own request, and known from then until it
\* goes for good.
LEMMA TokenMoves ==
  ASSUME TypeOK, Links!MapsAgree, [Next]_vars, NEW t \in Req
  PROVE /\ byToken[t] # Unborn => byToken'[t] # Unborn
        /\ byToken'[t] # Unborn => byToken[t] # Unborn \/ MintLink(t)
        /\ Links!Known(t)' => Links!Known(t) \/ MintLink(t)
<1> USE DEF Links!TypeOK, Links!Known
<1>0. /\ NoToken \notin Req /\ Unborn \in Links!NoEntry
      /\ {Gone, Consumed} \subseteq Links!NoEntry \ {Unborn}
      /\ Links!TypeOK /\ RequestsOK
  BY NameAssumption, SlotAssumption DEF Id, Links!NoEntry, TypeOK, TablesOK
<1>1. ASSUME NEW x \in Req, NEW fate \in {Gone, Consumed}, Links!Known(x), Links!Remove(x, fate)
      PROVE /\ byToken[t] # Unborn => byToken'[t] # Unborn
            /\ byToken'[t] # Unborn => byToken[t] # Unborn
            /\ byToken'[t] \notin Links!NoEntry => byToken[t] \notin Links!NoEntry
  BY <1>0, <1>1 DEF Links!Remove
<1>2. ASSUME NEW x \in Req, Links!Peek(x) \/ Links!Consume(x)
      PROVE /\ byToken[t] # Unborn => byToken'[t] # Unborn
            /\ byToken'[t] # Unborn => byToken[t] # Unborn
            /\ byToken'[t] \notin Links!NoEntry => byToken[t] \notin Links!NoEntry
  <2>1. CASE UNCHANGED <<byToken, byUser>>
    BY <2>1
  <2>2. CASE Links!Known(x) /\ (Links!Remove(x, Gone) \/ Links!Remove(x, Consumed))
    BY <1>1, <2>2
  <2> QED
    BY <1>2, <2>1, <2>2 DEF Links!Peek, Links!Consume
<1>3. ASSUME NEW r \in Req, PeekLink(r) PROVE \E x \in Req : Links!Peek(x)
  BY <1>3 DEF PeekLink
<1>4. ASSUME NEW r \in Req, ConsumeLink(r) PROVE \E x \in Req : Links!Consume(x)
  BY <1>0, <1>4, KindsAt DEF ConsumeLink
<1>5. ASSUME NEW r \in Req, MintLink(r), t # r
      PROVE /\ byToken[t] # Unborn => byToken'[t] # Unborn
            /\ byToken'[t] # Unborn => byToken[t] # Unborn
            /\ byToken'[t] \notin Links!NoEntry => byToken[t] \notin Links!NoEntry
  <2>1. req[r].target \in Id
    BY <1>0, <1>5, KindsAt DEF MintLink, At, Aimed
  <2>2. byToken'[t] = IF t = byUser[req[r].target] THEN Gone ELSE byToken[t]
    BY <1>5 DEF MintLink, Links!Create
  <2>3. t = byUser[req[r].target] => byToken[t] \notin Links!NoEntry
    BY <1>0, <2>1 DEF Links!MapsAgree
  <2> QED
    BY <1>0, <2>2, <2>3
<1>6. ASSUME MintLink(t) PROVE byToken[t] = Unborn
  BY <1>6 DEF MintLink, Links!Create
<1>7. CASE Crash
  BY <1>0, <1>7 DEF Crash, Links!Forget
<1> QED
  BY <1>2, <1>3, <1>4, <1>5, <1>6, <1>7, StoreStep

\* SetPassword keeps the token it has peeked at, and is done with it only after
\* it has consumed it.
LEMMA TokenKept ==
  ASSUME TypeOK, [Next]_vars, NEW r \in Req, ~PeekLink(r), req'[r].kind = "setpw"
  PROVE /\ req[r].kind = "setpw" /\ req'[r].token = req[r].token
        /\ req'[r].pc \in {"purge", "ok"} => req[r].pc \in {"purge", "ok"} \/ ConsumeLink(r)
<1>0. req \in [Req -> Request] /\ RequestsOK
  BY DEF TypeOK, RequestsOK
<1>1. ~Start(r)
  <2>1. ~Login(r) /\ ~Logout(r) /\ ~RegisterPage(r)
    BY <1>0 DEF Login, Logout, RegisterPage, Idle
  <2>2. ~Cookie(r)
    BY <1>0 DEF Cookie, Idle, AdminKinds
  <2> QED
    BY <2>1, <2>2 DEF Start
<1>2. ~Reject(r) /\ ~Refuse(r)
  BY <1>0 DEF Reject, Refuse, Idle
<1>3. ASSUME NEW x, Go(r, x)
      PROVE req'[r].kind = req[r].kind /\ req'[r].token = req[r].token /\ req'[r].pc = x
  BY <1>0, <1>3 DEF Go, Request
<1>4. ASSUME NEW x, NEW u, req' = [req EXCEPT ![r].pc = x, ![r].target = u]
      PROVE req'[r].kind = req[r].kind /\ req'[r].token = req[r].token /\ req'[r].pc = x
  <2>1. req'[r] = [req[r] EXCEPT !.pc = x, !.target = u]
    BY <1>0, <1>4
  <2> QED
    BY <1>0, <2>1 DEF Request
<1>5. CASE WhoAmI(r) \/ VerifyCaller(r) \/ CheckOldPassword(r) \/ LookUp(r) \/ Write(r)
  <2>1. \E x \in {"check", "look", "verify", "write", "mint", "save"} :
          Go(r, x) \/ \E u : req' = [req EXCEPT ![r].pc = x, ![r].target = u]
    BY <1>5 DEF WhoAmI, VerifyCaller, CheckOldPassword, LookUp, Write
  <2> QED
    BY <1>3, <1>4, <2>1
<1>6. CASE SaveNothing(r) \/ SaveBegin(r) \/ SaveCommit(r) \/ SaveFail(r) \/ MintFail(r)
  <2>1. PICK x \in {"rename", "error", AfterSave(req[r].kind)} : Go(r, x)
    BY <1>6 DEF SaveNothing, SaveBegin, SaveCommit, SaveFail, MintFail
  <2>2. req[r].kind = "setpw"
    BY <1>3, <2>1
  <2>3. x \notin {"purge", "ok"}
    BY <2>2 DEF AfterSave
  <2> QED
    BY <1>3, <2>1, <2>3
<1>7. CASE SignOut(r)
  BY <1>3, <1>7 DEF SignOut, At
<1>8. CASE CreateSession(r) \/ MintLink(r)
  BY <1>0, <1>3, <1>8, KindsAt DEF CreateSession, MintLink
<1>9. CASE ConsumeLink(r)
  BY <1>3, <1>9 DEF ConsumeLink
<1>10. CASE Crash /\ req'[r] = [req[r] EXCEPT !.pc = "lost"]
  BY <1>0, <1>10 DEF Request
<1> QED
  BY <1>1, <1>2, <1>5, <1>6, <1>7, <1>8, <1>9, <1>10, OwnStep DEF Serve

LEMMA LinkOfStep ==
  ASSUME TypeOK, TypeOK', LinksHold, [Next]_vars, NEW r \in Req
  PROVE LinkOf(r)'
<1>0. Links!MapsAgree /\ LinkOf(r) /\ \A t \in Req : LinkOf(t)
  BY DEF LinksHold
<1>1. ASSUME byToken'[r] # Unborn PROVE req'[r].pc \in Ended
  <2>1. CASE byToken[r] # Unborn
    BY <1>0, <2>1, EndedStays DEF LinkOf
  <2>2. CASE MintLink(r)
    BY <2>2 DEF MintLink, Go, TypeOK, RequestsOK, Request, Ended
  <2> QED
    BY <1>0, <1>1, <2>1, <2>2, TokenMoves
<1>2. ASSUME NEW t \in Req, byToken[t] # Unborn, ~Links!Known(t)
      PROVE ~Links!Known(t)'
  BY <1>0, <1>2, TokenMoves DEF MintLink, Links!Create
<1>3. CASE PeekLink(r)
  <2>1. PICK t \in Req :
          /\ Links!Known(t)
          /\ req' = [req EXCEPT ![r] =
                       IF Links!Valid(t)
                         THEN [pc |-> "look", kind |-> "setpw", actor |-> NoUser,
                               target |-> byToken[t].user, token |-> t]
                         ELSE [Idle EXCEPT !.pc = "fail"]]
    BY <1>3 DEF PeekLink
  <2>2. byToken[t] # Unborn
    BY <2>1 DEF Links!Known, Links!NoEntry
  <2>3. byToken'[t] # Unborn
    BY <1>0, <2>2, TokenMoves
  <2>4. req'[r].kind = "setpw" => req'[r].token = t /\ req'[r].pc = "look"
    BY <2>1 DEF Idle, TypeOK, RequestsOK
  <2> QED
    BY <1>1, <2>3, <2>4 DEF LinkOf, Links!Known
<1>4. ASSUME ~PeekLink(r), req'[r].kind = "setpw"
      PROVE /\ byToken'[req'[r].token] # Unborn
            /\ req'[r].pc \in {"purge", "ok"} => byToken'[req'[r].token] \in Links!NoEntry
  <2> DEFINE t == req[r].token
  <2>1. req[r].kind = "setpw" /\ req'[r].token = t
    BY <1>4, TokenKept
  <2>2. t \in Req
    BY <2>1, KindsAt DEF TypeOK
  <2>3. byToken[t] # Unborn /\ byToken'[t] # Unborn
    BY <1>0, <2>1, <2>2, TokenMoves DEF LinkOf
  <2>4. CASE ConsumeLink(r)
    <3>1. Links!Consume(t) /\ Links!TypeOK
      BY <2>4 DEF ConsumeLink, TypeOK, TablesOK
    <3>2. byToken'[t] \in Links!NoEntry
      BY <2>2, <3>1
         DEF Links!Consume, Links!Remove, Links!Known, Links!NoEntry, Links!TypeOK
    <3> QED
      BY <2>1, <2>3, <3>2 DEF Links!Known
  <2>5. CASE req[r].pc \in {"purge", "ok"}
    <3>1. ~Links!Known(t)
      BY <1>0, <2>1, <2>5 DEF LinkOf
    <3> QED
      BY <1>2, <2>1, <2>2, <2>3, <3>1 DEF Links!Known
  <2> QED
    BY <1>4, <2>1, <2>3, <2>4, <2>5, TokenKept
<1> QED
  BY <1>1, <1>3, <1>4 DEF LinkOf, Links!Known

LEMMA LinksHoldStep == TypeOK /\ TypeOK' /\ LinksHold /\ [Next]_vars => LinksHold'
  BY MapsStep, LinkOfStep DEF LinksHold

LEMMA LinksAlwaysHold == Spec => []LinksHold
<1>1. Init => LinksHold
  <2> SUFFICES ASSUME Init PROVE LinksHold
    OBVIOUS
  <2>1. Links!MapsAgree
    BY DEF Init, Links!Init, Links!MapsAgree, Links!Known, Links!NoEntry
  <2>2. \A r \in Req : LinkOf(r)
    BY DEF Init, Links!Init, LinkOf, Idle
  <2> QED
    BY <2>1, <2>2 DEF LinksHold
<1> QED
  BY <1>1, LinksHoldStep, AccountsTypes, PTL DEF Spec

\* When SetPassword has answered with success its link does not work any more,
\* and is never minted again.
THEOREM LinksAreSpent == Spec => []LinkSpentWhenDone
<1>1. LinksHold => LinkSpentWhenDone
  BY DEF LinksHold, LinkOf, LinkSpentWhenDone, At
<1> QED
  BY <1>1, LinksAlwaysHold, PTL

\* SetPassword consumes a link only after its password is in the file, so a
\* link that was not superseded, aged out or lost in a crash still works after
\* a save that failed.
THEOREM LinksBurnOnlyWhenDurable == Spec => LinkBurnedOnlyWhenDurable
<1> DEFINE Burned(t) ==
      \/ Links!Expired(t) \/ crashes' # crashes
      \/ \E r \in Req : At(r, "mint") /\ req[r].target = byToken[t].user
      \/ \E r \in Req : /\ At(r, "consume") /\ req[r].token = t
                        /\ Persistent => r \in file.log
<1>1. TypeOK /\ SavesNest /\ LinksHold /\ [Next]_vars =>
        [\A t \in Req : Links!Known(t) /\ byToken'[t] \in {Gone, Consumed} => Burned(t)]_vars
  <2> SUFFICES ASSUME TypeOK, SavesNest, LinksHold, [Next]_vars, NEW t \in Req,
                      Links!Known(t), byToken'[t] \in {Gone, Consumed}
               PROVE Burned(t)
    OBVIOUS
  <2>0. /\ Links!TypeOK /\ RequestsOK /\ Links!MapsAgree
        /\ byToken[t] \notin {Gone, Consumed} /\ byToken'[t] # byToken[t]
    BY DEF TypeOK, TablesOK, LinksHold, Links!Known, Links!NoEntry
  <2>1. ASSUME NEW r \in Req, PeekLink(r) PROVE Burned(t)
    <3>1. PICK x \in Req : Links!Peek(x)
      BY <2>1 DEF PeekLink
    <3> QED
      BY <2>0, <3>1 DEF Links!Peek, Links!Remove, Links!TypeOK
  <2>2. ASSUME NEW r \in Req, ConsumeLink(r) PROVE Burned(t)
    <3>1. At(r, "consume") /\ Links!Consume(req[r].token) /\ req[r].kind = "setpw"
      BY <2>0, <2>2, KindsAt DEF ConsumeLink
    <3>2. req[r].token = t
      BY <2>0, <3>1 DEF Links!Consume, Links!Remove, Links!TypeOK
    <3>3. Persistent => r \in file.log
      BY <3>1 DEF SavesNest, SaveInOrder, At, After, Mutating, PasswordKinds
    <3> QED
      BY <3>1, <3>2, <3>3
  <2>3. ASSUME NEW r \in Req, MintLink(r) PROVE Burned(t)
    <3> DEFINE u == req[r].target
    <3>1. At(r, "mint") /\ Links!Create(r, u) /\ u \in Id
      BY <2>0, <2>3, KindsAt DEF MintLink, At, Aimed
    <3>2. t # r
      BY <3>1 DEF Links!Create, Links!Known, Links!NoEntry
    <3>3. t = byUser[u]
      BY <2>0, <3>1, <3>2 DEF Links!Create
    <3>4. byToken[t].user = u
      BY <2>0, <3>1, <3>3, NameAssumption DEF Links!MapsAgree, Id
    <3> QED
      BY <3>1, <3>4
  <2>4. CASE Crash
    BY <2>4 DEF Crash, TypeOK
  <2> QED
    BY <2>0, <2>1, <2>2, <2>3, <2>4, StoreStep
<1> QED
  BY <1>1, AccountsTypes, SavesAlwaysNest, LinksAlwaysHold, PTL DEF Spec, LinkBurnedOnlyWhenDurable

(***************************************************************************)
(* Sessions.                                                               *)
(***************************************************************************)
\* What s was proved with is u's password, or its handler is to sign u out, or
\* s was overtaken; but counts nobody's intention to do so.
Explained(s, u, but) ==
  u \in Users!Present(users) =>
    cred[s] = users[u].pw \/ s \in overtaken \/ \E p \in Unpurged(u) : p # but

\* A user that is signed in, or signing in, is not about to be registered.
SessionOf(s) ==
  Sessions!Live(s) =>
    /\ Explained(s, sessions[s], NoReq)
    /\ sessions[s] \in Req => req[sessions[s]].pc \notin Before

SignInOf(q) ==
  SigningIn(q) =>
    /\ Explained(q, req[q].target, q)
    /\ req[q].target \in Req => req[req[q].target].pc \notin Before

SigningInOf(q) ==
  /\ sessions[q] # Unborn => req[q].pc \in Ended
  /\ SignInOf(q)
  /\ req[q].kind = "register" => req[q].target = q

SessionsHold == (\A s \in Id : SessionOf(s)) /\ (\A q \in Req : SigningInOf(q))

\* What a step can do to sessions and to what they were proved with.
LEMMA SessionsUntouched ==
  ASSUME [Next]_vars, ~Crash,
         \A r \in Req : /\ ~Login(r) /\ ~Logout(r) /\ ~CheckOldPassword(r)
                        /\ ~Write(r) /\ ~SignOut(r) /\ ~CreateSession(r)
  PROVE UNCHANGED <<users, sessions, cred, overtaken>>
  BY DEF Next, Start, Serve, vars, store, Cookie, RegisterPage, PeekLink, WhoAmI, VerifyCaller,
         LookUp, Reject, Refuse, SaveNothing, SaveBegin, SaveCommit, SaveFail, ConsumeLink,
         MintLink, MintFail, Tick

\* A request signs in from the moment it has proved or set a password.
LEMMA SigningInBefore ==
  ASSUME TypeOK, [Next]_vars, NEW q \in Req, SigningIn(q)', ~Login(q), ~Write(q)
  PROVE /\ SigningIn(q)
        /\ req'[q].kind = req[q].kind /\ req'[q].target = req[q].target
<1>0. req \in [Req -> Request] /\ RequestsOK
  BY DEF TypeOK, RequestsOK
<1>1. ASSUME req[q].pc \in {"save", "rename", "purge", "session"}
      PROVE SigningIn(q) /\ req'[q].kind = req[q].kind /\ req'[q].target = req[q].target
  BY <1>1, EveryoneMovesOn DEF MovesOn, Before, SigningIn
<1>2. ~Start(q)
  <2>1. ~Logout(q) /\ ~Cookie(q) /\ ~RegisterPage(q)
    BY <1>0 DEF Logout, Cookie, RegisterPage, Idle, SigningIn
  <2>2. ~PeekLink(q)
    BY <1>0 DEF PeekLink, Idle, SigningIn
  <2> QED
    BY <2>1, <2>2 DEF Start
<1>3. ~Reject(q) /\ ~Refuse(q)
  BY <1>0 DEF Reject, Refuse, Idle, SigningIn
<1>4. ASSUME NEW x, Go(q, x) PROVE req'[q].pc = x
  BY <1>0, <1>4 DEF Go, Request
<1>5. ASSUME NEW x, NEW u, req' = [req EXCEPT ![q].pc = x, ![q].target = u] PROVE req'[q].pc = x
  <2>1. req'[q] = [req[q] EXCEPT !.pc = x, !.target = u]
    BY <1>0, <1>5
  <2> QED
    BY <1>0, <2>1 DEF Request
<1>6. CASE WhoAmI(q) \/ VerifyCaller(q) \/ CheckOldPassword(q) \/ LookUp(q)
  <2>1. \E x \in {"check", "look", "verify", "write", "mint"} :
          Go(q, x) \/ \E u : req' = [req EXCEPT ![q].pc = x, ![q].target = u]
    BY <1>6 DEF WhoAmI, VerifyCaller, CheckOldPassword, LookUp
  <2> QED
    BY <1>4, <1>5, <2>1 DEF SigningIn
<1>7. CASE SaveNothing(q) \/ SaveBegin(q) \/ SaveCommit(q) \/ SaveFail(q) \/ SignOut(q) \/ CreateSession(q)
  BY <1>1, <1>7 DEF SaveNothing, SaveBegin, SaveCommit, SaveFail, SignOut, CreateSession, At
<1>8. CASE MintLink(q) \/ MintFail(q)
  BY <1>4, <1>8 DEF MintLink, MintFail, SigningIn
<1>9. CASE ConsumeLink(q)
  <2>1. req[q].kind = "setpw" /\ Go(q, "purge")
    BY <1>0, <1>9, KindsAt DEF ConsumeLink
  <2>2. req'[q].kind = "setpw"
    BY <1>0, <2>1 DEF Go, Request
  <2> QED
    BY <2>2 DEF SigningIn
<1>10. CASE Crash /\ req'[q] = [req[q] EXCEPT !.pc = "lost"]
  BY <1>0, <1>10 DEF Request, SigningIn
<1>11. CASE req'[q] = req[q]
  BY <1>1, <1>11 DEF SigningIn
<1> QED
  BY <1>2, <1>3, <1>6, <1>7, <1>8, <1>9, <1>10, <1>11, OwnStep DEF Serve

\* A handler that is to sign its user out does so, or dies.
LEMMA UnpurgedStays ==
  ASSUME TypeOK, [Next]_vars, ~Crash, NEW u \in Id, NEW p \in Unpurged(u), ~SignOut(p)
  PROVE p \in Unpurged(u)'
<1>0. /\ req \in [Req -> Request] /\ RequestsOK /\ p \in Req
      /\ req[p].kind \in PasswordKinds /\ req[p].target = u
      /\ req[p].pc \in {"save", "rename", "consume", "purge", "error"}
  BY DEF TypeOK, RequestsOK, Unpurged
<1>1. req'[p].kind = req[p].kind /\ req'[p].target = req[p].target
  BY <1>0, EveryoneMovesOn DEF MovesOn, Before
<1>2. ~Start(p)
  BY <1>0 DEF Start, Login, Logout, Cookie, RegisterPage, PeekLink, At
<1>3. ASSUME NEW x \in {"save", "rename", "consume", "purge", "error"}, Go(p, x)
      PROVE req'[p].pc = x
  BY <1>0, <1>3 DEF Go, Request
<1>4. AfterSave(req[p].kind) \in {"consume", "purge"}
  BY <1>0 DEF AfterSave, PasswordKinds
<1>5. CASE Serve(p)
  <2>1. \/ SaveNothing(p) \/ SaveBegin(p) \/ SaveCommit(p) \/ SaveFail(p) \/ ConsumeLink(p)
    BY <1>0, <1>5
       DEF Serve, WhoAmI, VerifyCaller, CheckOldPassword, LookUp, Reject, Write, Refuse,
           CreateSession, MintLink, MintFail, At
  <2>2. \E x \in {"save", "rename", "consume", "purge", "error"} : Go(p, x)
    BY <1>4, <2>1 DEF SaveNothing, SaveBegin, SaveCommit, SaveFail, ConsumeLink
  <2> QED
    BY <1>0, <1>1, <1>3, <2>2 DEF Unpurged
<1>6. CASE req'[p] = req[p]
  BY <1>0, <1>6 DEF Unpurged
<1> QED
  BY <1>0, <1>2, <1>5, <1>6, OwnStep

\* One request signs out at a time.
LEMMA OneSignsOut ==
  ASSUME TypeOK, NEW r \in Req, NEW p \in Req, SignOut(r), SignOut(p)
  PROVE p = r
<1>1. req'[p].pc \in {"session", "ok"} /\ req[p].pc = "purge"
  BY DEF SignOut, Go, AfterPurge, At, TypeOK, RequestsOK, Request
<1>2. p # r => req'[p] = req[p]
  BY DEF SignOut, Go, TypeOK, RequestsOK
<1> QED
  BY <1>1, <1>2

LEMMA ExplainedStays ==
  ASSUME TypeOK, [Next]_vars, ~Crash, NEW s \in Id, NEW u \in Id, NEW but,
         Explained(s, u, but), cred'[s] = cred[s], overtaken \subseteq overtaken',
         u \in Users!Present(users') => u \in Users!Present(users) /\ users'[u].pw = users[u].pw,
         \A p \in Unpurged(u) : p # but => ~SignOut(p)
  PROVE Explained(s, u, but)'
<1>1. ASSUME NEW p \in Unpurged(u), p # but PROVE p \in Unpurged(u)'
  BY <1>1, UnpurgedStays
<1> QED
  BY <1>1 DEF Explained

\* The promises about a session s of u, or about a request q that signs u in.
LEMMA SessionHolds ==
  ASSUME TypeOK, [Next]_vars, NEW s \in Id, NEW u \in Id, sessions'[s] = u,
         Explained(s, u, NoReq)', u \in Req => req[u].pc \notin Before
  PROVE SessionOf(s)'
<1>1. u \in Req => req'[u].pc \notin Before
  BY EveryoneMovesOn DEF MovesOn
<1> QED
  BY <1>1 DEF SessionOf, Explained, Unpurged

LEMMA SigningInHolds ==
  ASSUME TypeOK, [Next]_vars, NEW q \in Req, NEW u \in Id, req'[q].target = u,
         Explained(q, u, q)', u \in Req => req[u].pc \notin Before
  PROVE SignInOf(q)'
<1>1. u \in Req => req'[u].pc \notin Before
  BY EveryoneMovesOn DEF MovesOn
<1> QED
  BY <1>1 DEF Explained, Unpurged, SignInOf

\* A session, or a request that signs in, that a step does not touch.
LEMMA SessionKept ==
  ASSUME TypeOK, SessionsHold, [Next]_vars, ~Crash, NEW s \in Id, Sessions!Live(s)',
         sessions'[s] = sessions[s], cred'[s] = cred[s], overtaken \subseteq overtaken',
         sessions[s] \in Users!Present(users') =>
           /\ sessions[s] \in Users!Present(users)
           /\ users'[sessions[s]].pw = users[sessions[s]].pw,
         \A p \in Unpurged(sessions[s]) : ~SignOut(p)
  PROVE SessionOf(s)'
<1>1. PICK u \in Id : u = sessions[s]
  BY DEF TypeOK, TablesOK, Sessions!TypeOK, Sessions!Live
<1>2. SessionOf(s) /\ Sessions!Live(s)
  BY DEF SessionsHold, Sessions!Live
<1>3. Explained(s, u, NoReq) /\ (u \in Req => req[u].pc \notin Before)
  BY <1>1, <1>2 DEF SessionOf
<1>4. \A p \in Unpurged(u) : ~SignOut(p)
  BY <1>1
<1>5. Explained(s, u, NoReq)'
  BY <1>1, <1>3, <1>4, ExplainedStays
<1> QED
  BY <1>1, <1>3, <1>5, SessionHolds

LEMMA SigningInKept ==
  ASSUME TypeOK, SessionsHold, [Next]_vars, ~Crash, NEW q \in Req, SigningIn(q)',
         ~Login(q), ~Write(q), cred'[q] = cred[q], overtaken \subseteq overtaken',
         req[q].target \in Users!Present(users') =>
           /\ req[q].target \in Users!Present(users)
           /\ users'[req[q].target].pw = users[req[q].target].pw,
         \A p \in Unpurged(req[q].target) : p # q => ~SignOut(p)
  PROVE SignInOf(q)'
<1>1. SigningIn(q) /\ req'[q].target = req[q].target
  BY SigningInBefore
<1>2. PICK u \in Id : u = req[q].target
  BY <1>1, KindsAt DEF TypeOK, SigningIn, Aimed
<1>3. Explained(q, u, q) /\ (u \in Req => req[u].pc \notin Before)
  BY <1>1, <1>2 DEF SessionsHold, SigningInOf, SignInOf
<1>4. \A p \in Unpurged(u) : p # q => ~SignOut(p)
  BY <1>2
<1>5. q \in Id
  BY DEF Id
<1>6. Explained(q, u, q)'
  BY <1>2, <1>3, <1>4, <1>5, ExplainedStays
<1> QED
  BY <1>1, <1>2, <1>3, <1>6, SigningInHolds

\* Registrations through the public form register themselves.
LEMMA RegisterTarget ==
  ASSUME TypeOK, [Next]_vars, NEW q \in Req, req[q].kind = "register" => req[q].target = q,
         req'[q].kind = "register"
  PROVE req'[q].target = q
<1>0. req \in [Req -> Request] /\ RequestsOK
  BY DEF TypeOK, RequestsOK
<1>1. CASE Start(q)
  <2>1. ~Login(q) /\ ~Logout(q)
    BY <1>0 DEF Login, Logout, Idle
  <2>2. ~Cookie(q)
    BY <1>0 DEF Cookie, Idle, AdminKinds
  <2>3. ~PeekLink(q)
    BY <1>0 DEF PeekLink, Idle
  <2>4. CASE RegisterPage(q)
    BY <1>0, <2>4 DEF RegisterPage, Idle
  <2> QED
    BY <1>1, <2>1, <2>2, <2>3, <2>4 DEF Start
<1>2. ~Reject(q) /\ ~Refuse(q)
  BY <1>0 DEF Reject, Refuse, Idle
<1>3. ASSUME NEW x, Go(q, x) PROVE req'[q].kind = req[q].kind /\ req'[q].target = req[q].target
  BY <1>0, <1>3 DEF Go, Request
<1>4. ASSUME NEW x, NEW u, req' = [req EXCEPT ![q].pc = x, ![q].target = u]
      PROVE req'[q].kind = req[q].kind
  <2>1. req'[q] = [req[q] EXCEPT !.pc = x, !.target = u]
    BY <1>0, <1>4
  <2> QED
    BY <1>0, <2>1 DEF Request
<1>5. ~WhoAmI(q) /\ ~VerifyCaller(q) /\ ~CheckOldPassword(q)
  <2>1. ASSUME At(q, "verify") \/ At(q, "check") \/ req[q].kind \in AdminKinds \cup {"change"}
        PROVE req[q].kind # "register"
    BY <1>0, <2>1, KindsAt DEF AdminKinds
  <2>2. ASSUME WhoAmI(q) \/ VerifyCaller(q) \/ CheckOldPassword(q)
        PROVE \E x : Go(q, x) \/ \E u : req' = [req EXCEPT ![q].pc = x, ![q].target = u]
    BY <2>2 DEF WhoAmI, VerifyCaller, CheckOldPassword
  <2>3. WhoAmI(q) => req[q].kind \in AdminKinds \cup {"change"}
    BY DEF WhoAmI, AdminKinds
  <2> QED
    BY <1>3, <1>4, <2>1, <2>2, <2>3 DEF VerifyCaller, CheckOldPassword
<1>6. CASE Serve(q)
  <2>1. \E x : Go(q, x)
    BY <1>2, <1>5, <1>6
       DEF Serve, LookUp, Write, SaveNothing, SaveBegin, SaveCommit, SaveFail, ConsumeLink,
           SignOut, CreateSession, MintLink, MintFail
  <2> QED
    BY <1>3, <2>1
<1>7. CASE req'[q] = [req[q] EXCEPT !.pc = "lost"]
  BY <1>0, <1>7 DEF Request
<1> QED
  BY <1>1, <1>6, <1>7, OwnStep

\* The writes that sign in as well: their user has the password they have set.
LEMMA WriteSignsIn ==
  ASSUME TypeOK, DeletesStick, NEW r \in Req, Write(r), req[r].kind \in {"register", "change"},
         req[r].kind = "register" => req[r].target = r
  PROVE /\ req[r].target \in Users!Present(users') => users'[req[r].target].pw = r
        /\ req[r].target = r \/ (req[r].target \in Req => req[req[r].target].pc \notin Before)
        /\ cred'[r] = r
<1>0. /\ users \in Users!Database /\ NoUser \notin Users!UserInfo /\ Req \subseteq Id
      /\ cred \in [Id -> Id \cup {Locked, Preset}]
  BY WriteMoves DEF Id, TypeOK, HistoryOK
<1>1. cred' = [cred EXCEPT ![r] = r]
  BY DEF Write, PasswordKinds
<1>2. CASE req[r].kind = "register"
  <2>1. \E f \in Form(r) :
          Users!Register(r, f.name, Hashed(r), f.groups, f.email, SelfService(r))
    BY <1>2 DEF Write, PasswordKinds
  <2>2. users'[r].pw = r
    BY <1>0, <1>2, <2>1 DEF Users!Register, Users!Database, Hashed
  <2> QED
    BY <1>0, <1>1, <1>2, <2>2
<1>3. CASE req[r].kind = "change"
  <2>1. req[r].target \in Users!Present(users) /\ users' = [users EXCEPT ![req[r].target].pw = r]
    BY <1>3, WriteForms DEF PasswordKinds, RegisterKinds
  <2>2. users'[req[r].target].pw = r
    BY <1>0, <2>1 DEF Users!Present, Users!Database, Users!UserInfo
  <2> QED
    BY <1>0, <1>1, <2>1, <2>2, PresentHasWritten
<1> QED
  BY <1>2, <1>3

LEMMA SessionsDisjoint ==
  /\ Unborn \notin Id /\ Gone \notin Id /\ Gone # Unborn /\ NoReq \notin Id /\ Req \subseteq Id
  BY NameAssumption, SlotAssumption DEF Id

LEMMA WriteKeepsSessions ==
  ASSUME TypeOK, DeletesStick, SessionsHold, [Next]_vars, NEW r \in Req, Write(r)
  PROVE /\ \A s \in Id : SessionOf(s)'
        /\ \A q \in Req : SignInOf(q)'
<1>0. /\ req[r].pc = "write" /\ req'[r].pc = "save"
      /\ req'[r].kind = req[r].kind /\ req'[r].target = req[r].target
      /\ \A p \in Req : p # r => req'[p] = req[p]
      /\ UNCHANGED <<sessions, overtaken>> /\ ~Crash
      /\ \A p \in Req : ~SignOut(p)
  <2>1. ~Crash
    BY DEF Write, Crash, TypeOK
  <2>2. ASSUME NEW p \in Req, SignOut(p) PROVE FALSE
    <3>1. applied' = applied /\ r \in applied'
      BY <2>2 DEF SignOut, store, Write
    <3>2. r \notin applied
      BY MemoryIsAVersion, WriteMoves DEF DeletesStick, Consistent, Before
    <3> QED
      BY <3>1, <3>2
  <2> QED
    BY <2>1, <2>2, WriteMoves DEF Write
<1>1. sessions[r] = Unborn /\ ~Sessions!Live(r) /\ ~Sessions!Live(r)'
  BY <1>0 DEF SessionsHold, SigningInOf, SignInOf, Ended, Sessions!Live
<1>2. \A s \in Id : s # r => cred'[s] = cred[s]
  BY DEF Write, TypeOK, HistoryOK
\* Who is not about to be registered is found with the password it had, or r
\* has changed it and has yet to sign it out.
<1>3. ASSUME NEW s \in Id, s # r, NEW u \in Id, u \in Req => req[u].pc \notin Before,
             NEW but, but # r, Explained(s, u, but)
      PROVE Explained(s, u, but)'
  <2>1. u # r
    BY <1>0, <1>3 DEF Before
  <2>2. CASE req[r].kind \in PasswordKinds /\ req[r].target = u
    <3>1. r \in Unpurged(u)'
      BY <1>0, <2>2 DEF Unpurged
    <3> QED
      BY <1>3, <3>1 DEF Explained
  <2>3. CASE ~(req[r].kind \in PasswordKinds /\ req[r].target = u)
    <3>1. u \in Users!Present(users') => u \in Users!Present(users) /\ users'[u].pw = users[u].pw
      BY <2>1, <2>3, WriteElsewhere
    <3>2. \A p \in Unpurged(u) : ~SignOut(p)
      BY <1>0 DEF Unpurged
    <3> QED
      BY <1>0, <1>2, <1>3, <3>1, <3>2, ExplainedStays
  <2> QED
    BY <2>2, <2>3
<1>4. ASSUME NEW s \in Id PROVE SessionOf(s)'
  <2>1. CASE Sessions!Live(s)
    <3>1. s # r /\ SessionOf(s) /\ NoReq # r
      BY <1>1, <2>1, SessionsDisjoint DEF SessionsHold
    <3>2. PICK u \in Id : u = sessions[s]
      BY <2>1 DEF TypeOK, TablesOK, Sessions!TypeOK, Sessions!Live
    <3>3. Explained(s, u, NoReq) /\ (u \in Req => req[u].pc \notin Before)
      BY <2>1, <3>1, <3>2 DEF SessionOf
    <3>4. Explained(s, u, NoReq)'
      BY <1>3, <3>1, <3>3
    <3> QED
      BY <1>0, <3>2, <3>3, <3>4, SessionHolds
  <2>2. CASE ~Sessions!Live(s)
    BY <1>0, <2>2 DEF SessionOf, Sessions!Live
  <2> QED
    BY <2>1, <2>2
<1>5. ASSUME NEW q \in Req, SigningIn(q)' PROVE SignInOf(q)'
  <2>1. CASE q = r
    <3>1. req[r].kind \in {"register", "change"}
      BY <1>0, <1>5, <2>1, KindsAt DEF SigningIn, TypeOK, At, Mutating, RegisterKinds, PasswordKinds, AdminKinds
    <3>2. req[r].kind = "register" => req[r].target = r
      BY DEF SessionsHold, SigningInOf, SignInOf
    <3>3. /\ req[r].target \in Users!Present(users') => users'[req[r].target].pw = r
          /\ req[r].target = r \/ (req[r].target \in Req => req[req[r].target].pc \notin Before)
          /\ cred'[r] = r
      BY <3>1, <3>2, WriteSignsIn
    <3>4. req'[r].target \in Req => req'[req'[r].target].pc \notin Before
      BY <1>0, <3>3, EveryoneMovesOn DEF MovesOn, Before
    <3> QED
      BY <1>0, <2>1, <3>3, <3>4 DEF Explained, Unpurged, SignInOf
  <2>2. CASE q # r
    <3>1. req'[q] = req[q] /\ ~Write(q)
      BY <1>0, <2>2, WriteMoves
    <3>2. SigningIn(q) /\ q \in Id
      BY <1>5, <3>1, SessionsDisjoint DEF SigningIn
    <3>3. PICK u \in Id : u = req[q].target
      BY <3>2, KindsAt DEF TypeOK, SigningIn, Aimed
    <3>4. Explained(q, u, q) /\ (u \in Req => req[u].pc \notin Before)
      BY <3>2, <3>3 DEF SessionsHold, SigningInOf, SignInOf
    <3>5. Explained(q, u, q)'
      BY <1>3, <2>2, <3>2, <3>4
    <3> QED
      BY <3>1, <3>3, <3>4, <3>5, SigningInHolds
  <2> QED
    BY <2>1, <2>2
<1> QED
  BY <1>4, <1>5 DEF SignInOf

\* A sign-out takes the user's sessions with it, and every request that signs
\* the user in meanwhile is overtaken.
LEMMA SignOutKeepsSessions ==
  ASSUME TypeOK, SessionsHold, [Next]_vars, NEW r \in Req, SignOut(r)
  PROVE /\ \A s \in Id : SessionOf(s)'
        /\ \A q \in Req : SignInOf(q)'
<1> DEFINE u == req[r].target
<1>0. /\ At(r, "purge") /\ Sessions!DeleteUserSessions(u)
      /\ overtaken' = overtaken \cup {q \in Req \ {r} : SigningIn(q) /\ req[q].target = u}
      /\ UNCHANGED <<users, cred>>
  BY DEF SignOut, store
<1>1. ~Crash
  BY DEF SignOut, Crash, TypeOK
<1>2. \A p \in Req : SignOut(p) => p = r
  BY OneSignsOut
<1>3. \A q \in Req : ~Login(q) /\ ~Write(q)
  <2>1. ASSUME NEW q \in Req, Login(q) \/ Write(q) PROVE FALSE
    <3>1. req[q].pc \in {"idle", "write"} /\ req'[q] # req[q]
      BY <2>1 DEF Login, Write, Go, At, Idle, TypeOK, RequestsOK, Request
    <3>2. req[r].pc = "purge" /\ \A p \in Req : p # r => req'[p] = req[p]
      BY <1>0 DEF SignOut, Go, At, TypeOK, RequestsOK
    <3> QED
      BY <3>1, <3>2
  <2> QED
    BY <2>1
<1>4. ASSUME NEW s \in Id PROVE SessionOf(s)'
  <2>1. CASE Sessions!Live(s)'
    <3>1. sessions'[s] = sessions[s] /\ sessions[s] # u
      BY <1>0, <2>1 DEF Sessions!DeleteUserSessions, Sessions!Live
    <3>2. \A p \in Unpurged(sessions[s]) : ~SignOut(p)
      BY <1>2, <3>1 DEF Unpurged
    <3> QED
      BY <1>0, <1>1, <2>1, <3>1, <3>2, SessionKept
  <2>2. CASE ~Sessions!Live(s)'
    BY <2>2 DEF SessionOf
  <2> QED
    BY <2>1, <2>2
<1>5. ASSUME NEW q \in Req, SigningIn(q)' PROVE SignInOf(q)'
  <2>1. CASE q # r /\ req[q].target = u
    <3>1. SigningIn(q) /\ req'[q].target = u
      BY <1>3, <1>5, <2>1, SigningInBefore
    <3>2. q \in overtaken'
      BY <1>0, <2>1, <3>1
    <3>3. u \in Req => req'[u].pc \notin Before
      BY <2>1, <3>1, EveryoneMovesOn DEF MovesOn, SessionsHold, SigningInOf, SignInOf
    <3> QED
      BY <3>1, <3>2, <3>3 DEF Explained, Unpurged, SignInOf
  <2>2. CASE q = r \/ req[q].target # u
    <3>1. \A p \in Unpurged(req[q].target) : p # q => ~SignOut(p)
      BY <1>2, <2>2 DEF Unpurged
    <3> QED
      BY <1>0, <1>1, <1>3, <1>5, <3>1, SigningInKept
  <2> QED
    BY <2>1, <2>2
<1> QED
  BY <1>4, <1>5 DEF SignInOf

\* The other steps that make or end a session, or prove a password.
LEMMA LoginKeepsSessions ==
  ASSUME TypeOK, DeletesStick, SessionsHold, [Next]_vars, NEW r \in Req,
         Login(r) \/ CheckOldPassword(r)
  PROVE /\ \A s \in Id : SessionOf(s)'
        /\ \A q \in Req : SignInOf(q)'
<1>0. /\ req[r].pc \in {"idle", "check"} /\ UNCHANGED <<users, sessions, overtaken, crashes>>
      /\ \A p \in Req : p # r => req'[p] = req[p]
      /\ \A s \in Id : s # r => cred'[s] = cred[s]
  BY DEF Login, CheckOldPassword, store, At, TypeOK, RequestsOK, HistoryOK
<1>1. ~Crash /\ \A p \in Req : ~SignOut(p) /\ ~Write(p)
  <2>1. ~Crash
    BY <1>0 DEF Crash, TypeOK
  <2>2. ASSUME NEW p \in Req, SignOut(p) \/ Write(p) PROVE FALSE
    <3>1. req[p].pc \in {"purge", "write"} /\ req'[p] # req[p]
      BY <2>2 DEF SignOut, Write, AfterPurge, Go, At, TypeOK, RequestsOK, Request
    <3> QED
      BY <1>0, <3>1
  <2> QED
    BY <2>1, <2>2
<1>2. \A u : \A p \in Unpurged(u) : ~SignOut(p)
  BY <1>1 DEF Unpurged
<1>3. ASSUME NEW s \in Id PROVE SessionOf(s)'
  <2>1. CASE Sessions!Live(s)
    <3>1. s # r
      BY <1>0, <2>1 DEF SessionsHold, SigningInOf, SignInOf, Sessions!Live, Ended
    <3>2. Sessions!Live(s)'
      BY <1>0, <2>1 DEF Sessions!Live
    <3>3. users'[sessions[s]].pw = users[sessions[s]].pw
      BY <1>0
    <3> QED
      BY <1>0, <1>1, <1>2, <3>1, <3>2, <3>3, SessionKept
  <2>2. CASE ~Sessions!Live(s)
    BY <1>0, <2>2 DEF SessionOf, Sessions!Live
  <2> QED
    BY <2>1, <2>2
<1>4. ASSUME NEW q \in Req, SigningIn(q)' PROVE SignInOf(q)'
  <2>1. CASE Login(q)
    <3>1. PICK u \in Id :
            /\ Users!CanVerify(u)
            /\ req' = [req EXCEPT ![q] =
                         [Idle EXCEPT !.pc = "session", !.kind = "login", !.target = u]]
            /\ cred' = [cred EXCEPT ![q] = users[u].pw]
      BY <2>1 DEF Login
    <3>2. req'[q].target = u /\ cred'[q] = users[u].pw
      BY <3>1, SessionsDisjoint DEF Idle, TypeOK, RequestsOK, HistoryOK
    <3>3. u \in Req => req[u].pc \notin Before
      BY <3>1, PresentHasWritten DEF Users!CanVerify, Users!Get
    <3>4. Explained(q, u, q)'
      BY <1>0, <3>2 DEF Explained
    <3> QED
      BY <3>2, <3>3, <3>4, SigningInHolds
  <2>2. CASE ~Login(q)
    <3>1. SigningIn(q)
      BY <1>1, <1>4, <2>2, SigningInBefore
    <3>2. q # r
      BY <1>0, <3>1 DEF SigningIn
    <3>3. users'[req[q].target].pw = users[req[q].target].pw /\ q \in Id
      BY <1>0, SessionsDisjoint
    <3> QED
      BY <1>0, <1>1, <1>2, <1>4, <2>2, <3>2, <3>3, SigningInKept
  <2> QED
    BY <2>1, <2>2
<1> QED
  BY <1>3, <1>4 DEF SignInOf

LEMMA TableKeepsSessions ==
  ASSUME TypeOK, SessionsHold, [Next]_vars, NEW r \in Req, Logout(r) \/ CreateSession(r)
  PROVE /\ \A s \in Id : SessionOf(s)'
        /\ \A q \in Req : SignInOf(q)'
<1>0. /\ req[r].pc \in {"idle", "session"} /\ UNCHANGED <<users, cred, overtaken, crashes>>
      /\ \A p \in Req : p # r => req'[p] = req[p]
      /\ req'[r].pc = "ok"
  BY DEF Logout, CreateSession, store, At, Go, Idle, TypeOK, RequestsOK, Request
<1>1. ~Crash /\ \A p \in Req : ~SignOut(p) /\ ~Write(p) /\ ~Login(p)
  <2>1. ~Crash
    BY <1>0 DEF Crash, TypeOK
  <2>2. ASSUME NEW p \in Req, SignOut(p) \/ Write(p) PROVE FALSE
    <3>1. req[p].pc \in {"purge", "write"} /\ req'[p] # req[p]
      BY <2>2 DEF SignOut, Write, AfterPurge, Go, At, TypeOK, RequestsOK, Request
    <3> QED
      BY <1>0, <3>1
  <2>3. ASSUME NEW p \in Req, Login(p) PROVE FALSE
    <3>1. req[p].pc = "idle" /\ req'[p].pc = "session"
      BY <2>3 DEF Login, At, Idle, TypeOK, RequestsOK
    <3> QED
      BY <1>0, <3>1
  <2> QED
    BY <2>1, <2>2, <2>3
<1>2. \A u : \A p \in Unpurged(u) : ~SignOut(p)
  BY <1>1 DEF Unpurged
<1>3. ASSUME NEW s \in Id, Sessions!Live(s)', sessions'[s] = sessions[s] PROVE SessionOf(s)'
  <2>1. users'[sessions[s]].pw = users[sessions[s]].pw /\ cred'[s] = cred[s]
    BY <1>0
  <2> QED
    BY <1>0, <1>1, <1>2, <1>3, <2>1, SessionKept
<1>4. ASSUME NEW s \in Id PROVE SessionOf(s)'
  <2>1. CASE ~Sessions!Live(s)'
    BY <2>1 DEF SessionOf
  <2>2. CASE Sessions!Live(s)' /\ Logout(r)
    <3>1. PICK x \in Id : Sessions!Delete(x)
      BY <2>2 DEF Logout
    <3>2. sessions'[s] = sessions[s]
      BY <2>2, <3>1 DEF Sessions!Delete, Sessions!Live, TypeOK, TablesOK, Sessions!TypeOK
    <3> QED
      BY <1>3, <2>2, <3>2
  <2>3. CASE Sessions!Live(s)' /\ CreateSession(r) /\ s # r
    <3>1. sessions'[s] = sessions[s]
      BY <2>3 DEF CreateSession, Sessions!Create, TypeOK, TablesOK, Sessions!TypeOK
    <3> QED
      BY <1>3, <2>3, <3>1
  <2>4. CASE CreateSession(r) /\ s = r
    <3>1. SigningIn(r)
      BY <2>4, KindsAt DEF CreateSession, SigningIn, At, TypeOK
    <3>2. PICK u \in Id : u = req[r].target
      BY <3>1, KindsAt DEF TypeOK, SigningIn, Aimed
    <3>3. Explained(r, u, r) /\ (u \in Req => req[u].pc \notin Before)
      BY <3>1, <3>2 DEF SessionsHold, SigningInOf, SignInOf
    <3>4. sessions'[r] = u
      BY <2>4, <3>2, SessionsDisjoint
         DEF CreateSession, Sessions!Create, TypeOK, TablesOK, Sessions!TypeOK
    <3>5. \A p \in Unpurged(u) : p \in Id
      BY SessionsDisjoint DEF Unpurged
    <3>6. Explained(r, u, NoReq)
      BY <3>3, <3>5, SessionsDisjoint DEF Explained
    <3>7. r \in Id /\ cred'[r] = cred[r] /\ users'[u].pw = users[u].pw
      BY <1>0, SessionsDisjoint
    <3>8. Explained(r, u, NoReq)'
      BY <1>0, <1>1, <1>2, <3>6, <3>7, ExplainedStays
    <3> QED
      BY <2>4, <3>3, <3>4, <3>7, <3>8, SessionHolds
  <2> QED
    BY <2>1, <2>2, <2>3, <2>4
<1>5. ASSUME NEW q \in Req, SigningIn(q)' PROVE SignInOf(q)'
  <2>1. users'[req[q].target].pw = users[req[q].target].pw /\ cred'[q] = cred[q]
    BY <1>0
  <2> QED
    BY <1>0, <1>1, <1>2, <1>5, <2>1, SigningInKept
<1> QED
  BY <1>4, <1>5 DEF SignInOf

\* A session bears the name of the request that made it, as its last step.
LEMMA SlotStep ==
  ASSUME TypeOK, [Next]_vars, NEW q \in Req, sessions[q] # Unborn => req[q].pc \in Ended,
         sessions'[q] # Unborn
  PROVE req'[q].pc \in Ended
<1>0. Sessions!TypeOK /\ RequestsOK /\ q \in Id
  BY SessionsDisjoint DEF TypeOK, TablesOK
<1>1. CASE sessions[q] # Unborn
  BY <1>1, EndedStays
<1>2. CASE CreateSession(q)
  BY <1>2 DEF CreateSession, Go, Ended, TypeOK, RequestsOK, Request
<1>3. CASE sessions[q] = Unborn /\ ~CreateSession(q)
  <2>1. ~UNCHANGED sessions
    BY <1>3
  <2>2. ASSUME NEW r \in Req, Logout(r) PROVE sessions'[q] = Unborn
    BY <1>0, <1>3, <2>2 DEF Logout, Sessions!Delete, Sessions!Live, Sessions!TypeOK
  <2>3. ASSUME NEW r \in Req, CreateSession(r) PROVE sessions'[q] = Unborn
    BY <1>0, <1>3, <2>3 DEF CreateSession, Sessions!Create, Sessions!TypeOK
  <2>4. ASSUME NEW r \in Req, SignOut(r) PROVE sessions'[q] = Unborn
    <3>1. req[r].target \in Id
      BY <1>0, <2>4, KindsAt DEF SignOut, At, Aimed
    <3> QED
      BY <1>0, <1>3, <2>4, <3>1, SessionsDisjoint DEF SignOut, Sessions!DeleteUserSessions
  <2>5. CASE Crash
    BY <1>0, <1>3, <2>5 DEF Crash, Sessions!Forget, Sessions!Live
  <2> QED
    BY <2>1, <2>2, <2>3, <2>4, <2>5
       DEF Next, Start, Serve, vars, store, Login, Cookie, RegisterPage, PeekLink, WhoAmI,
           VerifyCaller, CheckOldPassword, LookUp, Reject, Write, Refuse, SaveNothing, SaveBegin,
           SaveCommit, SaveFail, ConsumeLink, MintLink, MintFail, Tick
<1> QED
  BY <1>1, <1>2, <1>3

LEMMA CrashEndsSessions ==
  ASSUME TypeOK, [Next]_vars, Crash
  PROVE /\ \A s \in Id : SessionOf(s)'
        /\ \A q \in Req : SignInOf(q)'
<1>1. \A s \in Id : ~Sessions!Live(s)'
  BY DEF Crash, Sessions!Forget, Sessions!Live
<1>2. ASSUME NEW q \in Req, SigningIn(q)' PROVE FALSE
  <2>1. req'[q].pc \in {"save", "rename", "purge", "session"} /\ RequestsOK
    BY <1>2 DEF SigningIn, TypeOK
  <2>2. ~InFlight(q) /\ req'[q] = req[q]
    BY <2>1, CrashMoves
  <2> QED
    BY <2>1, <2>2 DEF InFlight, Ended
<1> QED
  BY <1>1, <1>2 DEF SessionOf, SignInOf

LEMMA SessionsHoldStep ==
  TypeOK /\ DeletesStick /\ SessionsHold /\ [Next]_vars => SessionsHold'
<1> SUFFICES ASSUME TypeOK, DeletesStick, SessionsHold, [Next]_vars PROVE SessionsHold'
  OBVIOUS
<1>1. ASSUME NEW r \in Req,
             \/ Write(r) \/ SignOut(r) \/ Login(r) \/ CheckOldPassword(r)
             \/ Logout(r) \/ CreateSession(r)
      PROVE (\A s \in Id : SessionOf(s)') /\ (\A q \in Req : SignInOf(q)')
  BY <1>1, WriteKeepsSessions, SignOutKeepsSessions, LoginKeepsSessions, TableKeepsSessions
<1>2. ASSUME Crash
      PROVE (\A s \in Id : SessionOf(s)') /\ (\A q \in Req : SignInOf(q)')
  BY <1>2, CrashEndsSessions
<1>3. ASSUME ~Crash,
             \A r \in Req : /\ ~Login(r) /\ ~Logout(r) /\ ~CheckOldPassword(r)
                           /\ ~Write(r) /\ ~SignOut(r) /\ ~CreateSession(r)
      PROVE (\A s \in Id : SessionOf(s)') /\ (\A q \in Req : SignInOf(q)')
  <2>1. UNCHANGED <<users, sessions, cred, overtaken>>
    BY <1>3, SessionsUntouched
  <2>2. \A u : \A p \in Unpurged(u) : ~SignOut(p)
    BY <1>3 DEF Unpurged
  <2>3. ASSUME NEW s \in Id PROVE SessionOf(s)'
    <3>1. CASE Sessions!Live(s)'
      <4>1. sessions'[s] = sessions[s] /\ users'[sessions[s]].pw = users[sessions[s]].pw
        BY <2>1
      <4> QED
        BY <1>3, <2>1, <2>2, <3>1, <4>1, SessionKept
    <3>2. CASE ~Sessions!Live(s)'
      BY <3>2 DEF SessionOf
    <3> QED
      BY <3>1, <3>2
  <2>4. ASSUME NEW q \in Req, SigningIn(q)' PROVE SignInOf(q)'
    <3>1. users'[req[q].target].pw = users[req[q].target].pw
      BY <2>1
    <3> QED
      BY <1>3, <2>1, <2>2, <2>4, <3>1, SigningInKept
  <2> QED
    BY <2>3, <2>4 DEF SignInOf
<1>4. (\A s \in Id : SessionOf(s)') /\ (\A q \in Req : SignInOf(q)')
  BY <1>1, <1>2, <1>3
<1>5. ASSUME NEW q \in Req PROVE SigningInOf(q)'
  <2>1. sessions'[q] # Unborn => req'[q].pc \in Ended
    BY SlotStep DEF SessionsHold, SigningInOf, SignInOf
  <2>2. req'[q].kind = "register" => req'[q].target = q
    BY RegisterTarget DEF SessionsHold, SigningInOf, SignInOf
  <2> QED
    BY <1>4, <2>1, <2>2 DEF SigningInOf
<1> QED
  BY <1>4, <1>5 DEF SessionsHold

LEMMA SessionsAlwaysHold == Spec => []SessionsHold
<1>1. Init => SessionsHold
  <2> SUFFICES ASSUME Init PROVE SessionsHold
    OBVIOUS
  <2>1. /\ users \in Databases /\ overtaken = {}
        /\ cred = [i \in Id |-> IF Users!Get(i) THEN users[i].pw ELSE i]
        /\ req = [r \in Req |-> Idle]
        /\ sessions \in [Id -> Id \cup {Unborn}]
        /\ \A i \in Id : sessions[i] # Unborn => sessions[i] = i /\ Users!CanVerify(i)
    BY DEF Init
  <2>2. \A u \in Users!Present(users) : u \in Seed
    BY <2>1, DatabaseAssumption DEF Users!Present
  <2>3. ASSUME NEW s \in Id, Sessions!Live(s)
        PROVE sessions[s] = s /\ s \in Seed /\ cred[s] = users[s].pw
    BY <2>1, <2>2, <2>3 DEF Sessions!Live, Users!CanVerify, Users!Get
  <2>4. \A s \in Id : SessionOf(s)
    BY <2>3, NameAssumption DEF SessionOf, Explained
  <2>5. \A q \in Req : sessions[q] = Unborn
    BY <2>1, <2>2, NameAssumption, SessionsDisjoint DEF Users!CanVerify, Users!Get
  <2>6. \A q \in Req : SigningInOf(q)
    BY <2>1, <2>5 DEF SigningInOf, SignInOf, SigningIn, Idle
  <2> QED
    BY <2>4, <2>6 DEF SessionsHold
<1> QED
  BY <1>1, SessionsHoldStep, AccountsTypes, DeletesAlwaysStick, PTL DEF Spec

\* DeleteUserSessions: a session proved with a password that is no longer in
\* force is about to be signed out by the handler that replaced the password
\* (or that failed to save), or comes of a sign-in that was in flight at the
\* sign-out, whatever else interleaves, fails and crashes.
THEOREM StaleSessionsAreExplained == Spec => []StaleSessionsExplained
<1>1. TypeOK /\ SessionsHold => StaleSessionsExplained
  <2> SUFFICES ASSUME TypeOK, SessionsHold, NEW s \in Id, Sessions!Live(s),
                      sessions[s] \in Users!Present(users), cred[s] # users[sessions[s]].pw
               PROVE Unpurged(sessions[s]) # {} \/ s \in overtaken
    BY DEF StaleSessionsExplained
  <2> QED
    BY DEF SessionsHold, SessionOf, Explained
<1> QED
  BY <1>1, AccountsTypes, SessionsAlwaysHold, PTL
=============================================================================
