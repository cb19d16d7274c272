------------------------- MODULE AccountsUserProofs --------------------------
(***************************************************************************)
(* What happens to user records, in memory, in a save under way and in the *)
(* file: only garbled names ever clash, deletions are final, and the last  *)
(* admin is only lost to a caller that was no admin any more.              *)
(***************************************************************************)
EXTENDS AccountsProofs

(***************************************************************************)
(* The writes to the database.                                             *)
(***************************************************************************)
\* What a critical section of User.mu can do to the records.
LEMMA WriteCases ==
  ASSUME TypeOK, NEW r \in Req, Write(r)
  PROVE \/ \E i \in Users!UserInfo :
             /\ req[r].kind \in RegisterKinds
             /\ users' = [users EXCEPT ![r] = i]
             /\ \A u \in Users!Present(users) : users[u].name # i.name
        \/ \E u \in Users!Present(users), i \in Users!UserInfo :
             /\ req[r].kind \notin RegisterKinds \cup {"adelete"} /\ u = req[r].target
             /\ users' = [users EXCEPT ![u] = i] /\ i.name = users[u].name
             /\ \/ i.groups = users[u].groups
                \/ /\ req[r].kind = "agroups" /\ MayAssign(r, i.groups)
        \/ /\ req[r].kind = "adelete" /\ req[r].target \in Id
           /\ users' = [users EXCEPT ![req[r].target] = NoUser]
<1>1. CASE \E f \in Form(r) :
             /\ req[r].kind \in RegisterKinds
             /\ Users!Register(r, f.name, Hashed(r), f.groups, f.email, SelfService(r))
  <2>1. PICK f \in Form(r) :
          /\ req[r].kind \in RegisterKinds
          /\ Users!Register(r, f.name, Hashed(r), f.groups, f.email, SelfService(r))
    BY <1>1
  <2> DEFINE i == [name |-> f.name, email |-> f.email, pw |-> Hashed(r),
                   groups |-> Users!GrantedGroups(f.groups)]
  <2>2. f.name \in Name /\ f.email \in Email \cup {NoEmail} /\ f.groups \in SUBSET Group
    BY NameAssumption DEF Form
  <2>3. Hashed(r) \in Id \cup {Locked, Preset}
    BY DEF Hashed, Id
  <2>4. i \in Users!UserInfo
    BY <2>2, <2>3, GrantedGroupsAreGroups DEF Users!UserInfo
  <2>5. users' = [users EXCEPT ![r] = i]
    BY <2>1 DEF Users!Register
  <2>6. \A u \in Users!Present(users) : users[u].name # i.name
    BY <2>1 DEF Users!Register, Users!MayRegister
  <2> QED
    BY <2>1, <2>4, <2>5, <2>6
<1>2. CASE req[r].kind \in PasswordKinds /\ Users!SetHash(req[r].target, r)
  <2> DEFINE u == req[r].target
             i == [users[u] EXCEPT !.pw = r]
  <2>1. u \in Users!Present(users) /\ users[u] \in Users!UserInfo
    BY <1>2 DEF Users!SetHash, Users!Get, Users!Present, TypeOK, Users!Database
  <2>2. users' = [users EXCEPT ![u] = i]
    BY <1>2 DEF Users!SetHash
  <2>3. i \in Users!UserInfo /\ i.name = users[u].name /\ i.groups = users[u].groups
    BY <2>1 DEF Users!UserInfo, Id
  <2>4. req[r].kind \notin RegisterKinds \cup {"adelete"}
    BY <1>2 DEF PasswordKinds, RegisterKinds
  <2> QED
    BY <2>1, <2>2, <2>3, <2>4
<1>3. CASE req[r].kind = "adelete" /\ Users!Delete(req[r].target)
  BY <1>3 DEF Users!Delete, Users!Get, Users!Present
<1>4. CASE \E g \in FormGroups :
             /\ req[r].kind = "agroups"
             /\ MayAssign(r, g) /\ Users!SetGroups(req[r].target, g)
  <2>1. PICK g \in FormGroups :
          /\ req[r].kind = "agroups"
          /\ MayAssign(r, g) /\ Users!SetGroups(req[r].target, g)
    BY <1>4
  <2> DEFINE u == req[r].target
             i == [users[u] EXCEPT !.groups = g]
  <2>2. u \in Users!Present(users) /\ users[u] \in Users!UserInfo
    BY <2>1 DEF Users!SetGroups, Users!Get, Users!Present, TypeOK, Users!Database
  <2>3. users' = [users EXCEPT ![u] = i]
    BY <2>1 DEF Users!SetGroups
  <2>4. i \in Users!UserInfo /\ i.name = users[u].name /\ i.groups = g
    BY <2>2, NameAssumption DEF Users!UserInfo
  <2>5. req[r].kind \notin RegisterKinds \cup {"adelete"} /\ MayAssign(r, i.groups)
    BY <2>1, <2>4 DEF RegisterKinds, MayAssign
  <2> QED
    BY <2>1, <2>2, <2>3, <2>4, <2>5
<1> QED
  BY <1>1, <1>2, <1>3, <1>4 DEF Write

(***************************************************************************)
(* The versions of the database.  But for a write to memory, each version  *)
(* after a step is one from before it: kept as it was, marshalled by a     *)
(* save, configured by a restart, or the empty one.                        *)
(***************************************************************************)
LEMMA NobodyIsPresent == Users!Present(Users!EmptyDB) = {}
  BY DEF Users!Present, Users!EmptyDB

LEMMA NoSnapshotIsSnapshot == NoSnapshot \in Snapshot
  BY DEF NoSnapshot, Snapshot, Users!EmptyDB, Users!Database

LEMMA VersionsAreSnapshots == TypeOK => Versions \subseteq Snapshot
  BY DEF TypeOK, DiskOK, HistoryOK, Snapshot, Versions

LEMMA NewVersionsAreSnapshots == TypeOK /\ [Next]_vars => Versions' \subseteq Snapshot
  BY TypesStep DEF TypeOK, DiskOK, HistoryOK, Snapshot, Versions

\* Version w is what has become of version v when there have been n crashes.
Becomes(n, v, w) == w.log = v.log /\ Recast(n, v.db, w.db)

LEMMA StaysItself == ASSUME NEW n, NEW v PROVE Becomes(n, v, v)
  BY DEF Becomes, Recast, SameButFor

LEMMA VersionsStep ==
  ASSUME TypeOK, [Next]_vars, \A r \in Req : ~Write(r), NEW w \in Versions'
  PROVE w = NoSnapshot \/ \E v \in Versions : Becomes(crashes', v, w)
<1>1. ASSUME NEW r \in Req, SaveBegin(r) PROVE \E v \in Versions : Becomes(crashes', v, w)
  <2> DEFINE m == [db |-> users, log |-> applied]
             s == [db |-> Users!Written(users), log |-> applied]
  <2>1. Becomes(crashes', m, s) /\ m \in Versions
    BY WrittenRecasts DEF Becomes, Versions, TypeOK
  <2>2. w \in Versions \cup {s}
    BY <1>1 DEF SaveBegin, store, Versions, TypeOK, DiskOK
  <2> HIDE DEF m, s
  <2> QED
    BY <2>1, <2>2, StaysItself
<1>2. ASSUME NEW r \in Req, SaveCommit(r) \/ SaveFail(r) PROVE w \in Versions \cup {NoSnapshot}
  BY <1>2 DEF SaveCommit, SaveFail, store, Versions, TypeOK, DiskOK
<1>3. CASE Crash
  <2>1. file' \in Snapshot /\ file'.log = file.log /\ file'.db = Started(file.db)
    BY <1>3, CrashFile
  <2>2. crashes' > 0 /\ file.db \in Users!Database
    BY <1>3 DEF Crash, TypeOK, DiskOK, Snapshot
  <2>3. Becomes(crashes', file, file')
    BY <2>1, <2>2, StartedRecasts DEF Becomes
  <2>4. [db |-> users', log |-> applied'] \in {file', NoSnapshot}
    <3>1. CASE Persistent
      <4>1. users' = file'.db /\ applied' = file'.log
        BY <1>3, <2>1, <3>1, CrashFile DEF Crash
      <4> QED
        BY <2>1, <4>1 DEF Snapshot
    <3>2. CASE ~Persistent
      BY <1>3, <3>2 DEF Crash, NoSnapshot
    <3> QED
      BY <3>1, <3>2
  <2>5. w \in {file', NoSnapshot}
    BY <1>3, <2>4 DEF Crash, Versions
  <2> QED
    BY <2>3, <2>5 DEF Versions
<1>4. ASSUME UNCHANGED <<users, applied, snap, file>> PROVE w \in Versions
  BY <1>4 DEF Versions
<1> QED
  BY <1>1, <1>2, <1>3, <1>4, StaysItself
     DEF Next, Start, Serve, vars, store, disk, Login, Logout, Cookie, RegisterPage, PeekLink,
         WhoAmI, VerifyCaller, CheckOldPassword, LookUp, Reject, Refuse, SaveNothing,
         ConsumeLink, SignOut, CreateSession, MintLink, MintFail, Tick

\* A write makes one new version, the one in memory.
LEMMA WriteVersions ==
  ASSUME NEW r \in Req, Write(r)
  PROVE Versions' \subseteq Versions \cup {[db |-> users', log |-> applied']}
  BY DEF Write, disk, Versions

(***************************************************************************)
(* The server starts again on what it wrote, but for garbled names:        *)
(* OnlyGarbledNamesClash is inductive.                                     *)
(***************************************************************************)
Apart(db) ==
  \A u, v \in Users!Present(db) :
    db[u].name = db[v].name => u = v \/ db[u].name \in Users!Garbled

LEMMA ApartVersions == OnlyGarbledNamesClash <=> \A v \in Versions : Apart(v.db)
<1> DEFINE m == [db |-> users, log |-> applied]
<1>1. m.db = users /\ Versions = {m, file} \cup {snap[r] : r \in Req}
  BY DEF Versions
<1> HIDE DEF m
<1>2. ASSUME NEW db \in {users, file.db} \cup {snap[r].db : r \in Req}
      PROVE \E v \in Versions : v.db = db
  BY <1>1
<1>3. ASSUME NEW v \in Versions
      PROVE v.db \in {users, file.db} \cup {snap[r].db : r \in Req}
  BY <1>1
<1>4. ASSUME OnlyGarbledNamesClash, NEW v \in Versions PROVE Apart(v.db)
  BY <1>3, <1>4 DEF OnlyGarbledNamesClash, Apart
<1>5. ASSUME \A v \in Versions : Apart(v.db) PROVE OnlyGarbledNamesClash
  BY <1>2, <1>5 DEF OnlyGarbledNamesClash, Apart
<1> QED
  BY <1>4, <1>5

\* register, under the lock, lets no second user of a name in.
LEMMA WriteKeepsApart ==
  ASSUME TypeOK, Apart(users), NEW r \in Req, Write(r)
  PROVE Apart(users')
<1>1. users \in Users!Database
  BY DEF TypeOK
<1> USE DEF Apart, Users!Present, Users!Database
<1>2. Req \subseteq Id
  BY DEF Id
<1>3. CASE \E i \in Users!UserInfo :
             /\ users' = [users EXCEPT ![r] = i]
             /\ \A u \in Users!Present(users) : users[u].name # i.name
  BY <1>1, <1>2, <1>3
<1>4. CASE \E u \in Users!Present(users), i \in Users!UserInfo :
             users' = [users EXCEPT ![u] = i] /\ i.name = users[u].name
  BY <1>1, <1>4
<1>5. CASE users' = [users EXCEPT ![req[r].target] = NoUser]
  BY <1>1, <1>5
<1> QED
  BY <1>3, <1>4, <1>5, WriteCases

\* What JSON changes is garbled, what it leaves alone is not changed.
LEMMA RecastName ==
  ASSUME NEW n, NEW old \in Users!Database, NEW new \in Users!Database, Recast(n, old, new),
         NEW u \in Users!Present(new)
  PROVE /\ u \in Users!Present(old)
        /\ new[u].name \notin Users!Garbled => new[u].name = old[u].name
        /\ new[u].email \notin Users!Garbled => new[u].email = old[u].email
<1>1. u \in Id /\ old[u] # NoUser /\ SameButFor(n, old[u], new[u])
  BY DEF Recast, Users!Present
<1>2. old[u].name \in DOMAIN InFile /\ old[u].email \in DOMAIN InFile
  BY <1>1, JSONAssumption DEF Users!Database, Users!UserInfo
<1>3. \A s \in DOMAIN InFile : InFile[s] # s => InFile[s] \in Users!Garbled
  BY DEF Users!Garbled
<1> QED
  BY <1>1, <1>2, <1>3 DEF SameButFor, Users!Present

LEMMA RecastKeepsApart ==
  ASSUME NEW n, NEW old \in Users!Database, NEW new \in Users!Database, Recast(n, old, new),
         Apart(old)
  PROVE Apart(new)
<1> SUFFICES ASSUME NEW u \in Users!Present(new), NEW v \in Users!Present(new),
                    new[u].name = new[v].name, new[u].name \notin Users!Garbled
             PROVE u = v
  BY DEF Apart
<1>1. /\ u \in Users!Present(old) /\ v \in Users!Present(old)
      /\ new[u].name = old[u].name /\ new[v].name = old[v].name
  BY RecastName
<1> QED
  BY <1>1 DEF Apart

LEMMA InitApart == Init => OnlyGarbledNamesClash
<1> SUFFICES ASSUME Init PROVE OnlyGarbledNamesClash
  OBVIOUS
<1>1. \A db \in {users, file.db} \cup {snap[r].db : r \in Req} : db \in {users, Users!EmptyDB}
  BY DEF Init, NoSnapshot
<1>2. Users!ValidUsers(users)
  BY DatabaseAssumption DEF Init
<1> QED
  BY <1>1, <1>2, NobodyIsPresent DEF OnlyGarbledNamesClash, Users!ValidUsers

LEMMA ApartStep == TypeOK /\ OnlyGarbledNamesClash /\ [Next]_vars => OnlyGarbledNamesClash'
<1>0. (\A v \in Versions : Apart(v.db))' => OnlyGarbledNamesClash'
  BY ApartVersions, PTL
<1> SUFFICES ASSUME TypeOK, OnlyGarbledNamesClash, [Next]_vars, NEW w \in Versions'
             PROVE Apart(w.db)
  BY <1>0 DEF Apart
<1>1. \A v \in Versions : Apart(v.db)
  BY ApartVersions
<1>2. CASE \E r \in Req : Write(r)
  <2>1. PICK r \in Req : Write(r)
    BY <1>2
  <2> DEFINE m == [db |-> users, log |-> applied]
  <2>2. Apart(users)
    <3>1. m \in Versions /\ m.db = users
      BY DEF Versions
    <3> HIDE DEF m
    <3> QED
      BY <1>1, <3>1
  <2>3. Apart(users')
    BY <2>1, <2>2, WriteKeepsApart
  <2> QED
    BY <1>1, <2>1, <2>3, WriteVersions
<1>3. CASE \A r \in Req : ~Write(r)
  <2>1. CASE w = NoSnapshot
    BY <2>1, NobodyIsPresent DEF Apart, NoSnapshot
  <2>2. CASE \E v \in Versions : Becomes(crashes', v, w)
    <3>1. PICK v \in Versions : Becomes(crashes', v, w)
      BY <2>2
    <3>2. v.db \in Users!Database /\ w.db \in Users!Database
      BY VersionsAreSnapshots, NewVersionsAreSnapshots DEF Snapshot
    <3> QED
      BY <1>1, <3>1, <3>2, RecastKeepsApart DEF Becomes
  <2> QED
    BY <1>3, <2>1, <2>2, VersionsStep
<1> QED
  BY <1>2, <1>3

\* No database that a start could find, or memory, or a save under way, has two
\* users of one name, unless the name is one that json.Marshal makes of others:
\* nothing else makes loadUsersFromFile refuse what the server wrote.
THEOREM OnlyGarbledNamesEverClash == Spec => []OnlyGarbledNamesClash
  BY InitApart, ApartStep, AccountsTypes, PTL DEF Spec

(***************************************************************************)
(* Deletions are final: DeletesStick is inductive.                         *)
(***************************************************************************)
\* A request that has written never becomes another one, nor unwritten.
MovesOn(p) ==
  req[p].pc \notin Before =>
    /\ req'[p].pc \notin Before
    /\ req'[p].kind = req[p].kind /\ req'[p].target = req[p].target
    /\ req'[p].actor = req[p].actor /\ req'[p].token = req[p].token

LEMMA GoMovesOn ==
  ASSUME TypeOK, NEW r \in Req, NEW x, Go(r, x),
         x \notin Before \/ req[r].pc \in Before, NEW p \in Req
  PROVE MovesOn(p)
<1>1. req[r] \in Request /\ req'[r] = [req[r] EXCEPT !.pc = x]
  BY DEF Go, TypeOK, RequestsOK
<1>2. /\ req'[r].pc = x /\ req'[r].kind = req[r].kind /\ req'[r].target = req[r].target
      /\ req'[r].actor = req[r].actor /\ req'[r].token = req[r].token
  BY <1>1 DEF Request
<1>3. p # r => req'[p] = req[p]
  BY DEF Go, TypeOK, RequestsOK
<1> QED
  BY <1>2, <1>3 DEF MovesOn

LEMMA EarlyMovesOn ==
  ASSUME TypeOK, NEW r \in Req, req[r].pc \in Before,
         \E q : req' = [req EXCEPT ![r] = q], NEW p \in Req
  PROVE MovesOn(p)
<1>1. p # r => req'[p] = req[p]
  BY DEF TypeOK, RequestsOK
<1> QED
  BY <1>1 DEF MovesOn

LEMMA EveryoneMovesOn ==
  ASSUME TypeOK, [Next]_vars, NEW p \in Req
  PROVE MovesOn(p)
<1>1. ASSUME NEW r \in Req, Start(r) PROVE MovesOn(p)
  <2>1. req[r].pc \in Before
    BY <1>1 DEF Start, Login, Logout, Cookie, RegisterPage, PeekLink, At, Before
  <2>2. \E q : req' = [req EXCEPT ![r] = q]
    BY <1>1 DEF Start, Login, Logout, Cookie, RegisterPage, PeekLink
  <2> QED
    BY <2>1, <2>2, EarlyMovesOn
<1>2. ASSUME NEW r \in Req,
             \/ WhoAmI(r) \/ VerifyCaller(r) \/ CheckOldPassword(r) \/ LookUp(r)
             \/ Reject(r) \/ Write(r) \/ Refuse(r)
      PROVE MovesOn(p)
  <2>1. req[r].pc \in Before
    BY <1>2 DEF WhoAmI, VerifyCaller, CheckOldPassword, LookUp, Reject, Write, Refuse, At, Before
  <2>2. \E q : req' = [req EXCEPT ![r] = q]
    BY <1>2 DEF WhoAmI, VerifyCaller, CheckOldPassword, LookUp, Reject, Write, Refuse, Go
  <2> QED
    BY <2>1, <2>2, EarlyMovesOn
<1>3. ASSUME NEW r \in Req,
             \/ SaveNothing(r) \/ SaveBegin(r) \/ SaveCommit(r) \/ SaveFail(r) \/ ConsumeLink(r)
             \/ SignOut(r) \/ CreateSession(r) \/ MintLink(r) \/ MintFail(r)
      PROVE MovesOn(p)
  <2>1. PICK x \in {"rename", "error"} \cup After : Go(r, x)
    BY <1>3 DEF SaveNothing, SaveBegin, SaveCommit, SaveFail, ConsumeLink, SignOut, CreateSession,
          MintLink, MintFail, AfterSave, AfterPurge, After
  <2>2. x \notin Before
    BY DEF Before, After
  <2> QED
    BY <2>1, <2>2, GoMovesOn
<1>4. CASE Crash
  <2>1. CASE req'[p] = req[p]
    BY <2>1 DEF MovesOn
  <2>2. CASE /\ req'[p].pc = "lost" /\ req'[p].kind = req[p].kind
             /\ req'[p].target = req[p].target
             /\ req'[p].actor = req[p].actor /\ req'[p].token = req[p].token
    BY <2>2 DEF MovesOn, Before
  <2> QED
    BY <1>4, <2>1, <2>2, CrashMoves DEF TypeOK
<1>5. CASE Tick \/ UNCHANGED vars
  BY <1>5 DEF Tick, vars, MovesOn
<1> QED
  BY <1>1, <1>2, <1>3, <1>4, <1>5 DEF Next, Serve

\* Moving requests on keeps a version consistent.
LEMMA StaysConsistent ==
  ASSUME TypeOK, [Next]_vars, NEW v \in Snapshot, Consistent(v)
  PROVE /\ Users!Present(v.db) \cap Req \subseteq v.log
        /\ \A r \in v.log :
             /\ req'[r].pc \notin Before
             /\ req'[r].kind = "adelete" => req'[r].target \notin Users!Present(v.db)
<1>1. v.log \subseteq Req
  BY DEF Snapshot
<1>2. \A r \in v.log : MovesOn(r)
  BY <1>1, EveryoneMovesOn
<1> QED
  BY <1>2 DEF Consistent, MovesOn

\* A write carries its own request into the version in memory, and brings no
\* deleted user back.
LEMMA WriteConsistent ==
  ASSUME TypeOK, SavesNest, DeletesStick, NEW r \in Req, Write(r)
  PROVE /\ Users!Present(users') \cap Req \subseteq applied'
        /\ \A d \in applied' :
             /\ req'[d].pc \notin Before
             /\ req'[d].kind = "adelete" => req'[d].target \notin Users!Present(users')
<1>1. /\ req'[r].pc = "save" /\ req'[r].kind = req[r].kind /\ req'[r].target = req[r].target
      /\ \A p \in Req : p # r => req'[p] = req[p]
  <2>1. /\ req'[r] = [req[r] EXCEPT !.pc = "save"] /\ req[r] \in Request
        /\ \A p \in Req : p # r => req'[p] = req[p]
    BY DEF Write, Go, TypeOK, RequestsOK
  <2> QED
    BY <2>1 DEF Request
<1>2. At(r, "write") /\ applied' = applied \cup {r} /\ applied \subseteq Req
  BY DEF Write, TypeOK, HistoryOK
<1>3. /\ Users!Present(users) \cap Req \subseteq applied
      /\ \A d \in applied :
           /\ req[d].pc \notin Before
           /\ req[d].kind = "adelete" => req[d].target \notin Users!Present(users)
  <2> DEFINE v == [db |-> users, log |-> applied]
  <2>1. Consistent(v)
    BY DEF DeletesStick, Versions
  <2> QED
    BY <2>1 DEF Consistent
<1>4. \A d \in applied' : req'[d].pc \notin Before
  BY <1>1, <1>2, <1>3 DEF Before
<1>5. NoUser \notin Id /\ NoUser \notin Users!UserInfo /\ users \in Users!Database
  BY NameAssumption, DatabaseAssumption DEF TypeOK
<1>6. CASE \E i \in Users!UserInfo : req[r].kind \in RegisterKinds /\ users' = [users EXCEPT ![r] = i]
  <2>1. Users!Present(users') \subseteq Users!Present(users) \cup {r}
    BY <1>5, <1>6 DEF Users!Present, Users!Database
  <2>2. ASSUME NEW d \in applied, req[d].kind = "adelete" PROVE req[d].target # r
    <3>1. d \in Req /\ NeverBack(d)
      BY <1>2, <2>2 DEF DeletesStick
    <3>2. CASE req[d].target = r
      <4>1. req[d].target # NoUser
        BY <1>5, <3>2 DEF Id
      <4>2. req[r].pc \notin Before
        BY <2>2, <3>1, <3>2, <4>1 DEF NeverBack
      <4> QED
        BY <1>2, <4>2 DEF At, Before
    <3> QED
      BY <3>2
  <2>3. req[r].kind # "adelete"
    BY <1>6 DEF RegisterKinds
  <2> QED
    BY <1>1, <1>2, <1>3, <1>4, <2>1, <2>2, <2>3
<1>7. CASE \E u \in Users!Present(users), i \in Users!UserInfo :
             req[r].kind # "adelete" /\ users' = [users EXCEPT ![u] = i]
  <2>1. Users!Present(users') \subseteq Users!Present(users)
    BY <1>5, <1>7 DEF Users!Present, Users!Database
  <2> QED
    BY <1>1, <1>2, <1>3, <1>4, <1>7, <2>1
<1>8. CASE /\ req[r].target \in Id
           /\ users' = [users EXCEPT ![req[r].target] = NoUser]
  <2>1. Users!Present(users') \subseteq Users!Present(users) \ {req[r].target}
    BY <1>5, <1>8 DEF Users!Present, Users!Database
  <2> QED
    BY <1>1, <1>2, <1>3, <1>4, <2>1
<1> QED
  BY <1>6, <1>7, <1>8, WriteCases

LEMMA NothingIsConsistent == Consistent(NoSnapshot)
  BY NobodyIsPresent DEF Consistent, NoSnapshot

\* What becomes of a version has the same users and the same log.
LEMMA SameUsers ==
  ASSUME NEW n, NEW v \in Snapshot, NEW w \in Snapshot, Becomes(n, v, w)
  PROVE Users!Present(w.db) = Users!Present(v.db) /\ w.log = v.log
  BY DEF Becomes, Recast, Users!Present

LEMMA ConsistentStep ==
  ASSUME TypeOK, SavesNest, DeletesStick, [Next]_vars
  PROVE \A v \in Versions' : Consistent(v)'
<1> SUFFICES ASSUME NEW w \in Versions' PROVE Consistent(w)'
  OBVIOUS
<1>1. ASSUME NEW v \in Versions \cup {NoSnapshot}, NEW x \in Snapshot,
             Users!Present(x.db) = Users!Present(v.db), x.log = v.log
      PROVE Consistent(x)'
  <2>1. v \in Snapshot /\ Consistent(v)
    BY NoSnapshotIsSnapshot, VersionsAreSnapshots, NothingIsConsistent DEF DeletesStick
  <2> QED
    BY <1>1, <2>1, StaysConsistent DEF Consistent
<1>2. w \in Snapshot
  BY NewVersionsAreSnapshots
<1>3. CASE \E r \in Req : Write(r)
  <2>1. PICK r \in Req : Write(r)
    BY <1>3
  <2>2. CASE w \in Versions
    BY <1>1, <1>2, <2>2
  <2>3. CASE w = [db |-> users', log |-> applied']
    <3>1. w.db = users' /\ w.log = applied'
      BY <2>3
    <3> QED
      BY <2>1, <3>1, WriteConsistent DEF Consistent
  <2> QED
    BY <2>1, <2>2, <2>3, WriteVersions
<1>4. CASE \A r \in Req : ~Write(r)
  <2>1. CASE w = NoSnapshot
    BY <1>1, <1>2, <2>1
  <2>2. CASE \E v \in Versions : Becomes(crashes', v, w)
    BY <1>1, <1>2, <2>2, SameUsers, VersionsAreSnapshots
  <2> QED
    BY <1>4, <2>1, <2>2, VersionsStep
<1> QED
  BY <1>3, <1>4
\* The request of a deletion: its target is chosen once, by VerifyCaller.
LEMMA TargetChosen ==
  ASSUME TypeOK, [Next]_vars, NEW r \in Req, ~VerifyCaller(r),
         req'[r].kind = "adelete", req'[r].target # NoUser
  PROVE /\ req[r].kind = "adelete" /\ req'[r].target = req[r].target
        /\ req'[r].actor = req[r].actor
<1>0. req \in [Req -> Request]
  BY DEF TypeOK, RequestsOK
<1>1. ASSUME NEW p \in Req, p # r, Start(p) \/ Serve(p) PROVE req'[r] = req[r]
  BY <1>0, <1>1
     DEF Start, Serve, Login, Logout, Cookie, RegisterPage, PeekLink, WhoAmI, VerifyCaller,
         CheckOldPassword, LookUp, Reject, Write, Refuse, SaveNothing, SaveBegin, SaveCommit,
         SaveFail, ConsumeLink, SignOut, CreateSession, MintLink, MintFail, Go
<1>2. ASSUME Start(r) PROVE req'[r].kind # "adelete" \/ req'[r].target = NoUser
  <2>1. CASE Login(r) \/ Logout(r) \/ RegisterPage(r)
    BY <1>0, <2>1 DEF Login, Logout, RegisterPage, Idle
  <2>2. CASE Cookie(r)
    BY <1>0, <2>2 DEF Cookie, Idle
  <2>3. CASE PeekLink(r)
    BY <1>0, <2>3 DEF PeekLink, Idle
  <2> QED
    BY <1>2, <2>1, <2>2, <2>3 DEF Start
<1>3. ASSUME Reject(r) \/ Refuse(r) PROVE req'[r].kind # "adelete"
  BY <1>0, <1>3 DEF Reject, Refuse, Idle
<1>4. ASSUME CheckOldPassword(r) PROVE req'[r].kind # "adelete"
  <2>1. req[r].kind = "change"
    BY <1>4, KindsAt DEF CheckOldPassword, TypeOK
  <2>2. req'[r] = [req[r] EXCEPT !.pc = "write", !.target = req[r].actor]
    BY <1>0, <1>4 DEF CheckOldPassword
  <2> QED
    BY <1>0, <2>1, <2>2 DEF Request
<1>5. ASSUME WhoAmI(r), req[r].kind = "alink" PROVE req'[r].kind # "adelete"
  <2>1. PICK u : req' = [req EXCEPT ![r].pc = "look", ![r].target = u]
    BY <1>5 DEF WhoAmI, AdminKinds
  <2>2. req'[r] = [req[r] EXCEPT !.pc = "look", !.target = u]
    BY <1>0, <2>1
  <2> QED
    BY <1>0, <1>5, <2>2 DEF Request
<1>6. ASSUME NEW x, Go(r, x)
      PROVE req'[r].kind = req[r].kind /\ req'[r].target = req[r].target
            /\ req'[r].actor = req[r].actor
  BY <1>0, <1>6 DEF Go, Request
<1>7. ASSUME Serve(r), ~Reject(r), ~Refuse(r), ~CheckOldPassword(r),
             ~(WhoAmI(r) /\ req[r].kind = "alink")
      PROVE \E x : Go(r, x)
  BY <1>7 DEF Serve, WhoAmI, LookUp, Write, SaveNothing, SaveBegin, SaveCommit, SaveFail,
        ConsumeLink, SignOut, CreateSession, MintLink, MintFail
<1>8. CASE Crash
  BY <1>8, CrashMoves DEF TypeOK
<1>9. CASE Tick \/ UNCHANGED vars
  BY <1>9 DEF Tick, vars
<1> QED
  BY <1>1, <1>2, <1>3, <1>4, <1>5, <1>6, <1>7, <1>8, <1>9 DEF Next

\* A deletion that ends without a user file leaves the user out of memory.
LEMMA MemoryDeletion ==
  ASSUME TypeOK, SavesNest, DeletesStick, [Next]_vars, NEW r \in Req, ~Persistent,
         req[r].kind = "adelete", req'[r].kind = "adelete", req'[r].target = req[r].target,
         req[r].target # NoUser, At(r, "ok")'
  PROVE req[r].target \notin Users!Present(users')
<1> DEFINE t == req[r].target
<1>1. CASE At(r, "ok")
  <2>1. t \notin Users!Present(users)
    BY <1>1 DEF DeletesStick, NeverBack
  <2>2. CASE \E p \in Req : Write(p)
    <3>1. PICK p \in Req : Write(p)
      BY <2>2
    <3>2. p # t
      <4>1. req[p].pc \in Before
        BY <3>1 DEF Write, At, Before
      <4>2. t \in Req => req[t].pc \notin Before
        BY DEF DeletesStick, NeverBack
      <4> QED
        BY <4>1, <4>2
    <3>3. NoUser \notin Id /\ NoUser \notin Users!UserInfo /\ users \in Users!Database
      BY NameAssumption, DatabaseAssumption DEF TypeOK
    <3>4. CASE \E i \in Users!UserInfo : users' = [users EXCEPT ![p] = i]
      BY <2>1, <3>2, <3>4 DEF Users!Present
    <3>5. CASE \E u \in Users!Present(users), i \in Users!UserInfo : users' = [users EXCEPT ![u] = i]
      BY <2>1, <3>5 DEF Users!Present
    <3>6. CASE users' = [users EXCEPT ![req[p].target] = NoUser]
      BY <2>1, <3>3, <3>6 DEF Users!Present, Users!Database
    <3> QED
      BY <3>1, <3>4, <3>5, <3>6, WriteCases
  <2>3. CASE UNCHANGED users
    BY <2>1, <2>3
  <2>4. CASE Crash
    BY <2>4, NobodyIsPresent DEF Crash
  <2> QED
    BY <2>2, <2>3, <2>4
       DEF Next, Start, Serve, vars, store, Login, Logout, Cookie, RegisterPage, PeekLink, WhoAmI,
           VerifyCaller, CheckOldPassword, LookUp, Reject, Refuse, SaveNothing, SaveBegin,
           SaveCommit, SaveFail, ConsumeLink, SignOut, CreateSession, MintLink, MintFail, Tick
<1>2. CASE ~At(r, "ok")
  <2>0. req \in [Req -> Request]
    BY DEF TypeOK, RequestsOK
  <2>1. ASSUME SaveNothing(r) PROVE t \notin Users!Present(users')
    <3>1. r \in applied /\ UNCHANGED users
      BY <2>1 DEF SaveNothing, SavesNest, SaveInOrder, store
    <3> DEFINE v == [db |-> users, log |-> applied]
    <3>2. Consistent(v)
      BY DEF DeletesStick, Versions
    <3> QED
      BY <3>1, <3>2 DEF Consistent
  <2>2. ASSUME ~SaveNothing(r), Serve(r) PROVE FALSE
    <3>1. ~SaveCommit(r)
      BY DEF SaveCommit, SavesNest, SaveInOrder
    <3>2. /\ ~At(r, "session") /\ ~At(r, "purge") /\ ~At(r, "mint") /\ ~At(r, "consume")
      BY KindsAt DEF TypeOK, PasswordKinds
    <3>3. ASSUME NEW x, Go(r, x), x # "ok" PROVE FALSE
      BY <2>0, <3>3 DEF Go, Request, At
    <3>4. ASSUME NEW x, NEW u, req' = [req EXCEPT ![r].pc = x, ![r].target = u], x # "ok" PROVE FALSE
      <4>1. req'[r] = [req[r] EXCEPT !.pc = x, !.target = u]
        BY <2>0, <3>4
      <4> QED
        BY <2>0, <3>4, <4>1 DEF Request, At
    <3>5. ~Reject(r) /\ ~Refuse(r)
      BY <2>0 DEF Reject, Refuse, Idle, At
    <3>6. ~VerifyCaller(r) /\ ~CheckOldPassword(r) /\ ~WhoAmI(r)
      BY <3>3, <3>4 DEF VerifyCaller, CheckOldPassword, WhoAmI
    <3>7. ~LookUp(r) /\ ~Write(r) /\ ~SaveBegin(r) /\ ~SaveFail(r)
      BY <3>3 DEF LookUp, Write, SaveBegin, SaveFail
    <3> QED
      BY <2>2, <3>1, <3>2, <3>5, <3>6, <3>7
         DEF Serve, ConsumeLink, SignOut, CreateSession, MintLink, MintFail
  <2>3. ASSUME Start(r) PROVE FALSE
    <3>1. ~Login(r) /\ ~Logout(r) /\ ~Cookie(r) /\ ~RegisterPage(r)
      BY <2>0 DEF Login, Logout, Cookie, RegisterPage, Idle, At
    <3>2. ~PeekLink(r)
      BY <2>0 DEF PeekLink, Idle, At
    <3> QED
      BY <2>3, <3>1, <3>2 DEF Start
  <2>4. ASSUME NEW p \in Req, p # r, Start(p) \/ Serve(p) PROVE FALSE
    <3>1. req'[r] = req[r]
      BY <2>0, <2>4
         DEF Start, Serve, Login, Logout, Cookie, RegisterPage, PeekLink, WhoAmI, VerifyCaller,
             CheckOldPassword, LookUp, Reject, Write, Refuse, SaveNothing, SaveBegin, SaveCommit,
             SaveFail, ConsumeLink, SignOut, CreateSession, MintLink, MintFail, Go
    <3> QED
      BY <1>2, <3>1 DEF At
  <2>5. ASSUME Tick \/ Crash \/ UNCHANGED vars PROVE FALSE
    <3>1. req'[r] = req[r] \/ req'[r].pc = "lost"
      BY <2>5, CrashMoves DEF Tick, vars, TypeOK
    <3> QED
      BY <1>2, <2>0, <3>1 DEF At, Request
  <2> QED
    BY <2>1, <2>2, <2>3, <2>4, <2>5 DEF Next
<1> QED
  BY <1>1, <1>2

LEMMA NeverBackStep ==
  ASSUME TypeOK, SavesNest, DeletesStick, [Next]_vars, NEW r \in Req
  PROVE NeverBack(r)'
<1> SUFFICES ASSUME req'[r].kind = "adelete", req'[r].target # NoUser
             PROVE /\ req'[r].target # req'[r].actor
                   /\ req'[r].target \in Req => req'[req'[r].target].pc \notin Before
                   /\ ~Persistent /\ At(r, "ok")' => req'[r].target \notin Users!Present(users')
  BY DEF NeverBack
<1>0. req \in [Req -> Request]
  BY DEF TypeOK, RequestsOK
<1>1. CASE VerifyCaller(r)
  <2>1. PICK u \in Users!Present(users) \cup {r} :
          /\ u = r <=> req[r].kind \in RegisterKinds
          /\ req[r].kind = "adelete" => u # req[r].actor
          /\ req' = [req EXCEPT ![r].pc = IF req[r].kind = "areset" THEN "look" ELSE "write",
                                ![r].target = u]
    BY <1>1 DEF VerifyCaller
  <2> DEFINE x == IF req[r].kind = "areset" THEN "look" ELSE "write"
  <2>2. req'[r] = [req[r] EXCEPT !.pc = x, !.target = u]
    BY <1>0, <2>1
  <2>3. /\ req'[r].pc \in {"look", "write"} /\ req'[r].kind = req[r].kind
        /\ req'[r].target = u /\ req'[r].actor = req[r].actor
    BY <1>0, <2>2 DEF Request
  <2>4. u # r /\ u \in Users!Present(users)
    BY <2>1, <2>3 DEF RegisterKinds
  <2>5. ASSUME u \in Req PROVE req'[u].pc \notin Before
    <3> DEFINE v == [db |-> users, log |-> applied]
    <3>1. Consistent(v)
      BY DEF DeletesStick, Versions
    <3>2. u \in applied /\ req[u].pc \notin Before
      BY <2>4, <2>5, <3>1 DEF Consistent
    <3> QED
      BY <2>5, <3>2, EveryoneMovesOn DEF MovesOn
  <2> QED
    BY <2>1, <2>3, <2>5 DEF At
<1>2. CASE ~VerifyCaller(r)
  <2>1. /\ req[r].kind = "adelete" /\ req'[r].target = req[r].target
        /\ req'[r].actor = req[r].actor
    BY <1>2, TargetChosen
  <2>2. /\ req[r].target # req[r].actor
        /\ req[r].target \in Req => req[req[r].target].pc \notin Before
    BY <2>1 DEF DeletesStick, NeverBack
  <2>3. req'[r].target \in Req => req'[req'[r].target].pc \notin Before
    BY <2>1, <2>2, EveryoneMovesOn DEF MovesOn
  <2>4. ~Persistent /\ At(r, "ok")' => req[r].target \notin Users!Present(users')
    BY <2>1, MemoryDeletion
  <2> QED
    BY <2>1, <2>2, <2>3, <2>4
<1> QED
  BY <1>1, <1>2

LEMMA InitDeletes == Init => DeletesStick
<1> SUFFICES ASSUME Init PROVE DeletesStick
  OBVIOUS
<1>1. users \in Databases /\ applied = {} /\ file.log = {} /\ file.db \in {users, Users!EmptyDB}
  BY DEF Init
<1>2. Users!Present(users) \cap Req = {} /\ Users!Present(Users!EmptyDB) = {}
  BY <1>1, DatabaseAssumption, NameAssumption, NobodyIsPresent DEF Users!Present
<1>3. \A v \in Versions : v.log = {} /\ v.db \in {users, Users!EmptyDB}
  BY <1>1 DEF Init, Versions, NoSnapshot
<1>4. \A v \in Versions : Consistent(v)
  BY <1>2, <1>3 DEF Consistent
<1>5. \A r \in Req : NeverBack(r)
  BY DEF Init, NeverBack, Idle
<1>6. ~Persistent => file = NoSnapshot
  BY DEF Init, NoSnapshot
<1> QED
  BY <1>4, <1>5, <1>6 DEF DeletesStick

LEMMA NothingStarts == Started(Users!EmptyDB) = Users!EmptyDB
  BY DEF Started, Configured, Users!EmptyDB

LEMMA DeletesStep == TypeOK /\ SavesNest /\ DeletesStick /\ [Next]_vars => DeletesStick'
<1> SUFFICES ASSUME TypeOK, SavesNest, DeletesStick, [Next]_vars PROVE DeletesStick'
  OBVIOUS
<1>1. \A v \in Versions' : Consistent(v)'
  BY ConsistentStep
<1>2. \A r \in Req : NeverBack(r)'
  BY NeverBackStep
<1>3. ASSUME ~Persistent PROVE file' = NoSnapshot
  <2>1. \A r \in Req : ~SaveCommit(r)
    BY <1>3 DEF SaveCommit, SavesNest, SaveInOrder
  <2>2. CASE Crash
    <3>1. file' \in Snapshot /\ file'.log = {} /\ file'.db = Started(Users!EmptyDB)
      BY <1>3, <2>2, CrashFile DEF DeletesStick, NoSnapshot
    <3> QED
      BY <3>1, NothingStarts DEF NoSnapshot, Snapshot
  <2>3. CASE ~Crash
    <3>1. UNCHANGED file
      BY <2>1, <2>3
         DEF Next, Start, Serve, vars, disk, Login, Logout, Cookie, RegisterPage, PeekLink, WhoAmI,
             VerifyCaller, CheckOldPassword, LookUp, Reject, Write, Refuse, SaveNothing, SaveBegin,
             SaveFail, ConsumeLink, SignOut, CreateSession, MintLink, MintFail, Tick
    <3> QED
      BY <1>3, <3>1 DEF DeletesStick
  <2> QED
    BY <2>2, <2>3
<1> QED
  BY <1>1, <1>2, <1>3 DEF DeletesStick

\* No version of the database brings back a user whose deletion it has, and no
\* handler writes such a user again: each looks it up under the write lock.
THEOREM DeletesAlwaysStick == Spec => []DeletesStick
  BY InitDeletes, DeletesStep, AccountsTypes, SavesAlwaysNest, PTL DEF Spec

\* AdminDelete: a user whose deletion was answered with success is in no
\* database any more, whatever was hashing, saving or failing meanwhile, and
\* through any number of restarts.
THEOREM DeletionIsFinal == Spec => []AckedDeleteIsFinal
<1>1. TypeOK /\ SavesNest /\ DeletesStick => AckedDeleteIsFinal
  <2> SUFFICES ASSUME TypeOK, SavesNest, DeletesStick,
                      NEW r \in Req, At(r, "ok"), req[r].kind = "adelete"
               PROVE /\ req[r].target \notin Users!Present(users)
                     /\ req[r].target \notin Users!Present(file.db)
    BY DEF AckedDeleteIsFinal, Acked
  <2>1. CASE Persistent
    <3> DEFINE v == [db |-> users, log |-> applied]
    <3>1. r \in file.log /\ r \in applied
      BY <2>1 DEF SavesNest, SaveInOrder, At, After, Mutating
    <3>2. Consistent(file) /\ Consistent(v)
      BY DEF DeletesStick, Versions
    <3> QED
      BY <3>1, <3>2 DEF Consistent
  <2>2. CASE ~Persistent
    <3>1. Users!Present(file.db) = {}
      BY <2>2, NobodyIsPresent DEF DeletesStick, NoSnapshot
    <3>2. CASE req[r].target = NoUser
      BY <3>1, <3>2, NameAssumption DEF Users!Present
    <3>3. CASE req[r].target # NoUser
      BY <2>2, <3>1, <3>3 DEF DeletesStick, NeverBack
    <3> QED
      BY <3>2, <3>3
  <2> QED
    BY <2>1, <2>2
<1> QED
  BY <1>1, DeletesAlwaysStick, SavesAlwaysNest, AccountsTypes, PTL

(***************************************************************************)
(* The last admin.                                                         *)
(***************************************************************************)
\* AdminDelete and AdminUpdateUserGroups: as long as the caller of a deletion
\* or demotion is still an admin when the write takes the lock, an admin is
\* left; no other operation takes the admin group from anyone.
THEOREM LastAdminOnlyFallsToStaleCaller == Spec => LastAdminFallsToStaleCaller
<1> DEFINE Step ==
      Users!Admins(users) # {} /\ Users!Admins(users') = {} =>
        \/ crashes' # crashes
        \/ \E r \in Req :
             /\ At(r, "write") /\ req'[r].pc = "save"
             /\ req[r].kind \in {"adelete", "agroups"}
             /\ req[r].actor \notin Users!Admins(users)
<1>1. TypeOK /\ DeletesStick /\ [Next]_vars => [Step]_vars
  <2> SUFFICES ASSUME TypeOK, DeletesStick, Next,
                      Users!Admins(users) # {}, Users!Admins(users') = {}, crashes' = crashes
               PROVE \E r \in Req :
                       /\ At(r, "write") /\ req'[r].pc = "save"
                       /\ req[r].kind \in {"adelete", "agroups"}
                       /\ req[r].actor \notin Users!Admins(users)
    BY DEF vars
  <2>1. PICK r \in Req : Write(r)
    <3>1. users' # users
      OBVIOUS
    <3>2. ~Crash
      BY DEF Crash, TypeOK
    <3> QED
      BY <3>1, <3>2
         DEF Next, Start, Serve, store, Login, Logout, Cookie, RegisterPage, PeekLink, WhoAmI,
             VerifyCaller, CheckOldPassword, LookUp, Reject, Refuse, SaveNothing, SaveBegin,
             SaveCommit, SaveFail, ConsumeLink, SignOut, CreateSession, MintLink, MintFail, Tick
  <2>2. At(r, "write") /\ req'[r].pc = "save"
    BY <2>1 DEF Write, Go, TypeOK, RequestsOK, Request
  <2>3. req[r].target \in Id /\ req[r].target # NoUser
    BY <2>2, KindsAt, NameAssumption DEF TypeOK, At, Aimed
  <2> DEFINE a == req[r].actor
  <2>4. \A u \in Users!Admins(users) :
          /\ u \in Id /\ users[u] # NoUser
          /\ UserAdminGroup # NoGroup /\ UserAdminGroup \in users[u].groups
    BY DEF Users!Admins, Users!Present, Users!IsAdmin
  <2>5. \A u \in Users!Admins(users) : users'[u] # users[u]
    BY <2>4 DEF Users!Admins, Users!Present, Users!IsAdmin
  <2>6. NoUser \notin Users!UserInfo /\ users \in Users!Database
    BY DatabaseAssumption DEF TypeOK
  <2>7. CASE \E i \in Users!UserInfo :
               /\ req[r].kind \in RegisterKinds
               /\ users' = [users EXCEPT ![r] = i]
    <3>1. users[r] = NoUser
      <4> DEFINE v == [db |-> users, log |-> applied]
      <4>1. Consistent(v)
        BY DEF DeletesStick, Versions
      <4> QED
        BY <2>2, <4>1 DEF Consistent, At, Before, Users!Present, Id
    <3>2. \A u \in Users!Admins(users) : u # r
      BY <2>4, <3>1
    <3> QED
      BY <2>4, <2>5, <2>6, <2>7, <3>2 DEF Users!Database
  <2>8. CASE \E i \in Users!UserInfo :
               /\ req[r].target \in Users!Present(users)
               /\ users' = [users EXCEPT ![req[r].target] = i]
               /\ \/ i.groups = users[req[r].target].groups
                  \/ req[r].kind = "agroups" /\ MayAssign(r, i.groups)
    <3>1. PICK i \in Users!UserInfo :
               /\ req[r].target \in Users!Present(users)
               /\ users' = [users EXCEPT ![req[r].target] = i]
               /\ \/ i.groups = users[req[r].target].groups
                  \/ req[r].kind = "agroups" /\ MayAssign(r, i.groups)
      BY <2>8
    <3>2. Users!Admins(users) = {req[r].target}
      BY <2>4, <2>5, <2>6, <3>1 DEF Users!Database
    <3>3. UserAdminGroup \notin i.groups
      BY <2>3, <2>4, <2>6, <3>1, <3>2 DEF Users!Admins, Users!Present, Users!IsAdmin, Users!Database
    <3>4. req[r].kind = "agroups" /\ a # req[r].target
      BY <2>4, <3>1, <3>2, <3>3 DEF MayAssign
    <3> QED
      BY <2>2, <3>2, <3>4
  <2>9. CASE /\ req[r].kind = "adelete"
             /\ users' = [users EXCEPT ![req[r].target] = NoUser]
    <3>1. a # req[r].target
      BY <2>3, <2>9 DEF DeletesStick, NeverBack
    <3>2. a \notin Users!Admins(users)
      BY <2>4, <2>5, <2>6, <2>9, <3>1 DEF Users!Database
    <3> QED
      BY <2>2, <2>9, <3>2
  <2> QED
    BY <2>1, <2>7, <2>8, <2>9, WriteCases
<1> QED
  BY <1>1, AccountsTypes, DeletesAlwaysStick, PTL DEF Spec, LastAdminFallsToStaleCaller
=============================================================================
