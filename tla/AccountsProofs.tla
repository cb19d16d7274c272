--------------------------- MODULE AccountsProofs ----------------------------
(***************************************************************************)
(* The account life cycle for any number of requests, users, names, groups *)
(* and crashes.                                                            *)
(***************************************************************************)
EXTENDS AccountsSafety, TLAPS

(***************************************************************************)
(* Types.  The requests come first: what else a step does depends on the   *)
(* kind of request it belongs to.                                          *)
(***************************************************************************)
LEMMA SectionsArePlaces == \A k : Sections(k) \cup Ended \subseteq Places
  BY DEF Sections, Ended, Places

LEMMA PutRequest ==
  ASSUME RequestsOK, NEW r \in Req, NEW q \in Request,
         WellFormed(q), req' = [req EXCEPT ![r] = q]
  PROVE RequestsOK'
  BY DEF RequestsOK

LEMMA GoRequest ==
  ASSUME RequestsOK, NEW r \in Req, NEW x \in Sections(req[r].kind) \cup Ended, Go(r, x),
         x \in Aimed => req[r].target \in Id
  PROVE RequestsOK'
<1> DEFINE q == [req[r] EXCEPT !.pc = x]
<1>1. req' = [req EXCEPT ![r] = q]
  BY DEF Go
<1>2. q \in Request /\ WellFormed(q)
  BY SectionsArePlaces DEF RequestsOK, Request, WellFormed
<1> QED
  BY ONLY RequestsOK, r \in Req, <1>1, <1>2, PutRequest

LEMMA AimRequest ==
  ASSUME RequestsOK, NEW r \in Req, NEW x \in Sections(req[r].kind) \cup Ended, NEW u \in Id,
         req' = [req EXCEPT ![r].pc = x, ![r].target = u]
  PROVE RequestsOK'
<1> DEFINE q == [req[r] EXCEPT !.pc = x, !.target = u]
<1>1. req' = [req EXCEPT ![r] = q]
  BY DEF RequestsOK
<1>2. q \in Request /\ WellFormed(q)
  BY SectionsArePlaces DEF RequestsOK, Request, WellFormed
<1> QED
  BY ONLY RequestsOK, r \in Req, <1>1, <1>2, PutRequest

LEMMA FailRequest ==
  ASSUME RequestsOK, NEW r \in Req, req' = [req EXCEPT ![r] = [Idle EXCEPT !.pc = "fail"]]
  PROVE RequestsOK'
<1> DEFINE q == [Idle EXCEPT !.pc = "fail"]
<1>1. q \in Request /\ WellFormed(q)
  BY DEF Idle, Request, Places, Ended, AdminKinds, WellFormed, Aimed
<1> QED
  BY <1>1, PutRequest

LEMMA IdleIsRequest == Idle \in Request
  BY DEF Idle, Request, Places, Ended, AdminKinds

\* The kinds of request that can be at each of the places of a handler.
LEMMA KindsAt ==
  ASSUME RequestsOK, NEW r \in Req
  PROVE /\ At(r, "session") => req[r].kind \in {"login", "register", "change"}
        /\ At(r, "purge") => req[r].kind \in PasswordKinds
        /\ At(r, "consume") => req[r].kind = "setpw"
        /\ At(r, "mint") => req[r].kind \in {"reglocked", "alink"}
        /\ At(r, "write") \/ At(r, "save") \/ At(r, "rename") => req[r].kind \in Mutating
        /\ At(r, "check") => req[r].kind = "change"
        /\ At(r, "look") => req[r].kind \in {"setpw", "areset", "alink"}
        /\ At(r, "verify") => req[r].kind \in AdminKinds \ {"alink"}
        /\ req[r].pc \in Aimed => req[r].target \in Id
        /\ req[r].kind = "setpw" => req[r].token \in Req
  BY DEF RequestsOK, WellFormed, Sections, Ended, Mutating, PasswordKinds, RegisterKinds, AdminKinds, At

\* What a crash does to a request: it goes on as if nothing had happened if it is
\* over, or had not begun and the server comes back; otherwise it is lost.
LEMMA CrashMoves ==
  ASSUME RequestsOK, Crash, NEW r \in Req
  PROVE \/ req'[r] = req[r] /\ ~InFlight(r)
        \/ /\ req'[r] = [req[r] EXCEPT !.pc = "lost"]
           /\ req'[r].pc = "lost" /\ req[r].pc \notin Ended
           /\ req'[r].kind = req[r].kind /\ req'[r].actor = req[r].actor
           /\ req'[r].target = req[r].target /\ req'[r].token = req[r].token
<1>1. req[r] \in Request
  BY DEF RequestsOK
<1>2. req'[r] = IF InFlight(r) \/ (At(r, "idle") /\ ~Users!ValidUsers(file.db))
                  THEN [req[r] EXCEPT !.pc = "lost"] ELSE req[r]
  BY DEF Crash
<1>3. CASE InFlight(r) \/ (At(r, "idle") /\ ~Users!ValidUsers(file.db))
  <2>1. req[r].pc \notin Ended
    BY <1>3 DEF InFlight, At, Ended
  <2>2. req'[r] = [req[r] EXCEPT !.pc = "lost"]
    BY <1>2, <1>3
  <2> QED
    BY <1>1, <2>1, <2>2 DEF Request
<1>4. CASE ~(InFlight(r) \/ (At(r, "idle") /\ ~Users!ValidUsers(file.db)))
  BY <1>2, <1>4
<1> QED
  BY <1>3, <1>4

LEMMA RequestsStep == RequestsOK /\ TypeOK /\ [Next]_vars => RequestsOK'
<1> SUFFICES ASSUME RequestsOK, TypeOK, [Next]_vars PROVE RequestsOK'
  OBVIOUS
<1>1. ASSUME NEW r \in Req, Login(r) PROVE RequestsOK'
  <2>1. PICK u \in Id :
          req' = [req EXCEPT ![r] = [Idle EXCEPT !.pc = "session", !.kind = "login", !.target = u]]
    BY <1>1 DEF Login
  <2> DEFINE q == [Idle EXCEPT !.pc = "session", !.kind = "login", !.target = u]
  <2>2. q \in Request /\ WellFormed(q)
    BY DEF Idle, Request, Places, Ended, AdminKinds, Sections, WellFormed
  <2> QED
    BY <2>1, <2>2, PutRequest
<1>2. ASSUME NEW r \in Req, Logout(r) PROVE RequestsOK'
  <2> DEFINE q == [Idle EXCEPT !.pc = "ok", !.kind = "logout"]
  <2>1. q \in Request /\ WellFormed(q)
    BY DEF Idle, Request, Places, Ended, AdminKinds, WellFormed, Aimed, Sections
  <2> QED
    BY <1>2, <2>1, PutRequest DEF Logout
<1>3. ASSUME NEW r \in Req, Cookie(r) PROVE RequestsOK'
  <2>1. PICK k \in AdminKinds \cup {"change"}, s \in Id :
          /\ Sessions!Live(s)
          /\ req' = [req EXCEPT ![r] =
                       [Idle EXCEPT !.pc = "whoami", !.kind = k, !.actor = sessions[s]]]
    BY <1>3 DEF Cookie
  <2> DEFINE q == [Idle EXCEPT !.pc = "whoami", !.kind = k, !.actor = sessions[s]]
  <2>2. sessions[s] \in Id
    BY <2>1 DEF TypeOK, TablesOK, Sessions!TypeOK, Sessions!Live
  <2>3. q \in Request
    BY <2>2 DEF Idle, Request, Places, Ended, AdminKinds
  <2>4. WellFormed(q)
    BY DEF Idle, Sections, AdminKinds, WellFormed, Aimed
  <2> QED
    BY <2>1, <2>3, <2>4, PutRequest
<1>4. ASSUME NEW r \in Req, RegisterPage(r) PROVE RequestsOK'
  <2> DEFINE q == [Idle EXCEPT !.pc = "write", !.kind = "register", !.target = r]
  <2>1. q \in Request /\ WellFormed(q)
    BY DEF Idle, Request, Places, Ended, AdminKinds, Sections, Id, WellFormed
  <2> QED
    BY <1>4, <2>1, PutRequest DEF RegisterPage
<1>5. ASSUME NEW r \in Req, PeekLink(r) PROVE RequestsOK'
  <2>1. PICK t \in Req : /\ Links!Known(t)
                         /\ req' = [req EXCEPT ![r] =
                              IF Links!Valid(t)
                                THEN [pc |-> "look", kind |-> "setpw", actor |-> NoUser,
                                      target |-> byToken[t].user, token |-> t]
                                ELSE [Idle EXCEPT !.pc = "fail"]]
    BY <1>5 DEF PeekLink
  <2>2. byToken[t].user \in Id
    BY <2>1 DEF TypeOK, TablesOK, Links!TypeOK, Links!Known, Links!Entry
  <2>3. CASE Links!Valid(t)
    <3> DEFINE q == [pc |-> "look", kind |-> "setpw", actor |-> NoUser,
                     target |-> byToken[t].user, token |-> t]
    <3>1. q \in Request /\ WellFormed(q)
      BY <2>2 DEF Request, Places, Sections, WellFormed
    <3> QED
      BY <2>1, <2>3, <3>1, PutRequest
  <2>4. CASE ~Links!Valid(t)
    BY <2>1, <2>4, FailRequest
  <2> QED
    BY <2>3, <2>4
<1>6. ASSUME NEW r \in Req, WhoAmI(r) PROVE RequestsOK'
  <2>1. CASE req[r].kind = "change" /\ Go(r, "check")
    BY <2>1, GoRequest DEF Sections, Aimed
  <2>2. CASE req[r].kind \in AdminKinds \ {"alink"} /\ Go(r, "verify")
    BY <2>2, GoRequest DEF Sections, AdminKinds, Aimed
  <2>3. CASE /\ req[r].kind = "alink"
             /\ \E u \in Users!Present(users) \ {req[r].actor} :
                  req' = [req EXCEPT ![r].pc = "look", ![r].target = u]
    <3>1. PICK u \in Id : req' = [req EXCEPT ![r].pc = "look", ![r].target = u]
      BY <2>3 DEF Users!Present
    <3> QED
      BY <2>3, <3>1, AimRequest DEF Sections
  <2> QED
    BY <1>6, <2>1, <2>2, <2>3 DEF WhoAmI
<1>7. ASSUME NEW r \in Req, VerifyCaller(r) PROVE RequestsOK'
  <2> DEFINE x == IF req[r].kind = "areset" THEN "look" ELSE "write"
  <2>1. PICK u \in Id : req' = [req EXCEPT ![r].pc = x, ![r].target = u]
    BY <1>7 DEF VerifyCaller, Users!Present, Id
  <2>2. x \in Sections(req[r].kind)
    BY <1>7, KindsAt DEF VerifyCaller, AdminKinds, Sections
  <2> QED
    BY <2>1, <2>2, AimRequest
<1>8. ASSUME NEW r \in Req, CheckOldPassword(r) PROVE RequestsOK'
  <2>1. req[r].actor \in Id
    BY <1>8 DEF CheckOldPassword, Users!CanVerify, Users!Get, Users!Present
  <2>2. "write" \in Sections(req[r].kind)
    BY <1>8, KindsAt DEF CheckOldPassword, Sections
  <2> QED
    BY <1>8, <2>1, <2>2, AimRequest DEF CheckOldPassword
<1>9. ASSUME NEW r \in Req, LookUp(r) PROVE RequestsOK'
  <2>1. (IF req[r].kind = "alink" THEN "mint" ELSE "write") \in Sections(req[r].kind)
    BY <1>9, KindsAt DEF LookUp, Sections
  <2> QED
    BY <1>9, <2>1, GoRequest, KindsAt DEF At, Aimed, LookUp
<1>10. ASSUME NEW r \in Req, Reject(r) \/ Refuse(r) PROVE RequestsOK'
  BY <1>10, FailRequest DEF Reject, Refuse
<1>11. ASSUME NEW r \in Req, Write(r) PROVE RequestsOK'
  <2>1. "save" \in Sections(req[r].kind)
    BY <1>11, KindsAt DEF Write, Sections, Mutating, RegisterKinds, PasswordKinds
  <2> QED
    BY <1>11, <2>1, GoRequest, KindsAt DEF At, Aimed, Write
<1>12. ASSUME NEW r \in Req, SaveNothing(r) \/ SaveCommit(r) PROVE RequestsOK'
  <2>1. AfterSave(req[r].kind) \in Sections(req[r].kind) \cup Ended
    BY <1>12, KindsAt
       DEF SaveNothing, SaveCommit, AfterSave, Sections, Ended, Mutating, RegisterKinds, PasswordKinds
  <2> QED
    BY <1>12, <2>1, GoRequest, KindsAt DEF At, Aimed, SaveNothing, SaveCommit
<1>13. ASSUME NEW r \in Req, SaveBegin(r) PROVE RequestsOK'
  <2>1. "rename" \in Sections(req[r].kind)
    BY <1>13, KindsAt DEF SaveBegin, Sections, Mutating, RegisterKinds, PasswordKinds
  <2> QED
    BY <1>13, <2>1, GoRequest, KindsAt DEF At, Aimed, SaveBegin
<1>14. ASSUME NEW r \in Req, ConsumeLink(r) PROVE RequestsOK'
  <2>1. "purge" \in Sections(req[r].kind)
    BY <1>14, KindsAt DEF ConsumeLink, Sections
  <2> QED
    BY <1>14, <2>1, GoRequest, KindsAt DEF At, Aimed, ConsumeLink
<1>15. ASSUME NEW r \in Req, SignOut(r) PROVE RequestsOK'
  <2>1. AfterPurge(req[r].kind) \in Sections(req[r].kind) \cup Ended
    BY DEF AfterPurge, Sections, Ended
  <2> QED
    BY <1>15, <2>1, GoRequest, KindsAt DEF At, Aimed, SignOut
<1>16. ASSUME NEW r \in Req,
              SaveFail(r) \/ CreateSession(r) \/ MintLink(r) \/ MintFail(r)
       PROVE RequestsOK'
  <2>1. {"ok", "error"} \subseteq Ended \ Aimed
    BY DEF Ended, Aimed
  <2> QED
    BY <1>16, <2>1, GoRequest DEF Aimed, SaveFail, CreateSession, MintLink, MintFail
<1>17. CASE Crash
  <2>2. "lost" \in Ended /\ "lost" \in Places
    BY DEF Ended, Places
  <2>3. ASSUME NEW r \in Req
        PROVE req'[r] \in Request /\ WellFormed(req'[r])
    <3>1. CASE /\ req'[r] = [req[r] EXCEPT !.pc = "lost"]
               /\ req'[r].kind = req[r].kind /\ req'[r].token = req[r].token
               /\ req'[r].pc = "lost"
      <4>1. req[r] \in Request
        BY DEF RequestsOK
      <4> QED
        BY <2>2, <3>1, <4>1 DEF Request, RequestsOK, WellFormed, Ended, Aimed
    <3>2. CASE req'[r] = req[r]
      BY <3>2 DEF RequestsOK
    <3> QED
      BY <1>17, <3>1, <3>2, CrashMoves
  <2>4. req' \in [Req -> Request]
    BY <1>17, <2>3 DEF Crash
  <2> QED
    BY <2>3, <2>4 DEF RequestsOK
<1>18. CASE Tick \/ UNCHANGED vars
  BY <1>18 DEF Tick, vars, RequestsOK
<1> QED
  BY <1>1, <1>2, <1>3, <1>4, <1>5, <1>6, <1>7, <1>8, <1>9, <1>10, <1>11, <1>12, <1>13,
     <1>14, <1>15, <1>16, <1>17, <1>18 DEF Next, Start, Serve

(***************************************************************************)
(* Three things make databases of others without anybody's asking: a save  *)
(* (json.Marshal), a restart (applySeedPasswords), and taking over the     *)
(* result.  Recast says what they leave alone, n being the crashes so far. *)
(***************************************************************************)
SameButFor(n, old, new) ==
  /\ new.name \in {old.name, InFile[old.name]}
  /\ new.email \in {old.email, InFile[old.email]}
  /\ new.groups = old.groups
  /\ new.pw = old.pw \/ (n > 0 /\ SetByStart(new))

Recast(n, old, new) ==
  \A u \in Id :
    /\ new[u] = NoUser <=> old[u] = NoUser
    /\ old[u] # NoUser => SameButFor(n, old[u], new[u])

InFileOf(info) == [info EXCEPT !.name = InFile[info.name], !.email = InFile[info.email]]

LEMMA RecordWritten ==
  ASSUME NEW info \in Users!UserInfo
  PROVE /\ InFileOf(info) \in Users!UserInfo
        /\ InFileOf(info).name = InFile[info.name]
        /\ InFileOf(info).email = InFile[info.email]
        /\ InFileOf(info).pw = info.pw /\ InFileOf(info).groups = info.groups
<1>1. InFile[info.name] \in Name /\ InFile[info.email] \in Email \cup {NoEmail}
  BY JSONAssumption DEF Users!UserInfo
<1> QED
  BY <1>1 DEF InFileOf, Users!UserInfo

LEMMA WrittenRecord ==
  ASSUME NEW db \in Users!Database, NEW u \in Id
  PROVE /\ db[u] = NoUser => Users!Written(db)[u] = NoUser
        /\ db[u] # NoUser =>
             /\ db[u] \in Users!UserInfo
             /\ Users!Written(db)[u] \in Users!UserInfo
             /\ Users!Written(db)[u] # NoUser
             /\ Users!Written(db)[u].name = InFile[db[u].name]
             /\ Users!Written(db)[u].email = InFile[db[u].email]
             /\ Users!Written(db)[u].groups = db[u].groups
             /\ Users!Written(db)[u].pw = db[u].pw
<1>1. Users!Written(db)[u] = IF db[u] = NoUser THEN NoUser ELSE InFileOf(db[u])
  BY DEF Users!Written, InFileOf
<1>2. CASE db[u] # NoUser
  <2>1. db[u] \in Users!UserInfo
    BY <1>2 DEF Users!Database
  <2>2. Users!Written(db)[u] = InFileOf(db[u])
    BY <1>1, <1>2
  <2> QED
    BY <2>1, <2>2, RecordWritten, DatabaseAssumption
<1> QED
  BY <1>1, <1>2

LEMMA WrittenTyped ==
  ASSUME NEW db \in Users!Database
  PROVE Users!Written(db) \in Users!Database
<1>1. \A u \in Id : Users!Written(db)[u] \in Users!UserInfo \cup {NoUser}
  BY WrittenRecord
<1> QED
  BY <1>1 DEF Users!Written, Users!Database

LEMMA WrittenRecasts ==
  ASSUME NEW n, NEW db \in Users!Database
  PROVE Recast(n, db, Users!Written(db))
  BY WrittenRecord DEF Recast, SameButFor

LEMMA ConfiguredRecord ==
  ASSUME NEW db \in Users!Database, NEW u \in Id
  PROVE /\ db[u] = NoUser => Configured(db)[u] = NoUser
        /\ db[u] # NoUser =>
             /\ db[u] \in Users!UserInfo
             /\ Configured(db)[u] \in Users!UserInfo
             /\ Configured(db)[u] # NoUser
             /\ Configured(db)[u].name = db[u].name
             /\ Configured(db)[u].email = db[u].email
             /\ Configured(db)[u].groups = db[u].groups
             /\ Configured(db)[u].pw = db[u].pw \/ SetByStart(Configured(db)[u])
<1> DEFINE x == [db[u] EXCEPT !.pw = Preset]
<1>1. Configured(db)[u] =
        IF db[u] # NoUser /\ db[u].name \in PresetNames THEN x ELSE db[u]
  BY DEF Configured
<1>2. CASE db[u] # NoUser
  <2>1. db[u] \in Users!UserInfo
    BY <1>2 DEF Users!Database
  <2>2. /\ x \in Users!UserInfo /\ x.name = db[u].name /\ x.email = db[u].email
        /\ x.groups = db[u].groups /\ x.pw = Preset
    BY <2>1 DEF Users!UserInfo
  <2>3. x # NoUser
    BY <2>2, DatabaseAssumption
  <2>4. CASE db[u].name \in PresetNames
    <3>1. Configured(db)[u] = x
      BY <1>1, <1>2, <2>4
    <3>2. SetByStart(x)
      BY <2>2, <2>4 DEF SetByStart
    <3> HIDE DEF x
    <3> QED
      BY <1>2, <2>1, <2>2, <2>3, <3>1, <3>2
  <2>5. CASE db[u].name \notin PresetNames
    BY <1>1, <1>2, <2>1, <2>5
  <2> QED
    BY <2>4, <2>5
<1> QED
  BY <1>1, <1>2

LEMMA ConfiguredTyped ==
  ASSUME NEW db \in Users!Database
  PROVE Configured(db) \in Users!Database
<1>1. \A u \in Id : Configured(db)[u] \in Users!UserInfo \cup {NoUser}
  BY ConfiguredRecord
<1> QED
  BY <1>1 DEF Configured, Users!Database

\* What a restart makes of a database.
LEMMA StartedRecord ==
  ASSUME NEW db \in Users!Database
  PROVE /\ Started(db) \in Users!Database
        /\ \A u \in Id :
             /\ Started(db)[u] = NoUser <=> db[u] = NoUser
             /\ db[u] # NoUser =>
                  /\ Started(db)[u].name = db[u].name
                  /\ Started(db)[u].email = db[u].email
                  /\ Started(db)[u].groups = db[u].groups
                  /\ Started(db)[u].pw = db[u].pw \/ SetByStart(Started(db)[u])
<1>1. CASE Users!ValidUsers(db)
  <2>1. Started(db) = Configured(db)
    BY <1>1 DEF Started
  <2> QED
    BY <2>1, ConfiguredTyped, ConfiguredRecord
<1>2. CASE ~Users!ValidUsers(db)
  BY <1>2 DEF Started
<1> QED
  BY <1>1, <1>2

LEMMA StartedRecasts ==
  ASSUME NEW n, n > 0, NEW db \in Users!Database
  PROVE Recast(n, db, Started(db))
  BY StartedRecord DEF Recast, SameButFor

LEMMA GrantedGroupsAreGroups ==
  ASSUME NEW g \in SUBSET Group PROVE Users!GrantedGroups(g) \in SUBSET Group
  BY NameAssumption DEF Users!GrantedGroups

LEMMA UsersStep == TypeOK /\ [Next]_vars => users' \in Users!Database
<1> SUFFICES ASSUME TypeOK, [Next]_vars PROVE users' \in Users!Database
  OBVIOUS
<1>1. ASSUME NEW r \in Req, Write(r) PROVE users' \in Users!Database
  <2>1. CASE \E f \in Form(r) : Users!Register(r, f.name, Hashed(r), f.groups, f.email, SelfService(r))
    <3>1. PICK f \in Form(r) : Users!Register(r, f.name, Hashed(r), f.groups, f.email, SelfService(r))
      BY <2>1
    <3> DEFINE i == [name |-> f.name, email |-> f.email, pw |-> Hashed(r),
                     groups |-> Users!GrantedGroups(f.groups)]
    <3>2. f.name \in Name /\ f.email \in Email \cup {NoEmail} /\ f.groups \in SUBSET Group
      BY NameAssumption DEF Form
    <3>3. Hashed(r) \in Id \cup {Locked, Preset}
      BY DEF Hashed, Id
    <3>4. i \in Users!UserInfo
      BY <3>2, <3>3, GrantedGroupsAreGroups DEF Users!UserInfo
    <3>5. users' = [users EXCEPT ![r] = i]
      BY <3>1 DEF Users!Register
    <3> QED
      BY <3>4, <3>5 DEF TypeOK, Users!Database
  <2>2. CASE Users!SetHash(req[r].target, r)
    <3>1. r \in Id \cup {Locked, Preset}
      BY DEF Id
    <3> QED
      BY <2>2, <3>1
         DEF TypeOK, Users!Database, Users!SetHash, Users!Get, Users!Present, Users!UserInfo
  <2>3. CASE Users!Delete(req[r].target)
    BY <2>3 DEF TypeOK, Users!Database, Users!Delete
  <2>4. CASE \E g \in FormGroups : Users!SetGroups(req[r].target, g)
    BY <2>4, NameAssumption
       DEF TypeOK, Users!Database, Users!SetGroups, Users!Get, Users!Present, Users!UserInfo
  <2> QED
    BY <1>1, <2>1, <2>2, <2>3, <2>4 DEF Write
<1>2. CASE Crash
  <2>1. Users!EmptyDB \in Users!Database
    BY DEF Users!EmptyDB, Users!Database
  <2>2. Started(file.db) \in Users!Database
    BY StartedRecord DEF TypeOK, DiskOK, Snapshot
  <2> QED
    BY <1>2, <2>1, <2>2 DEF Crash
<1>3. ASSUME UNCHANGED users PROVE users' \in Users!Database
  BY <1>3 DEF TypeOK
<1> QED
  BY <1>1, <1>2, <1>3
     DEF Next, Start, Serve, vars, store, Login, Logout, Cookie, RegisterPage, PeekLink, WhoAmI,
         VerifyCaller, CheckOldPassword, LookUp, Reject, Refuse, SaveNothing, SaveBegin,
         SaveCommit, SaveFail, ConsumeLink, SignOut, CreateSession, MintLink, MintFail, Tick

\* The steps that leave the reset links, or the sessions, alone need no look.
LEMMA LinksStep == TypeOK /\ [Next]_vars => Links!TypeOK'
<1> SUFFICES ASSUME TypeOK, [Next]_vars PROVE Links!TypeOK'
  OBVIOUS
<1> USE DEF Links!TypeOK
<1>0. Links!TypeOK /\ RequestsOK
  BY DEF TypeOK, TablesOK
<1>1. ASSUME NEW r \in Req, PeekLink(r) PROVE Links!TypeOK'
  <2>1. PICK t \in Req : Links!Peek(t) /\ UNCHANGED now
    BY <1>1 DEF PeekLink
  <2> QED
    BY <1>0, <2>1 DEF Links!Peek, Links!Remove, Links!NoEntry
<1>2. ASSUME NEW r \in Req, ConsumeLink(r) PROVE Links!TypeOK'
  <2>1. req[r].token \in Req
    BY <1>0, <1>2, KindsAt DEF ConsumeLink
  <2> QED
    BY <1>0, <1>2, <2>1 DEF ConsumeLink, Links!Consume, Links!Remove, Links!NoEntry
<1>3. ASSUME NEW r \in Req, MintLink(r) PROVE Links!TypeOK'
  <2>1. req[r].target \in Id
    BY <1>0, <1>3, KindsAt DEF MintLink, At, Aimed
  <2>2. now + TTL \in Nat
    BY <1>0, BoundAssumption
  <2> QED
    BY <1>0, <1>3, <2>1, <2>2 DEF MintLink, Links!Create, Links!Entry, Links!NoEntry
<1>4. CASE Tick
  BY <1>0, <1>4 DEF Tick, Links!Tick
<1>5. CASE Crash
  BY <1>0, <1>5 DEF Crash, Links!Forget, Links!NoEntry
<1>6. ASSUME UNCHANGED links PROVE Links!TypeOK'
  BY <1>0, <1>6 DEF links
<1> QED
  BY <1>1, <1>2, <1>3, <1>4, <1>5, <1>6
     DEF Next, Start, Serve, vars, links, Login, Logout, Cookie, RegisterPage, WhoAmI,
         VerifyCaller, CheckOldPassword, LookUp, Reject, Write, Refuse, SaveNothing, SaveBegin,
         SaveCommit, SaveFail, SignOut, CreateSession, MintFail

LEMMA SessionsStep == TypeOK /\ [Next]_vars => Sessions!TypeOK'
<1> SUFFICES ASSUME TypeOK, [Next]_vars PROVE Sessions!TypeOK'
  OBVIOUS
<1> USE DEF Sessions!TypeOK
<1>0. Sessions!TypeOK /\ RequestsOK
  BY DEF TypeOK, TablesOK
<1>1. ASSUME NEW r \in Req, Logout(r) PROVE Sessions!TypeOK'
  BY <1>0, <1>1 DEF Logout, Sessions!Delete
<1>2. ASSUME NEW r \in Req, SignOut(r) PROVE Sessions!TypeOK'
  BY <1>0, <1>2 DEF SignOut, Sessions!DeleteUserSessions
<1>3. ASSUME NEW r \in Req, CreateSession(r) PROVE Sessions!TypeOK'
  <2>1. req[r].target \in Id
    BY <1>0, <1>3, KindsAt DEF CreateSession, At, Aimed
  <2> QED
    BY <1>0, <1>3, <2>1 DEF CreateSession, Sessions!Create
<1>4. CASE Crash
  BY <1>0, <1>4 DEF Crash, Sessions!Forget
<1>5. ASSUME UNCHANGED sessions PROVE Sessions!TypeOK'
  BY <1>0, <1>5
<1> QED
  BY <1>1, <1>2, <1>3, <1>4, <1>5
     DEF Next, Start, Serve, vars, Login, Cookie, RegisterPage, PeekLink, WhoAmI,
         VerifyCaller, CheckOldPassword, LookUp, Reject, Write, Refuse, SaveNothing, SaveBegin,
         SaveCommit, SaveFail, ConsumeLink, MintLink, MintFail, Tick

LEMMA CrashFile ==
  ASSUME TypeOK, Crash
  PROVE /\ file' \in Snapshot /\ file'.log = file.log /\ file'.db = Started(file.db)
        /\ users' = IF Persistent THEN file'.db ELSE Users!EmptyDB
<1>1. file \in Snapshot /\ file' = [file EXCEPT !.db = Started(file.db)]
  BY DEF Crash, TypeOK, DiskOK
<1>2. Started(file.db) \in Users!Database
  BY <1>1, StartedRecord DEF Snapshot
<1>3. file' \in Snapshot /\ file'.log = file.log /\ file'.db = Started(file.db)
  BY <1>1, <1>2 DEF Snapshot
<1> QED
  BY <1>3 DEF Crash

LEMMA DiskStep == TypeOK /\ [Next]_vars => DiskOK'
<1> SUFFICES ASSUME TypeOK, [Next]_vars PROVE DiskOK'
  OBVIOUS
<1> USE DEF DiskOK
<1>0. DiskOK /\ users \in Users!Database /\ applied \subseteq Req
  BY DEF TypeOK, HistoryOK
<1>1. NoSnapshot \in Snapshot
  BY DEF NoSnapshot, Snapshot, Users!EmptyDB, Users!Database
<1>2. ASSUME NEW r \in Req, SaveBegin(r) PROVE DiskOK'
  <2>1. [db |-> Users!Written(users), log |-> applied] \in Snapshot
    BY <1>0, WrittenTyped DEF Snapshot
  <2> QED
    BY <1>0, <1>2, <2>1 DEF SaveBegin
<1>3. ASSUME NEW r \in Req, SaveCommit(r) \/ SaveFail(r) PROVE DiskOK'
  BY <1>0, <1>1, <1>3 DEF SaveCommit, SaveFail
<1>4. CASE Crash
  <2>1. file' \in Snapshot
    BY <1>4, CrashFile
  <2> QED
    BY <1>0, <1>1, <1>4, <2>1 DEF Crash
<1>5. ASSUME UNCHANGED disk PROVE DiskOK'
  BY <1>0, <1>5 DEF disk
<1> QED
  BY <1>2, <1>3, <1>4, <1>5
     DEF Next, Start, Serve, vars, disk, Login, Logout, Cookie, RegisterPage, PeekLink, WhoAmI,
         VerifyCaller, CheckOldPassword, LookUp, Reject, Write, Refuse, SaveNothing,
         ConsumeLink, SignOut, CreateSession, MintLink, MintFail, Tick

\* Nobody but a request that proves or sets a password writes cred.
LEMMA HistoryStep == TypeOK /\ [Next]_vars => HistoryOK'
<1> SUFFICES ASSUME TypeOK, [Next]_vars PROVE HistoryOK'
  OBVIOUS
<1> USE DEF HistoryOK
<1>0. HistoryOK
  BY DEF TypeOK
<1>1. \A u \in Id : Users!CanVerify(u) => users[u].pw \in Id \cup {Locked, Preset}
  BY DEF TypeOK, Users!CanVerify, Users!Get, Users!Present, Users!Database, Users!UserInfo
<1>2. Req \subseteq Id
  BY DEF Id
<1>3. ASSUME NEW r \in Req, Login(r) PROVE HistoryOK'
  BY <1>0, <1>1, <1>2, <1>3 DEF Login, store
<1>4. ASSUME NEW r \in Req, CheckOldPassword(r) PROVE HistoryOK'
  <2>1. req[r].actor \in Id
    BY <1>4 DEF CheckOldPassword, Users!CanVerify, Users!Get, Users!Present
  <2> QED
    BY <1>0, <1>1, <1>2, <1>4, <2>1 DEF CheckOldPassword, store
<1>5. ASSUME NEW r \in Req, Write(r) PROVE HistoryOK'
  BY <1>0, <1>2, <1>5 DEF Write
<1>6. ASSUME NEW r \in Req, SignOut(r) PROVE HistoryOK'
  BY <1>0, <1>6 DEF SignOut, store
<1>7. CASE Crash
  <2>1. file.log \subseteq Req
    BY DEF TypeOK, DiskOK, Snapshot
  <2> QED
    BY <1>0, <1>7, <2>1 DEF Crash
<1>8. ASSUME UNCHANGED <<cred, applied, overtaken>> PROVE HistoryOK'
  BY <1>0, <1>8
<1> QED
  BY <1>3, <1>4, <1>5, <1>6, <1>7, <1>8
     DEF Next, Start, Serve, vars, store, Logout, Cookie, RegisterPage, PeekLink, WhoAmI,
         VerifyCaller, LookUp, Reject, Refuse, SaveNothing, SaveBegin, SaveCommit, SaveFail,
         ConsumeLink, CreateSession, MintLink, MintFail, Tick

LEMMA InitTypes == Init => TypeOK
<1> SUFFICES ASSUME Init PROVE TypeOK
  OBVIOUS
<1>1. users \in Users!Database
  BY DatabaseAssumption DEF Init
<1>2. Users!EmptyDB \in Users!Database
  BY DEF Users!EmptyDB, Users!Database
<1>3. TablesOK
  BY DEF Init, TablesOK, Sessions!TypeOK, Links!Init, Links!TypeOK, Links!NoEntry
<1>4. RequestsOK
  BY IdleIsRequest DEF Init, RequestsOK, WellFormed, Idle, Sections, Ended, Aimed
<1>5. DiskOK
  BY <1>1, <1>2 DEF Init, DiskOK, Snapshot, NoSnapshot
<1>6. HistoryOK /\ crashes \in Nat
  <2>1. \A i \in Id : Users!Get(i) => users[i].pw \in Id \cup {Locked, Preset}
    BY <1>1 DEF Users!Get, Users!Present, Users!Database, Users!UserInfo
  <2> QED
    BY <2>1 DEF Init, HistoryOK
<1> QED
  BY <1>1, <1>3, <1>4, <1>5, <1>6 DEF TypeOK

LEMMA TypesStep == TypeOK /\ [Next]_vars => TypeOK'
<1> SUFFICES ASSUME TypeOK, [Next]_vars PROVE TypeOK'
  OBVIOUS
<1>1. users' \in Users!Database
  BY UsersStep
<1>2. TablesOK'
  BY LinksStep, SessionsStep DEF TablesOK
<1>3. RequestsOK'
  BY RequestsStep DEF TypeOK
<1>4. DiskOK' /\ HistoryOK'
  BY DiskStep, HistoryStep
<1>5. CASE UNCHANGED crashes
  BY <1>1, <1>2, <1>3, <1>4, <1>5 DEF TypeOK
<1>6. CASE Crash
  <2>1. crashes' \in Nat
    BY <1>6 DEF TypeOK, Crash
  <2> QED
    BY <1>1, <1>2, <1>3, <1>4, <2>1 DEF TypeOK
<1> QED
  BY <1>5, <1>6
     DEF Next, Start, Serve, vars, Login, Logout, Cookie, RegisterPage, PeekLink, WhoAmI,
         VerifyCaller, CheckOldPassword, LookUp, Reject, Write, Refuse, SaveNothing, SaveBegin,
         SaveCommit, SaveFail, ConsumeLink, SignOut, CreateSession, MintLink, MintFail, Tick

\* In every reachable state, however many requests interleave, every table is
\* well typed, and no handler is in a critical section that its route lacks or
\* without the user or the token it is about to write for.
THEOREM AccountsTypes == Spec => []TypeOK
  BY InitTypes, TypesStep, PTL DEF Spec

(***************************************************************************)
(* What the handlers, SaveUsers, failing saves and restarts do together to *)
(* the user file: SavesNest is inductive, so success pages are durable,    *)
(* the file never goes back, and the whole implements DurableLog.          *)
(***************************************************************************)

\* A step that moves one request and leaves the database, the file and the
\* saves alone.
LEMMA HarmlessStep ==
  ASSUME TypeOK, SavesNest, NEW r \in Req, NEW q,
         req' = [req EXCEPT ![r] = q], UNCHANGED <<applied, disk>>,
         r \in applied => q.pc \notin Before,
         q.pc \notin {"save", "rename"},
         Persistent /\ q.kind \in Mutating /\ q.pc \in After => r \in file.log
  PROVE SavesNest'
<1>1. /\ req'[r] = q
      /\ \A p \in Req : p # r => req'[p] = req[p]
  BY DEF TypeOK, RequestsOK
<1> QED
  BY <1>1 DEF SavesNest, SaveInOrder, At, disk

\* The same for a step that only moves the pc of the request, after its write.
LEMMA HarmlessGo ==
  ASSUME TypeOK, SavesNest, NEW r \in Req, NEW x,
         Go(r, x), UNCHANGED <<applied, disk>>,
         x \notin Before \cup {"save", "rename"},
         Persistent /\ req[r].kind \in Mutating /\ x \in After => r \in file.log
  PROVE SavesNest'
<1> DEFINE q == [req[r] EXCEPT !.pc = x]
<1>1. req' = [req EXCEPT ![r] = q]
  BY DEF Go
<1>2. q.pc = x /\ q.kind = req[r].kind
  BY DEF TypeOK, RequestsOK, Request
<1> QED
  BY <1>1, <1>2, HarmlessStep

\* A step up to the write, or an early return before it.
LEMMA HarmlessBefore ==
  ASSUME TypeOK, SavesNest, NEW r \in Req,
         req[r].pc \in Before, UNCHANGED <<applied, disk>>,
         \E q : req' = [req EXCEPT ![r] = q] /\ q.pc \in Before \cup {"fail"}
  PROVE SavesNest'
<1>1. PICK q : req' = [req EXCEPT ![r] = q] /\ q.pc \in Before \cup {"fail"}
  OBVIOUS
<1>2. r \notin applied
  BY DEF SavesNest, SaveInOrder
<1>3. q.pc \notin After \cup {"save", "rename"}
  BY <1>1 DEF Before, After
<1> QED
  BY <1>1, <1>2, <1>3, HarmlessStep

LEMMA InitSaves == Init => SavesNest
  BY DEF Init, SavesNest, SaveInOrder, Idle, At, Mutating, RegisterKinds, PasswordKinds

LEMMA StartSaves ==
  ASSUME TypeOK, SavesNest, NEW r \in Req, Start(r)
  PROVE SavesNest'
<1> USE DEF At, store, Before
<1>1. CASE Login(r)
  <2>1. PICK u \in Id :
          req' = [req EXCEPT ![r] = [Idle EXCEPT !.pc = "session", !.kind = "login", !.target = u]]
    BY <1>1 DEF Login
  <2> DEFINE q == [Idle EXCEPT !.pc = "session", !.kind = "login", !.target = u]
  <2>2. q.pc = "session" /\ q.kind = "login" /\ q.kind \notin Mutating
    BY DEF Idle, Mutating, RegisterKinds, PasswordKinds
  <2>3. r \notin applied
    BY <1>1 DEF Login, SavesNest
  <2> QED
    BY <1>1, <2>1, <2>2, <2>3, HarmlessStep DEF Login
<1>2. CASE Logout(r)
  <2> DEFINE q == [Idle EXCEPT !.pc = "ok", !.kind = "logout"]
  <2>1. q.pc = "ok" /\ q.kind \notin Mutating
    BY DEF Idle, Mutating, RegisterKinds, PasswordKinds
  <2>2. r \notin applied
    BY <1>2 DEF Logout, SavesNest
  <2> QED
    BY <1>2, <2>1, <2>2, HarmlessStep DEF Logout
<1>3. CASE Cookie(r)
  <2>1. PICK k \in AdminKinds \cup {"change"}, s \in Id :
          req' = [req EXCEPT ![r] =
                    [Idle EXCEPT !.pc = "whoami", !.kind = k, !.actor = sessions[s]]]
    BY <1>3 DEF Cookie
  <2> DEFINE q == [Idle EXCEPT !.pc = "whoami", !.kind = k, !.actor = sessions[s]]
  <2>2. q.pc \in Before \cup {"fail"}
    BY DEF Idle
  <2>3. req[r].pc \in Before /\ UNCHANGED <<applied, disk>>
    BY <1>3 DEF Cookie
  <2>4. \E v : req' = [req EXCEPT ![r] = v] /\ v.pc \in Before \cup {"fail"}
    BY <2>1, <2>2
  <2> QED
    BY <2>3, <2>4, HarmlessBefore
<1>4. CASE RegisterPage(r)
  <2> DEFINE q == [Idle EXCEPT !.pc = "write", !.kind = "register", !.target = r]
  <2>1. q.pc \in Before \cup {"fail"}
    BY DEF Idle
  <2>2. req[r].pc \in Before /\ UNCHANGED <<applied, disk>>
    BY <1>4 DEF RegisterPage
  <2>3. \E v : req' = [req EXCEPT ![r] = v] /\ v.pc \in Before \cup {"fail"}
    BY <1>4, <2>1 DEF RegisterPage
  <2> QED
    BY <2>2, <2>3, HarmlessBefore
<1>5. CASE PeekLink(r)
  <2>1. PICK t \in Req :
          req' = [req EXCEPT ![r] =
                    IF Links!Valid(t)
                      THEN [pc |-> "look", kind |-> "setpw", actor |-> NoUser,
                            target |-> byToken[t].user, token |-> t]
                      ELSE [Idle EXCEPT !.pc = "fail"]]
    BY <1>5 DEF PeekLink
  <2> DEFINE q == IF Links!Valid(t)
                    THEN [pc |-> "look", kind |-> "setpw", actor |-> NoUser,
                          target |-> byToken[t].user, token |-> t]
                    ELSE [Idle EXCEPT !.pc = "fail"]
  <2>2. q.pc \in Before \cup {"fail"}
    BY DEF Idle
  <2>3. req[r].pc \in Before /\ UNCHANGED <<applied, disk>>
    BY <1>5 DEF PeekLink
  <2>4. \E v : req' = [req EXCEPT ![r] = v] /\ v.pc \in Before \cup {"fail"}
    BY <2>1, <2>2
  <2> QED
    BY <2>3, <2>4, HarmlessBefore
<1> QED
  BY <1>1, <1>2, <1>3, <1>4, <1>5 DEF Start

\* The checks and refusals before the write.
LEMMA CheckSaves ==
  ASSUME TypeOK, SavesNest, NEW r \in Req,
         WhoAmI(r) \/ VerifyCaller(r) \/ CheckOldPassword(r)
           \/ (LookUp(r) /\ req[r].kind # "alink") \/ Reject(r) \/ Refuse(r)
  PROVE SavesNest'
<1>1. req[r].pc \in Before
  BY DEF WhoAmI, VerifyCaller, CheckOldPassword, LookUp, Reject, Refuse, At, Before
<1>2. UNCHANGED <<applied, disk>>
  BY DEF WhoAmI, VerifyCaller, CheckOldPassword, LookUp, Reject, Refuse, store
<1>3. PICK q : req' = [req EXCEPT ![r] = q] /\ q.pc \in Before \cup {"fail"}
  <2>1. CASE \E x \in Before : Go(r, x)
    <3>1. PICK x \in Before : Go(r, x)
      BY <2>1
    <3> DEFINE q == [req[r] EXCEPT !.pc = x]
    <3>2. q.pc = x
      BY DEF TypeOK, RequestsOK, Request
    <3>3. req' = [req EXCEPT ![r] = q]
      BY <3>1 DEF Go
    <3> QED
      BY <3>1, <3>2, <3>3
  <2>2. CASE \E x \in Before, u \in Id : req' = [req EXCEPT ![r].pc = x, ![r].target = u]
    <3>1. PICK x \in Before, u \in Id : req' = [req EXCEPT ![r].pc = x, ![r].target = u]
      BY <2>2
    <3> DEFINE q == [req[r] EXCEPT !.pc = x, !.target = u]
    <3>2. q.pc = x
      BY DEF TypeOK, RequestsOK, Request
    <3>3. req' = [req EXCEPT ![r] = q]
      BY <3>1 DEF TypeOK, RequestsOK
    <3> QED
      BY <3>1, <3>2, <3>3
  <2>3. CASE req' = [req EXCEPT ![r] = [Idle EXCEPT !.pc = "fail"]]
    <3>1. [Idle EXCEPT !.pc = "fail"].pc = "fail"
      BY DEF Idle
    <3> QED
      BY <2>3, <3>1
  <2>4. {"verify", "check", "look", "write"} \subseteq Before
    BY DEF Before
  <2>5. CASE WhoAmI(r)
    <3>1. Users!Present(users) \subseteq Id
      BY DEF Users!Present
    <3> QED
      BY <2>1, <2>2, <2>4, <2>5, <3>1 DEF WhoAmI
  <2>6. CASE VerifyCaller(r)
    <3>1. Users!Present(users) \cup {r} \subseteq Id
      BY DEF Users!Present, Id
    <3> QED
      BY <2>2, <2>4, <2>6, <3>1 DEF VerifyCaller
  <2>7. CASE CheckOldPassword(r)
    <3>1. req[r].actor \in Id
      BY <2>7 DEF CheckOldPassword, Users!CanVerify, Users!Get, Users!Present
    <3> QED
      BY <2>2, <2>4, <2>7, <3>1 DEF CheckOldPassword
  <2>8. CASE LookUp(r) /\ req[r].kind # "alink"
    BY <2>1, <2>4, <2>8 DEF LookUp
  <2> QED
    BY <2>3, <2>5, <2>6, <2>7, <2>8 DEF Reject, Refuse
<1> QED
  BY <1>1, <1>2, <1>3, HarmlessBefore
\* The write, and the steps of SaveUsers.
LEMMA WriteSaves == ASSUME TypeOK, SavesNest, NEW r \in Req, Write(r) PROVE SavesNest'
<1>1. /\ req'[r] = [req[r] EXCEPT !.pc = "save"]
      /\ \A p \in Req : p # r => req'[p] = req[p]
  BY DEF Write, Go, TypeOK, RequestsOK
<1>2. req'[r].pc = "save" /\ req'[r].kind = req[r].kind
  BY <1>1 DEF TypeOK, RequestsOK, Request
<1>3. applied' = applied \cup {r} /\ UNCHANGED disk
  BY DEF Write
<1>5. \A p \in applied' : req'[p].pc \notin Before
  BY <1>1, <1>2, <1>3 DEF SavesNest, TypeOK, HistoryOK, Before, After
<1>6. ASSUME NEW p \in Req PROVE SaveInOrder(p)'
  <2>1. CASE p = r
    BY <1>1, <1>2, <1>3, <2>1 DEF SavesNest, SaveInOrder, At, After, disk
  <2>2. CASE p # r
    BY <1>1, <1>2, <1>3, <2>2 DEF SavesNest, SaveInOrder, At, After, disk
  <2> QED
    BY <2>1, <2>2
<1> QED
  BY <1>1, <1>2, <1>3, <1>5, <1>6 DEF SavesNest, SaveInOrder, disk

LEMMA BeginSaves == ASSUME TypeOK, SavesNest, NEW r \in Req, SaveBegin(r) PROVE SavesNest'
<1>1. /\ req'[r] = [req[r] EXCEPT !.pc = "rename"]
      /\ \A p \in Req : p # r => req'[p] = req[p]
  BY DEF SaveBegin, Go, TypeOK, RequestsOK
<1>2. req'[r].pc = "rename" /\ req'[r].kind = req[r].kind
  BY <1>1 DEF TypeOK, RequestsOK, Request
<1>3. snap'[r].log = applied /\ \A p \in Req : p # r => snap'[p] = snap[p]
  BY DEF SaveBegin, TypeOK, DiskOK
<1>4. /\ Persistent /\ saveMu' = r /\ At(r, "save")
      /\ UNCHANGED <<applied, file>>
      /\ \A p \in Req : ~At(p, "rename")
  BY NameAssumption DEF SaveBegin, MayLockSave, store, SavesNest, SaveInOrder, Id
<1>5. \A p \in applied' : req'[p].pc \notin Before
  BY <1>1, <1>2, <1>3, <1>4 DEF SavesNest, TypeOK, HistoryOK, Before, After
<1>6. ASSUME NEW p \in Req PROVE SaveInOrder(p)'
  <2>1. CASE p = r
    BY <1>1, <1>2, <1>3, <1>4, <2>1 DEF SavesNest, SaveInOrder, At, After
  <2>2. CASE p # r
    BY <1>1, <1>2, <1>3, <1>4, <2>2 DEF SavesNest, SaveInOrder, At, After
  <2> QED
    BY <2>1, <2>2
<1> QED
  BY <1>1, <1>2, <1>3, <1>4, <1>5, <1>6 DEF SavesNest, SaveInOrder

LEMMA CommitSaves == ASSUME TypeOK, SavesNest, NEW r \in Req, SaveCommit(r) PROVE SavesNest'
<1> DEFINE x == AfterSave(req[r].kind)
<1>1. /\ req'[r] = [req[r] EXCEPT !.pc = x]
      /\ \A p \in Req : p # r => req'[p] = req[p]
  BY DEF SaveCommit, Go, TypeOK, RequestsOK
<1>2. req'[r].pc = x /\ x \in After /\ req'[r].kind = req[r].kind
  BY <1>1 DEF TypeOK, RequestsOK, Request, AfterSave, After
<1>3. /\ At(r, "rename") /\ Persistent /\ r \in snap[r].log
      /\ file.log \subseteq snap[r].log /\ snap[r].log \subseteq applied
      /\ \A p \in Req : p # r => ~At(p, "rename")
  BY DEF SaveCommit, SavesNest, SaveInOrder
<1>4. file' = snap[r] /\ UNCHANGED applied
  BY DEF SaveCommit, store
<1>5. \A p \in applied' : req'[p].pc \notin Before
  BY <1>1, <1>2, <1>3, <1>4 DEF SavesNest, TypeOK, HistoryOK, Before, After
<1>6. ASSUME NEW p \in Req PROVE SaveInOrder(p)'
  <2>1. CASE p = r
    BY <1>1, <1>2, <1>3, <1>4, <2>1 DEF SavesNest, SaveInOrder, At, After
  <2>2. CASE p # r
    BY <1>1, <1>2, <1>3, <1>4, <2>2 DEF SavesNest, SaveInOrder, At, After
  <2> QED
    BY <2>1, <2>2
<1> QED
  BY <1>1, <1>2, <1>3, <1>4, <1>5, <1>6 DEF SavesNest, SaveInOrder

LEMMA FailSaves == ASSUME TypeOK, SavesNest, NEW r \in Req, SaveFail(r) PROVE SavesNest'
<1>1. /\ req'[r] = [req[r] EXCEPT !.pc = "error"]
      /\ \A p \in Req : p # r => req'[p] = req[p]
  BY DEF SaveFail, Go, TypeOK, RequestsOK
<1>2. req'[r].pc = "error" /\ req'[r].kind = req[r].kind
  BY <1>1 DEF TypeOK, RequestsOK, Request
<1>3. \A p \in Req : p # r => ~At(p, "rename")
  BY DEF SaveFail, SavesNest, SaveInOrder
<1>4. UNCHANGED <<applied, file>>
  BY DEF SaveFail, store
<1>5. \A p \in applied' : req'[p].pc \notin Before
  BY <1>1, <1>2, <1>3, <1>4 DEF SavesNest, TypeOK, HistoryOK, Before, After
<1>6. ASSUME NEW p \in Req PROVE SaveInOrder(p)'
  <2>1. CASE p = r
    BY <1>1, <1>2, <1>3, <1>4, <2>1 DEF SavesNest, SaveInOrder, At, After
  <2>2. CASE p # r
    BY <1>1, <1>2, <1>3, <1>4, <2>2 DEF SavesNest, SaveInOrder, At, After
  <2> QED
    BY <2>1, <2>2
<1> QED
  BY <1>1, <1>2, <1>3, <1>4, <1>5, <1>6 DEF SavesNest, SaveInOrder

\* Everything after the save, and the steps of requests that need none.
LEMMA AfterSaves ==
  ASSUME TypeOK, SavesNest, NEW r \in Req,
         (LookUp(r) /\ req[r].kind = "alink") \/ SaveNothing(r) \/ ConsumeLink(r) \/ SignOut(r)
           \/ CreateSession(r) \/ MintLink(r) \/ MintFail(r)
  PROVE SavesNest'
<1>1. UNCHANGED <<applied, disk>>
  BY DEF LookUp, SaveNothing, ConsumeLink, SignOut, CreateSession, MintLink, MintFail, store
<1>2. CASE LookUp(r) /\ req[r].kind = "alink"
  <2>1. Go(r, "mint") /\ req[r].kind \notin Mutating
    BY <1>2 DEF LookUp, Mutating, RegisterKinds, PasswordKinds
  <2> QED
    BY <1>1, <2>1, HarmlessGo DEF Before
<1>3. CASE SaveNothing(r)
  <2>1. AfterSave(req[r].kind) \notin Before \cup {"save", "rename"}
    BY DEF AfterSave, Before
  <2> QED
    BY <1>1, <1>3, <2>1, HarmlessGo DEF SaveNothing
<1>4. CASE ConsumeLink(r) \/ SignOut(r) \/ CreateSession(r) \/ MintLink(r) \/ MintFail(r)
  <2>1. req[r].pc \in After
    BY <1>4 DEF ConsumeLink, SignOut, CreateSession, MintLink, MintFail, At, After
  <2>2. PICK x \in {"purge", "session", "ok", "error"} : Go(r, x)
    BY <1>4 DEF ConsumeLink, SignOut, CreateSession, MintLink, MintFail, AfterPurge
  <2>3. x \notin Before \cup {"save", "rename"}
    BY DEF Before
  <2>4. Persistent /\ req[r].kind \in Mutating => r \in file.log
    BY <2>1 DEF SavesNest, SaveInOrder
  <2> QED
    BY <1>1, <2>2, <2>3, <2>4, HarmlessGo
<1> QED
  BY <1>2, <1>3, <1>4

LEMMA CrashSaves == TypeOK /\ SavesNest /\ Crash => SavesNest'
<1> SUFFICES ASSUME TypeOK, SavesNest, Crash PROVE SavesNest'
  OBVIOUS
<1>2. ASSUME NEW r \in Req
      PROVE /\ req'[r].pc \notin {"save", "rename"} /\ req'[r].kind = req[r].kind
            /\ req'[r].pc \in After => req'[r].pc = req[r].pc
            /\ req'[r].pc \in Before => req'[r].pc = req[r].pc
  BY CrashMoves DEF TypeOK, InFlight, Ended, After, Before
<1>3. file'.log = file.log /\ applied' \subseteq applied /\ (Persistent => applied' = file.log)
  BY CrashFile DEF Crash, SavesNest
<1>4. \A r \in applied' : req'[r].pc \notin Before
  BY <1>2, <1>3 DEF SavesNest, SaveInOrder, TypeOK, HistoryOK
<1>5. ASSUME NEW r \in Req, Persistent, req'[r].kind \in Mutating, req'[r].pc \in After
      PROVE r \in file'.log
  BY <1>2, <1>3, <1>5 DEF SavesNest, SaveInOrder
<1>6. ASSUME NEW r \in Req PROVE SaveInOrder(r)'
  BY <1>2, <1>5 DEF SaveInOrder, At
<1> QED
  BY <1>3, <1>4, <1>6 DEF SavesNest

LEMMA SavesStep == TypeOK /\ SavesNest /\ [Next]_vars => SavesNest'
<1> SUFFICES ASSUME TypeOK, SavesNest, [Next]_vars PROVE SavesNest'
  OBVIOUS
<1>1. CASE Tick \/ UNCHANGED vars
  BY <1>1 DEF Tick, vars, store, disk, SavesNest, SaveInOrder, At
<1>2. ASSUME NEW r \in Req, Start(r) \/ Serve(r) PROVE SavesNest'
  <2>1. CASE Start(r)
    BY <2>1, StartSaves
  <2>2. CASE \/ WhoAmI(r) \/ VerifyCaller(r) \/ CheckOldPassword(r)
             \/ (LookUp(r) /\ req[r].kind # "alink") \/ Reject(r) \/ Refuse(r)
    BY <2>2, CheckSaves
  <2>3. CASE Write(r)
    BY <2>3, WriteSaves
  <2>4. CASE SaveBegin(r)
    BY <2>4, BeginSaves
  <2>5. CASE SaveCommit(r)
    BY <2>5, CommitSaves
  <2>6. CASE SaveFail(r)
    BY <2>6, FailSaves
  <2>7. CASE \/ (LookUp(r) /\ req[r].kind = "alink") \/ SaveNothing(r) \/ ConsumeLink(r)
             \/ SignOut(r) \/ CreateSession(r) \/ MintLink(r) \/ MintFail(r)
    BY <2>7, AfterSaves
  <2> QED
    BY <1>2, <2>1, <2>2, <2>3, <2>4, <2>5, <2>6, <2>7 DEF Serve
<1> QED
  BY <1>1, <1>2, CrashSaves DEF Next

\* Saves by any number of handlers keep file, marshalled copies and memory in
\* order: SaveUsers marshals and renames under one hold of saveMu.
THEOREM SavesAlwaysNest == Spec => []SavesNest
  BY InitSaves, SavesStep, AccountsTypes, PTL DEF Spec

\* A handler only answers with success when its change is in the user file,
\* whatever other saves, failures and crashes come before or after.
THEOREM SuccessIsDurable == Spec => []AckedDurable
<1>1. SavesNest => AckedDurable
  BY DEF SavesNest, SaveInOrder, AckedDurable, Acked, At, After
<1> QED
  BY <1>1, SavesAlwaysNest, PTL

\* No rename puts a database over a newer one.
THEOREM FileOnlyGrows == Spec => FileNeverRegresses
<1>1. TypeOK /\ SavesNest /\ [Next]_vars => [file.log \subseteq file'.log]_vars
  <2> SUFFICES ASSUME TypeOK, SavesNest, Next PROVE file.log \subseteq file'.log
    BY DEF vars
  <2>1. ASSUME NEW r \in Req, SaveCommit(r) PROVE file.log \subseteq file'.log
    BY <2>1 DEF SaveCommit, SavesNest, SaveInOrder
  <2>2. CASE UNCHANGED file
    BY <2>2
  <2>3. CASE Crash
    BY <2>3, CrashFile
  <2> QED
    BY <2>1, <2>2, <2>3
       DEF Next, Start, Serve, disk, Login, Logout, Cookie, RegisterPage, PeekLink, WhoAmI,
           VerifyCaller, CheckOldPassword, LookUp, Reject, Write, Refuse, SaveNothing, SaveBegin,
           SaveFail, ConsumeLink, SignOut, CreateSession, MintLink, MintFail, Tick
<1> QED
  BY <1>1, AccountsTypes, SavesAlwaysNest, PTL DEF Spec, FileNeverRegresses
(***************************************************************************)
(* The refinement, for a server that has a user file: Write is Apply, a    *)
(* crash is Lose, SaveCommit is Ack for the handlers that end with it and  *)
(* Persist for the others, whose last step is their Ack.                   *)
(***************************************************************************)
LEMMA InitDurable == Init => Durable!DInit
  BY DEF Init, Durable!DInit, Acked, At, Idle

\* A step that moves request r acknowledges r or nobody.
LEMMA AckedOnce ==
  ASSUME TypeOK, NEW r \in Req, NEW q, req' = [req EXCEPT ![r] = q], ~At(r, "ok")
  PROVE {p \in Req : Acked(p)'} =
          IF q.pc = "ok" /\ q.kind \in Mutating
            THEN {p \in Req : Acked(p)} \cup {r}
            ELSE {p \in Req : Acked(p)}
<1>1. /\ req'[r] = q
      /\ \A p \in Req : p # r => req'[p] = req[p]
  BY DEF TypeOK, RequestsOK
<1> QED
  BY <1>1 DEF Acked, At

\* The steps that write neither the database nor the file.
LEMMA QuietIsDurable ==
  ASSUME TypeOK, SavesNest', Persistent, NEW r \in Req,
         \E q : req' = [req EXCEPT ![r] = q],
         ~At(r, "ok"), UNCHANGED <<applied, file>>
  PROVE [Durable!DNext]_(Durable!dvars)
<1> DEFINE acked_ == {p \in Req : Acked(p)}
<1>1. PICK q : req' = [req EXCEPT ![r] = q]
  OBVIOUS
<1>2. req'[r] = q
  BY <1>1 DEF TypeOK, RequestsOK
<1>3. CASE q.pc = "ok" /\ q.kind \in Mutating
  <2>1. acked_' = acked_ \cup {r}
    BY <1>1, <1>3, AckedOnce
  <2>2. r \in file'.log /\ file'.log \subseteq applied'
    BY <1>2, <1>3 DEF SavesNest, SaveInOrder, After
  <2>3. Durable!Ack(r)
    BY <2>1, <2>2 DEF Durable!Ack
  <2> QED
    BY <2>3 DEF Durable!DNext
<1>4. CASE ~(q.pc = "ok" /\ q.kind \in Mutating)
  <2>1. acked_' = acked_
    BY <1>1, <1>4, AckedOnce
  <2> QED
    BY <2>1 DEF Durable!dvars
<1> QED
  BY <1>3, <1>4

LEMMA StepIsDurable ==
  ASSUME TypeOK, SavesNest, SavesNest', Persistent, [Next]_vars
  PROVE [Durable!DNext]_(Durable!dvars)
<1> DEFINE acked_ == {p \in Req : Acked(p)}
<1>1. ASSUME NEW r \in Req, Write(r) PROVE [Durable!DNext]_(Durable!dvars)
  <2> DEFINE q == [req[r] EXCEPT !.pc = "save"]
  <2>1. req' = [req EXCEPT ![r] = q] /\ q.pc = "save"
    BY <1>1 DEF Write, Go, TypeOK, RequestsOK, Request
  <2>2. acked_' = acked_
    BY <1>1, <2>1, AckedOnce DEF Write, At
  <2>3. r \notin applied /\ applied' = applied \cup {r} /\ UNCHANGED file
    BY <1>1 DEF Write, SavesNest, At, Before, disk
  <2>4. Durable!Apply(r)
    BY <2>2, <2>3 DEF Durable!Apply
  <2> QED
    BY <2>4 DEF Durable!DNext
<1>2. ASSUME NEW r \in Req, SaveCommit(r) PROVE [Durable!DNext]_(Durable!dvars)
  <2> DEFINE q == [req[r] EXCEPT !.pc = AfterSave(req[r].kind)]
  <2>1. req' = [req EXCEPT ![r] = q] /\ ~At(r, "ok")
    BY <1>2 DEF SaveCommit, Go, At
  <2>2. /\ file'.log = snap[r].log /\ UNCHANGED applied
        /\ r \in snap[r].log
        /\ file.log \subseteq snap[r].log /\ snap[r].log \subseteq applied
    BY <1>2 DEF SaveCommit, SavesNest, SaveInOrder, store
  <2>3. CASE q.pc = "ok" /\ q.kind \in Mutating
    <3>1. acked_' = acked_ \cup {r}
      BY <2>1, <2>3, AckedOnce
    <3>2. Durable!Ack(r)
      BY <2>2, <3>1 DEF Durable!Ack
    <3> QED
      BY <3>2 DEF Durable!DNext
  <2>4. CASE ~(q.pc = "ok" /\ q.kind \in Mutating)
    <3>1. acked_' = acked_
      BY <2>1, <2>4, AckedOnce
    <3>2. Durable!Persist
      BY <2>2, <3>1 DEF Durable!Persist
    <3> QED
      BY <3>2 DEF Durable!DNext
  <2> QED
    BY <2>3, <2>4
<1>3. CASE Crash
  <2>1. ASSUME NEW r \in Req PROVE Acked(r)' <=> Acked(r)
    BY <1>3, CrashMoves DEF TypeOK, Ended, Acked, At
  <2>2. acked_' = acked_
    BY <2>1
  <2>3. Durable!Lose
    BY <1>3, <2>2, CrashFile DEF Crash, Durable!Lose
  <2> QED
    BY <2>3 DEF Durable!DNext
<1>4. ASSUME NEW r \in Req, \E q : req' = [req EXCEPT ![r] = q], ~At(r, "ok"),
             UNCHANGED <<applied, file>>
      PROVE [Durable!DNext]_(Durable!dvars)
  BY <1>4, QuietIsDurable
<1>5. CASE Tick \/ UNCHANGED vars
  <2>1. UNCHANGED <<req, applied, file>>
    BY <1>5 DEF Tick, vars, store, disk
  <2> QED
    BY <2>1 DEF Durable!dvars, Acked, At
<1>6. ASSUME NEW r \in Req, Start(r) PROVE [Durable!DNext]_(Durable!dvars)
  <2>1. ~At(r, "ok") /\ UNCHANGED <<applied, file>>
    BY <1>6 DEF Start, Login, Logout, Cookie, RegisterPage, PeekLink, At, store, disk
  <2>2. \E q : req' = [req EXCEPT ![r] = q]
    BY <1>6 DEF Start, Login, Logout, Cookie, RegisterPage, PeekLink
  <2> QED
    BY <1>4, <2>1, <2>2
<1>7. ASSUME NEW r \in Req, Serve(r), ~Write(r), ~SaveCommit(r)
      PROVE [Durable!DNext]_(Durable!dvars)
  <2>1. ~At(r, "ok") /\ UNCHANGED <<applied, file>>
    BY <1>7 DEF Serve, WhoAmI, VerifyCaller, CheckOldPassword, LookUp, Reject, Refuse, SaveNothing,
          SaveBegin, SaveFail, ConsumeLink, SignOut, CreateSession, MintLink, MintFail, At, store, disk
  <2>2. \E q : req' = [req EXCEPT ![r] = q]
    BY <1>7 DEF Serve, WhoAmI, VerifyCaller, CheckOldPassword, LookUp, Reject, Refuse, SaveNothing,
          SaveBegin, SaveFail, ConsumeLink, SignOut, CreateSession, MintLink, MintFail, Go
  <2> QED
    BY <1>4, <2>1, <2>2
<1> QED
  BY <1>1, <1>2, <1>3, <1>5, <1>6, <1>7 DEF Next

\* With a user file, all the handlers together do what DurableLog says: what a
\* success page acknowledges is on disk, the disk holds whole earlier states of
\* the memory in order, and a crash leaves what the disk holds.
THEOREM AccountsImplementDurableLog ==
  ASSUME Persistent
  PROVE Spec => ImplementsDurableLog
<1>1. TypeOK /\ SavesNest /\ SavesNest' /\ [Next]_vars => [Durable!DNext]_(Durable!dvars)
  BY StepIsDurable
<1> QED
  BY <1>1, InitDurable, AccountsTypes, SavesAlwaysNest, PTL
     DEF Spec, ImplementsDurableLog, Durable!DSpec
=============================================================================
