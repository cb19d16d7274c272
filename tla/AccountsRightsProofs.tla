------------------------ MODULE AccountsRightsProofs -------------------------
(***************************************************************************)
(* Who is behind the changes and the passwords of each version of the      *)
(* database, and that every handler gets to its end.                       *)
(***************************************************************************)
EXTENDS AccountsRulesProofs

(***************************************************************************)
(* Rights.  What a version says of them stays so, and grows with a write.  *)
(***************************************************************************)
LEMMA RightsStay ==
  ASSUME TypeOK, [Next]_vars, NEW v \in Snapshot, Consistent(v), NEW u
  PROVE /\ Rightful(v, u) => Rightful(v, u)'
        /\ SelfMadeOnly(v, u)' => SelfMadeOnly(v, u)
<1>1. \A p \in v.log : req'[p].kind = req[p].kind /\ req'[p].target = req[p].target
  BY LogsStay
<1> QED
  BY <1>1 DEF Rightful, Granted, SelfMadeOnly

LEMMA MemoryKnown ==
  ASSUME TypeOK, DeletesStick, NEW v, v = Memory
  PROVE v \in Versions /\ v \in Snapshot /\ Consistent(v) /\ v.db = users /\ v.log = applied
  BY MemoryIsAVersion, VersionsKnown

\* Whoever a write adds is not of the seed.
LEMMA WriteAddsNoSeed ==
  ASSUME TypeOK, NEW r \in Req, Write(r)
  PROVE Users!Present(users') \subseteq Users!Present(users) \cup {r} /\ r \notin Seed
<1>0. r \notin Seed
  BY NameAssumption
<1>1. users \in Users!Database /\ NoUser \notin Id
  BY WriteMoves
<1>2. CASE \E i \in Users!UserInfo : users' = [users EXCEPT ![r] = i]
  BY <1>0, <1>1, <1>2 DEF Users!Present, Users!Database
<1>3. CASE \E u \in Users!Present(users), i \in Users!UserInfo : users' = [users EXCEPT ![u] = i]
  BY <1>0, <1>1, <1>3 DEF Users!Present, Users!Database
<1>4. CASE users' = [users EXCEPT ![req[r].target] = NoUser]
  BY <1>0, <1>1, <1>4 DEF Users!Present, Users!Database
<1> QED
  BY <1>2, <1>3, <1>4, WriteCases

LEMMA RightsGrow ==
  ASSUME TypeOK, DeletesStick, [Next]_vars, NEW r \in Req, Write(r),
         NEW v, v = Memory, NEW w, w = Memory', NEW u
  PROVE Rightful(v, u) => Rightful(w, u)'
<1>1. /\ v.db = users /\ v.log = applied /\ w.db = users' /\ w.log = applied \cup {r}
      /\ v \in Snapshot /\ Consistent(v)
  BY MemoryKnown, WriteMoves DEF Memory
<1>2. \A p \in v.log : req'[p].kind = req[p].kind /\ req'[p].target = req[p].target
  BY <1>1, LogsStay
<1>3. Granted(v, u) => Granted(w, u)'
  BY <1>1, <1>2 DEF Granted
<1>4. u \in v.log => u \in w.log /\ req'[u].kind = req[u].kind
  BY <1>1, <1>2
<1>5. Users!Present(v.db) \cap Seed = {} => Users!Present(w.db) \cap Seed = {}
  BY <1>1, WriteAddsNoSeed
<1> QED
  BY <1>3, <1>4, <1>5 DEF Rightful, SelfMadeOnly

LEMMA RightsKept ==
  ASSUME TypeOK, DeletesStick, [Next]_vars, ~Crash,
         NEW v, v = Memory, NEW w, w = Memory', NEW u, Rightful(v, u)
  PROVE Rightful(w, u)'
<1>1. CASE \E r \in Req : Write(r)
  BY <1>1, RightsGrow
<1>2. CASE \A r \in Req : ~Write(r)
  <2>1. w = v
    BY <1>2, MemoryStep DEF Memory
  <2> QED
    BY <2>1, MemoryKnown, RightsStay
<1> QED
  BY <1>1, <1>2

\* The request that a token was minted by has been answered.
LEMMA MinterStays ==
  ASSUME TypeOK, LinksHold, [Next]_vars, NEW t \in Req, byToken[t] # Unborn
  PROVE req[t].pc \in Ended /\ req'[t] = req[t]
<1>1. req[t].pc \in Ended
  BY DEF LinksHold, LinkOf
<1> QED
  BY <1>1, EndedStays

LEMMA TokenMinted ==
  ASSUME TypeOK, LinksHold, [Next]_vars, NEW r \in Req, req[r].kind = "setpw"
  PROVE /\ req[r].token \in Req /\ req[req[r].token].pc \in Ended
        /\ req'[req[r].token] = req[req[r].token]
<1>1. req[r].token \in Req /\ byToken[req[r].token] # Unborn
  BY KindsAt DEF LinksHold, LinkOf, TypeOK
<1> QED
  BY <1>1, MinterStays

(***************************************************************************)
(* Lawful versions.                                                        *)
(***************************************************************************)
Lawful(v) ==
  /\ \A u \in Users!Admins(v.db) : Rightful(v, u)
  /\ \A p \in v.log : Authorized(v, p)
  /\ \A u, w \in Users!Admins(v.db) : SelfMadeOnly(v, u) /\ SelfMadeOnly(v, w) => u = w

LEMMA AuthorizedStays ==
  ASSUME TypeOK, LinksHold, [Next]_vars, NEW v \in Snapshot, Consistent(v),
         NEW p \in v.log, Authorized(v, p)
  PROVE Authorized(v, p)'
<1>1. /\ p \in Req
      /\ \A q \in v.log : /\ req'[q].kind = req[q].kind /\ req'[q].target = req[q].target
                          /\ req'[q].actor = req[q].actor /\ req'[q].token = req[q].token
  BY LogsStay
<1>2. req[p].kind = "setpw" => req'[req[p].token] = req[req[p].token]
  BY <1>1, TokenMinted
<1> QED
  BY <1>1, <1>2 DEF Authorized, Rightful, Granted, SelfMadeOnly, MadeFor

LEMMA LawfulStays ==
  ASSUME TypeOK, LinksHold, [Next]_vars, NEW v \in Snapshot, NEW w \in Snapshot, Consistent(v),
         Lawful(v), Becomes(crashes', v, w)
  PROVE Lawful(w)'
<1>1. \A p \in v.log : Authorized(v, p)'
  BY AuthorizedStays DEF Lawful
<1>2. \A u \in Users!Admins(v.db) : Rightful(v, u)'
  BY RightsStay DEF Lawful
<1>3. \A u, x \in Users!Admins(v.db) : SelfMadeOnly(v, u)' /\ SelfMadeOnly(v, x)' => u = x
  BY RightsStay DEF Lawful
<1>4. /\ w.log = v.log /\ Users!Present(w.db) = Users!Present(v.db)
      /\ Users!Admins(w.db) = Users!Admins(v.db)
  BY SameUsers, SameAdmins
<1>5. \A u : (Rightful(v, u)' => Rightful(w, u)') /\ (SelfMadeOnly(w, u)' => SelfMadeOnly(v, u)')
  BY <1>4 DEF Rightful, Granted, SelfMadeOnly
<1>6. \A p : Authorized(v, p)' => Authorized(w, p)'
  BY <1>4 DEF Authorized, MadeFor, Rightful, Granted, SelfMadeOnly
<1> QED
  BY <1>1, <1>2, <1>3, <1>4, <1>5, <1>6 DEF Lawful, Users!Admins, Users!Present, Users!IsAdmin

\* What has been checked of a request that is on its way to a write or a link, and
\* of a link that works.
Checked == {"verify", "look", "write", "mint"}

Vouched(r) ==
  /\ req[r].kind \in AdminKinds /\ (req[r].pc \in Checked \/ Links!Known(r)) =>
       Rightful(Memory, req[r].actor)
  /\ Links!Known(r) => MadeFor(r, byToken[r].user)
  /\ req[r].kind = "setpw" /\ req[r].pc \in {"look", "write"} =>
       /\ MadeFor(req[r].token, req[r].target)
       /\ Rightful(Memory, req[req[r].token].actor)
  /\ req[r].kind = "change" /\ At(r, "write") => req[r].actor = req[r].target

AllLawful ==
  /\ \A v \in Versions : Lawful(v)
  /\ \A r \in Req : Vouched(r)

\* Where the admins of a new version come from.
LEMMA AdminsAfterWrite ==
  ASSUME TypeOK, NEW r \in Req, Write(r), NEW u \in Users!Admins(users')
  PROVE \/ u \in Users!Admins(users)
        \/ /\ u = r /\ req[r].kind \in RegisterKinds
           /\ req[r].kind = "register" => Users!Present(users) = {}
        \/ req[r].kind = "agroups" /\ req[r].target = u
<1> USE DEF Users!Admins, Users!Present, Users!IsAdmin
<1>0. /\ users \in Users!Database /\ NoUser \notin Users!UserInfo /\ NoUser \notin Id
      /\ Req \subseteq Id
  BY WriteMoves DEF Id
<1>1. CASE \E i \in Users!UserInfo :
             /\ req[r].kind \in RegisterKinds
             /\ req[r].kind = "register" /\ i.groups # {} => Users!Present(users) = {}
             /\ users' = [users EXCEPT ![r] = i]
  BY <1>0, <1>1 DEF Users!Database
<1>2. CASE /\ req[r].target \in Users!Present(users)
           /\ users' = [users EXCEPT ![req[r].target].pw = r]
  BY <1>0, <1>2 DEF Users!Database, Users!UserInfo
<1>3. CASE users' = [users EXCEPT ![req[r].target] = NoUser]
  BY <1>0, <1>3 DEF Users!Database
<1>4. CASE \E g \in FormGroups :
             /\ req[r].kind = "agroups" /\ req[r].target \in Users!Present(users)
             /\ users' = [users EXCEPT ![req[r].target].groups = g]
  BY <1>0, <1>4 DEF Users!Database, Users!UserInfo
<1> QED
  BY <1>1, <1>2, <1>3, <1>4, WriteForms

\* The admin behind a write was vouched for before the lock was taken, by what is
\* in memory still: between the two memory has only grown, or the request is lost.
LEMMA WriteAuthorized ==
  ASSUME TypeOK, DeletesStick, LinksHold, [Next]_vars, NEW r \in Req, Write(r), Vouched(r),
         NEW v, v = Memory, NEW w, w = Memory'
  PROVE Authorized(w, r)'
<1>1. /\ req[r].pc = "write" /\ req'[r].kind = req[r].kind /\ req'[r].actor = req[r].actor
      /\ req'[r].target = req[r].target /\ req'[r].token = req[r].token
  BY WriteMoves
<1>2. ASSUME req[r].kind \in AdminKinds, NEW a, a = req[r].actor PROVE Rightful(w, a)'
  <2>1. Rightful(v, a)
    BY <1>1, <1>2 DEF Vouched, Checked
  <2> QED
    BY <2>1, RightsGrow
<1>3. ASSUME req[r].kind = "setpw", NEW t, t = req[r].token
      PROVE /\ req'[t] = req[t] /\ MadeFor(t, req[r].target)
            /\ \A a : a = req[t].actor => Rightful(w, a)'
  <2>1. req'[t] = req[t] /\ MadeFor(t, req[r].target)
    BY <1>1, <1>3, TokenMinted DEF Vouched
  <2>2. ASSUME NEW a, a = req[t].actor PROVE Rightful(w, a)'
    <3>1. Rightful(v, a)
      BY <1>1, <1>3, <2>2 DEF Vouched
    <3> QED
      BY <3>1, RightsGrow
  <2> QED
    BY <2>1, <2>2
<1> QED
  BY <1>1, <1>2, <1>3 DEF Authorized, MadeFor, Rightful, Granted, SelfMadeOnly

LEMMA WriteLawful ==
  ASSUME TypeOK, DeletesStick, LinksHold, [Next]_vars, NEW r \in Req, Write(r), Vouched(r),
         NEW v, v = Memory, Lawful(v), NEW w, w = Memory'
  PROVE Lawful(w)'
<1>1. /\ v.db = users /\ v.log = applied /\ w.db = users' /\ w.log = applied \cup {r}
      /\ v \in Snapshot /\ Consistent(v)
  BY MemoryKnown, WriteMoves DEF Memory
<1>2. /\ \A p \in v.log : /\ p \in Req /\ req'[p].kind = req[p].kind
                          /\ req'[p].target = req[p].target /\ req'[p].actor = req[p].actor
                          /\ req'[p].token = req[p].token
      /\ req'[r].kind = req[r].kind /\ req'[r].target = req[r].target
  BY <1>1, LogsStay, WriteMoves
<1>3. ASSUME NEW u \in Users!Admins(w.db) PROVE Rightful(w, u)'
  <2>1. CASE u \in Users!Admins(users)
    <3>1. Rightful(v, u)
      BY <1>1, <2>1 DEF Lawful
    <3> QED
      BY <3>1, RightsGrow
  <2>2. CASE u = r /\ req[r].kind \in RegisterKinds
    <3>1. CASE req[r].kind \in {"aregister", "reglocked"}
      BY <1>1, <1>2, <2>2, <3>1 DEF Rightful
    <3>2. CASE req[r].kind = "register" /\ Users!Present(users) = {}
      <4>1. Users!Present(w.db) \cap Seed = {}
        BY <1>1, <3>2, WriteAddsNoSeed
      <4> QED
        BY <1>1, <1>2, <2>2, <3>2, <4>1 DEF Rightful, SelfMadeOnly
    <3>3. req[r].kind = "register" => u \in Users!Admins(users) \/ Users!Present(users) = {}
      BY <1>1, AdminsAfterWrite DEF RegisterKinds
    <3> QED
      BY <2>1, <2>2, <3>1, <3>2, <3>3 DEF RegisterKinds
  <2>3. CASE req[r].kind = "agroups" /\ req[r].target = u
    BY <1>1, <1>2, <2>3 DEF Rightful, Granted
  <2> QED
    BY <1>1, <2>1, <2>2, <2>3, AdminsAfterWrite
<1>4. ASSUME NEW p \in w.log PROVE Authorized(w, p)'
  <2>1. CASE p = r
    BY <2>1, WriteAuthorized
  <2>2. CASE p \in v.log
    <3>1. Authorized(v, p)
      BY <2>2 DEF Lawful
    <3>2. ASSUME NEW a, Rightful(v, a) PROVE Rightful(w, a)'
      BY <3>2, RightsGrow
    <3>3. req[p].kind = "setpw" => req'[req[p].token] = req[req[p].token]
      BY <1>2, <2>2, TokenMinted
    <3>4. req[p].kind \in AdminKinds => \A a : a = req[p].actor => Rightful(w, a)'
      BY <3>1, <3>2 DEF Authorized
    <3>5. req[p].kind = "setpw" =>
            \A a : a = req[req[p].token].actor => Rightful(w, a)'
      BY <3>1, <3>2 DEF Authorized
    <3> QED
      BY <1>2, <2>2, <3>1, <3>3, <3>4, <3>5
         DEF Authorized, MadeFor, Rightful, Granted, SelfMadeOnly
  <2> QED
    BY <1>1, <2>1, <2>2
<1>5. ASSUME NEW u \in Users!Admins(w.db), NEW x \in Users!Admins(w.db),
             SelfMadeOnly(w, u)', SelfMadeOnly(w, x)'
      PROVE u = x
  <2>1. ASSUME NEW y \in Users!Admins(w.db), SelfMadeOnly(w, y)'
        PROVE \/ y \in Users!Admins(users) /\ (y = r \/ SelfMadeOnly(v, y))
              \/ y = r /\ Users!Present(users) = {}
    <3>1. /\ y \in w.log /\ req'[y].kind = "register"
          /\ \A g \in w.log : ~(req'[g].kind = "agroups" /\ req'[g].target = y)
      BY <2>1 DEF SelfMadeOnly, Granted
    <3>2. y # r => SelfMadeOnly(v, y)
      BY <1>1, <1>2, <3>1 DEF SelfMadeOnly, Granted
    <3>3. ~(req[r].kind = "agroups" /\ req[r].target = y)
      BY <1>1, <1>2, <3>1
    <3> QED
      BY <1>1, <1>2, <2>1, <3>1, <3>2, <3>3, AdminsAfterWrite
  <2>2. r \notin Users!Present(users)
    <3>1. r \notin applied
      BY <1>1, WriteMoves DEF Consistent, Before
    <3> QED
      BY <1>1, <3>1 DEF Consistent
  <2>3. Users!Admins(users) \subseteq Users!Present(users)
    BY DEF Users!Admins
  <2>4. \/ u = r /\ x = r
        \/ /\ u \in Users!Admins(users) /\ SelfMadeOnly(v, u)
           /\ x \in Users!Admins(users) /\ SelfMadeOnly(v, x)
    BY <1>5, <2>1, <2>2, <2>3
  <2> QED
    BY <1>1, <2>4 DEF Lawful
<1> QED
  BY <1>3, <1>4, <1>5, <1>1 DEF Lawful, Users!Admins, Users!Present, Users!IsAdmin

(***************************************************************************)
(* What is checked before a write.                                         *)
(***************************************************************************)
SameForm(r) ==
  /\ req'[r].kind = req[r].kind /\ req'[r].actor = req[r].actor
  /\ req'[r].token = req[r].token

\* How a request gets to where something has been checked of it.
LEMMA Arrivals ==
  ASSUME TypeOK, [Next]_vars, NEW r \in Req, req'[r].pc \in Checked
  PROVE \/ req'[r] = req[r]
        \/ PeekLink(r)
        \/ req'[r].kind = "register"
        \/ /\ WhoAmI(r) \/ VerifyCaller(r)
           /\ req[r].kind \in AdminKinds /\ SameForm(r)
           /\ req[r].actor \in Users!Admins(users)
        \/ /\ CheckOldPassword(r) /\ req'[r].kind = "change"
           /\ req'[r].actor = req'[r].target
        \/ /\ LookUp(r) /\ SameForm(r) /\ req'[r].target = req[r].target
           /\ req[r].pc = "look"
        \/ /\ SaveNothing(r) \/ SaveCommit(r)
           /\ req[r].kind = "reglocked" /\ SameForm(r) /\ req'[r].pc = "mint"
<1> USE DEF SameForm
<1>0. req \in [Req -> Request] /\ RequestsOK
  BY DEF TypeOK, RequestsOK
<1>1. ASSUME NEW x, Go(r, x)
      PROVE SameForm(r) /\ req'[r].pc = x /\ req'[r].target = req[r].target
  BY <1>0, <1>1 DEF Go, Request
<1>2. ASSUME NEW x, NEW u, req' = [req EXCEPT ![r].pc = x, ![r].target = u]
      PROVE SameForm(r) /\ req'[r].pc = x /\ req'[r].target = u
  <2>1. req'[r] = [req[r] EXCEPT !.pc = x, !.target = u]
    BY <1>0, <1>2
  <2> QED
    BY <1>0, <2>1 DEF Request
<1>3. CASE Start(r)
  <2>1. ~Login(r) /\ ~Logout(r) /\ ~Cookie(r)
    BY <1>0 DEF Login, Logout, Cookie, Idle, Checked
  <2>2. RegisterPage(r) => req'[r].kind = "register"
    BY <1>0 DEF RegisterPage, Idle
  <2> QED
    BY <1>3, <2>1, <2>2 DEF Start
<1>4. CASE WhoAmI(r)
  <2>1. CASE req[r].kind = "change" /\ Go(r, "check")
    BY <1>1, <2>1 DEF Checked
  <2>2. CASE /\ req[r].kind \in AdminKinds /\ Users!VerifyAdmin(req[r].actor)
             /\ \E x, u : Go(r, x) \/ req' = [req EXCEPT ![r].pc = x, ![r].target = u]
    BY <1>1, <1>2, <1>4, <2>2 DEF Users!VerifyAdmin
  <2> QED
    BY <1>4, <2>1, <2>2 DEF WhoAmI, AdminKinds
<1>5. CASE VerifyCaller(r)
  <2>1. /\ req[r].kind \in AdminKinds /\ Users!VerifyAdmin(req[r].actor)
        /\ \E x, u : req' = [req EXCEPT ![r].pc = x, ![r].target = u]
    BY <1>0, <1>5, KindsAt DEF VerifyCaller
  <2> QED
    BY <1>2, <1>5, <2>1 DEF Users!VerifyAdmin
<1>6. CASE CheckOldPassword(r)
  <2>1. req[r].kind = "change"
    BY <1>0, <1>6, KindsAt DEF CheckOldPassword
  <2> QED
    BY <1>2, <1>6, <2>1 DEF CheckOldPassword
<1>7. CASE LookUp(r)
  BY <1>1, <1>7 DEF LookUp, At
<1>8. ~Reject(r) /\ ~Refuse(r)
  BY <1>0 DEF Reject, Refuse, Idle, Checked
<1>9. ~Write(r) /\ ~SaveBegin(r) /\ ~SaveFail(r) /\ ~ConsumeLink(r) /\ ~CreateSession(r)
  BY <1>1 DEF Write, SaveBegin, SaveFail, ConsumeLink, CreateSession, Checked
<1>10. ~SignOut(r) /\ ~MintLink(r) /\ ~MintFail(r)
  BY <1>1 DEF SignOut, AfterPurge, MintLink, MintFail, Checked
<1>11. CASE SaveNothing(r) \/ SaveCommit(r)
  <2>1. Go(r, AfterSave(req[r].kind))
    BY <1>11 DEF SaveNothing, SaveCommit
  <2>2. AfterSave(req[r].kind) \in Checked
    BY <1>1, <2>1
  <2>3. req[r].kind = "reglocked" /\ AfterSave(req[r].kind) = "mint"
    BY <2>2 DEF AfterSave, Checked
  <2> QED
    BY <1>1, <1>11, <2>1, <2>3
<1>12. CASE Crash /\ req'[r] = [req[r] EXCEPT !.pc = "lost"]
  BY <1>0, <1>12 DEF Request, Checked
<1> QED
  BY <1>3, <1>4, <1>5, <1>6, <1>7, <1>8, <1>9, <1>10, <1>11, <1>12, OwnStep DEF Serve

\* A link that works says what it said when it was made.
LEMMA LinksSay ==
  ASSUME TypeOK, LinksHold, [Next]_vars, NEW t \in Req, Links!Known(t)'
  PROVE \/ Links!Known(t) /\ byToken'[t] = byToken[t]
        \/ /\ MintLink(t) /\ byToken'[t].user = req[t].target
           /\ req[t].pc = "mint" /\ req[t].kind \in {"alink", "reglocked"}
           /\ req'[t].kind = req[t].kind /\ req'[t].target = req[t].target
           /\ req'[t].actor = req[t].actor
<1> USE DEF Links!TypeOK, Links!Known
<1>0. /\ {Unborn, Gone, Consumed} = Links!NoEntry /\ Links!TypeOK /\ Links!MapsAgree
      /\ req \in [Req -> Request] /\ RequestsOK
  BY DEF TypeOK, TablesOK, RequestsOK, LinksHold, Links!NoEntry
<1>1. CASE MintLink(t)
  <2>1. Links!Create(t, req[t].target) /\ Go(t, "ok")
    BY <1>1 DEF MintLink
  <2>2. byToken'[t].user = req[t].target
    BY <1>0, <2>1 DEF Links!Create
  <2> QED
    BY <1>0, <1>1, <2>1, <2>2, KindsAt DEF MintLink, Go, Request, At
<1>2. CASE ~MintLink(t)
  <2>1. Links!Known(t)
    BY <1>0, <1>2, TokenMoves
  <2>2. ASSUME NEW x \in Req, NEW fate \in {Gone, Consumed}, Links!Remove(x, fate)
        PROVE byToken'[t] = byToken[t]
    BY <1>0, <2>2 DEF Links!Remove
  <2>3. ASSUME NEW x \in Req, Links!Peek(x) \/ Links!Consume(x)
        PROVE byToken'[t] = byToken[t]
    BY <2>2, <2>3 DEF Links!Peek, Links!Consume
  <2>4. ASSUME NEW r \in Req, PeekLink(r) PROVE byToken'[t] = byToken[t]
    BY <2>3, <2>4 DEF PeekLink
  <2>5. ASSUME NEW r \in Req, ConsumeLink(r) PROVE byToken'[t] = byToken[t]
    BY <1>0, <2>3, <2>5, KindsAt DEF ConsumeLink
  <2>6. ASSUME NEW r \in Req, MintLink(r) PROVE byToken'[t] = byToken[t]
    BY <1>0, <1>2, <2>6 DEF MintLink, Links!Create
  <2>7. ~Crash
    BY <1>0 DEF Crash, Links!Forget
  <2> QED
    BY <2>1, <2>4, <2>5, <2>6, <2>7, StoreStep
<1> QED
  BY <1>1, <1>2

\* An admin now is one by right.
LEMMA AdminsRightful ==
  ASSUME TypeOK, DeletesStick, AllLawful, NEW a \in Users!Admins(users), NEW v, v = Memory
  PROVE Rightful(v, a)
<1>1. v \in Versions /\ v.db = users
  BY MemoryKnown
<1> QED
  BY <1>1 DEF AllLawful, Lawful

\* The caller of a form for admins, on its way to the write or the link, and as
\* long as its link works.
LEMMA CallersVouched ==
  ASSUME TypeOK, SavesNest, DeletesStick, LinksHold, AllLawful, [Next]_vars, ~Crash,
         NEW r \in Req, req'[r].kind \in AdminKinds,
         req'[r].pc \in Checked \/ Links!Known(r)',
         NEW v, v = Memory, NEW w, w = Memory', NEW a, a = req'[r].actor
  PROVE Rightful(w, a)'
<1> SUFFICES Rightful(v, a)
  BY RightsKept
<1>1. Vouched(r)
  BY DEF AllLawful
<1>2. ASSUME req[r].pc \in Checked \/ Links!Known(r), req[r].kind \in AdminKinds,
             req[r].actor = a
      PROVE Rightful(v, a)
  BY <1>1, <1>2 DEF Vouched
<1>3. CASE Links!Known(r)'
  <2>1. CASE Links!Known(r)
    <3>1. req'[r] = req[r]
      BY <2>1, MinterStays DEF Links!Known, Links!NoEntry
    <3> QED
      BY <1>2, <2>1, <3>1
  <2>2. CASE ~Links!Known(r)
    BY <1>2, <1>3, <2>2, LinksSay DEF Checked
  <2> QED
    BY <2>1, <2>2
<1>4. CASE req'[r].pc \in Checked
  <2>1. CASE req'[r] = req[r]
    BY <1>2, <1>4, <2>1
  <2>2. CASE PeekLink(r)
    BY <1>4, <2>2 DEF PeekLink, Idle, Checked, AdminKinds, TypeOK, RequestsOK
  <2>3. CASE SameForm(r) /\ req[r].actor \in Users!Admins(users)
    BY <2>3, AdminsRightful DEF SameForm
  <2>4. CASE SameForm(r) /\ req[r].pc = "look"
    BY <1>2, <2>4 DEF SameForm, Checked
  <2>5. CASE /\ SaveNothing(r) \/ SaveCommit(r)
             /\ SameForm(r)
    <3>1. r \in applied
      BY <2>5 DEF SaveNothing, SaveCommit, SavesNest, SaveInOrder
    <3>2. Authorized(v, r)
      BY <3>1, MemoryKnown DEF AllLawful, Lawful
    <3> QED
      BY <2>5, <3>2 DEF Authorized, SameForm
  <2> QED
    BY <1>4, <2>1, <2>2, <2>3, <2>4, <2>5, Arrivals DEF AdminKinds
<1> QED
  BY <1>3, <1>4

\* Whom a link is for, and that its minter had the right to make it.
LEMMA MintersVouched ==
  ASSUME TypeOK, DeletesStick, LinksHold, AllLawful, [Next]_vars, ~Crash,
         NEW r \in Req, req'[r].kind = "setpw", req'[r].pc \in {"look", "write"},
         NEW v, v = Memory, NEW w, w = Memory',
         NEW t, t = req'[r].token, NEW u, u = req'[r].target
  PROVE /\ MadeFor(t, u)'
        /\ \A a : a = req'[t].actor => Rightful(w, a)'
<1>0. req \in [Req -> Request] /\ RequestsOK
  BY DEF TypeOK, RequestsOK
<1>1. ASSUME t \in Req, req'[t] = req[t], MadeFor(t, u),
             \A a : a = req[t].actor => Rightful(v, a)
      PROVE /\ MadeFor(t, u)'
            /\ \A a : a = req'[t].actor => Rightful(w, a)'
  <2>1. \A a : a = req'[t].actor => Rightful(w, a)'
    BY <1>1, RightsKept
  <2> QED
    BY <1>1, <2>1 DEF MadeFor
<1>2. CASE PeekLink(r)
  <2>1. PICK x \in Req :
          /\ Links!Known(x)
          /\ req' = [req EXCEPT ![r] =
                       IF Links!Valid(x)
                         THEN [pc |-> "look", kind |-> "setpw", actor |-> NoUser,
                               target |-> byToken[x].user, token |-> x]
                         ELSE [Idle EXCEPT !.pc = "fail"]]
    BY <1>2 DEF PeekLink
  <2>2. x = t /\ u = byToken[t].user
    BY <1>0, <2>1 DEF Idle
  <2>3. req'[t] = req[t]
    BY <2>1, <2>2, MinterStays DEF Links!Known, Links!NoEntry
  <2>4. MadeFor(t, u) /\ Vouched(t)
    BY <2>1, <2>2 DEF AllLawful, Vouched
  <2>5. \A a : a = req[t].actor => Rightful(v, a)
    BY <2>1, <2>2, <2>4 DEF Vouched, MadeFor, AdminKinds
  <2> QED
    BY <1>1, <2>1, <2>2, <2>3, <2>4, <2>5
<1>3. CASE ~PeekLink(r)
  <2>1. req[r].kind = "setpw" /\ req[r].token = t
    BY <1>3, TokenKept
  <2>2. req[r].pc \in {"look", "write"} /\ u = req[r].target
    BY <1>0, <1>3, <2>1, Arrivals DEF Checked, AdminKinds, SaveNothing, SaveCommit, CheckOldPassword
  <2>3. t \in Req /\ req'[t] = req[t]
    BY <2>1, TokenMinted
  <2>4. Vouched(r)
    BY DEF AllLawful
  <2>5. MadeFor(t, u) /\ \A a : a = req[t].actor => Rightful(v, a)
    BY <2>1, <2>2, <2>4 DEF Vouched
  <2> QED
    BY <1>1, <2>2, <2>3, <2>5
<1> QED
  BY <1>2, <1>3

LEMMA VouchedStep ==
  ASSUME TypeOK, SavesNest, DeletesStick, LinksHold, AllLawful, [Next]_vars, NEW r \in Req
  PROVE Vouched(r)'
<1>0. req \in [Req -> Request] /\ RequestsOK
  BY DEF TypeOK, RequestsOK
<1>1. CASE Crash
  <2>1. req'[r].pc \in Ended \cup {"idle"}
    BY <1>0, <1>1, CrashMoves DEF InFlight, Ended
  <2>2. byToken'[r] \in Links!NoEntry
    BY <1>1 DEF Crash, Links!Forget, Links!Known, Links!NoEntry
  <2> QED
    BY <2>1, <2>2 DEF Vouched, Links!Known, Checked, Ended, At
<1>2. CASE ~Crash
  <2>1. PICK v, w : v = Memory /\ w = Memory'
    OBVIOUS
  <2>2. ASSUME req'[r].kind \in AdminKinds, req'[r].pc \in Checked \/ Links!Known(r)'
        PROVE \A a : a = req'[r].actor => Rightful(w, a)'
    BY <1>2, <2>1, <2>2, CallersVouched
  <2>3. ASSUME Links!Known(r)' PROVE \A u : u = byToken'[r].user => MadeFor(r, u)'
    <3>1. CASE Links!Known(r) /\ byToken'[r] = byToken[r]
      <4>1. req'[r] = req[r]
        BY <3>1, MinterStays DEF Links!Known, Links!NoEntry
      <4>2. MadeFor(r, byToken[r].user)
        BY <3>1 DEF AllLawful, Vouched
      <4> QED
        BY <3>1, <4>1, <4>2 DEF MadeFor
    <3> QED
      BY <2>3, <3>1, LinksSay DEF MadeFor
  <2>4. ASSUME req'[r].kind = "setpw", req'[r].pc \in {"look", "write"}
        PROVE \A t, u : t = req'[r].token /\ u = req'[r].target =>
                /\ MadeFor(t, u)'
                /\ \A a : a = req'[t].actor => Rightful(w, a)'
    BY <1>2, <2>1, <2>4, MintersVouched
  <2>5. ASSUME req'[r].kind = "change", req'[r].pc = "write"
        PROVE req'[r].actor = req'[r].target
    <3>1. CASE req'[r] = req[r]
      BY <2>5, <3>1 DEF AllLawful, Vouched, At
    <3>2. ~PeekLink(r)
      BY <1>0, <2>5 DEF PeekLink, Idle
    <3>3. ASSUME LookUp(r), SameForm(r) PROVE FALSE
      BY <1>0, <2>5, <3>3, KindsAt DEF LookUp, SameForm
    <3> QED
      BY <2>5, <3>1, <3>2, <3>3, Arrivals DEF Checked, SameForm, AdminKinds
  <2> QED
    BY <2>1, <2>2, <2>3, <2>4, <2>5
       DEF Vouched, Links!Known, At, Memory, Rightful, Granted, SelfMadeOnly, MadeFor
<1> QED
  BY <1>1, <1>2

LEMMA LawfulStep ==
  TypeOK /\ SavesNest /\ DeletesStick /\ LinksHold /\ AllLawful /\ [Next]_vars => AllLawful'
<1> SUFFICES ASSUME TypeOK, SavesNest, DeletesStick, LinksHold, AllLawful, [Next]_vars
             PROVE AllLawful'
  OBVIOUS
<1>1. ASSUME NEW w \in Versions' PROVE Lawful(w)'
  <2>1. CASE \E v \in Versions \cup {NoSnapshot} :
               v \in Snapshot /\ w \in Snapshot /\ Becomes(crashes', v, w)
    <3>1. PICK v \in Versions \cup {NoSnapshot} :
            v \in Snapshot /\ w \in Snapshot /\ Becomes(crashes', v, w)
      BY <2>1
    <3>2. Consistent(v)
      BY <3>1, VersionsKnown
    <3>3. Lawful(v)
      BY <3>1, NobodyIsPresent DEF AllLawful, Lawful, NoSnapshot, Users!Admins
    <3> QED
      BY <3>1, <3>2, <3>3, LawfulStays
  <2>2. CASE \E r \in Req : Write(r) /\ w = Memory'
    <3>1. PICK r \in Req : Write(r)
      BY <2>2
    <3>2. PICK m : m = Memory
      OBVIOUS
    <3>3. Lawful(m) /\ Vouched(r)
      BY <3>2, MemoryKnown DEF AllLawful
    <3> QED
      BY <2>2, <3>1, <3>2, <3>3, WriteLawful
  <2> QED
    BY <1>1, <2>1, <2>2, NewVersions
<1>2. \A r \in Req : Vouched(r)'
  BY VouchedStep
<1> QED
  BY <1>1, <1>2 DEF AllLawful, Lawful

LEMMA InitLawful == Init => AllLawful
<1> SUFFICES ASSUME Init PROVE AllLawful
  OBVIOUS
<1>1. ASSUME NEW v \in Versions PROVE Lawful(v)
  <2>1. v.log = {} /\ v.db \in Databases \cup {Users!EmptyDB}
    BY DEF Init, Versions, NoSnapshot
  <2>2. Users!Admins(v.db) \subseteq StartAdmins
    BY <2>1, NobodyIsPresent, DatabaseAssumption
       DEF StartAdmins, Users!Admins, Users!Present
  <2> QED
    BY <2>1, <2>2 DEF Lawful, Rightful, SelfMadeOnly
<1>2. ASSUME NEW r \in Req PROVE Vouched(r)
  BY DEF Init, Vouched, Idle, Checked, Links!Init, Links!Known, Links!NoEntry, At, AdminKinds
<1> QED
  BY <1>1, <1>2 DEF AllLawful

LEMMA AlwaysLawful == Spec => []AllLawful
  BY InitLawful, LawfulStep, AccountsTypes, SavesAlwaysNest, DeletesAlwaysStick,
     LinksAlwaysHold, PTL DEF Spec

\* getAndVerifyAdmin, register and PeekLink decide before the lock is taken, or
\* on what was true when the link was made; saves fail and crashes lose what was
\* not saved.  For all that each version of the database, in memory, in a save
\* under way and in the file, accounts for its own admins and for the admins
\* behind its changes and links.
THEOREM ChangesHaveAnAdminBehindThem == Spec => []ChangesAreAuthorized
<1>1. AllLawful => ChangesAreAuthorized
  BY DEF AllLawful, Lawful, ChangesAreAuthorized
<1> QED
  BY <1>1, AlwaysLawful, PTL

(***************************************************************************)
(* Passwords.                                                              *)
(***************************************************************************)
\* Where the password pw of u in version v comes from.
ComesOf(v, u, pw) ==
  \/ pw = u
  \/ pw = Locked /\ (u \in Seed \/ req[u].kind = "reglocked")
  \/ \E p \in v.log :
       /\ pw = p /\ req[p].kind \in PasswordKinds /\ req[p].target = u
       /\ req[p].kind = "change" => req[p].actor = u
       /\ req[p].kind = "setpw" => MadeFor(req[p].token, u)

AccountedFor(v) ==
  \A u \in Users!Present(v.db) : SetByStart(v.db[u]) \/ ComesOf(v, u, v.db[u].pw)

\* What a version says of a password is so after any step, for that version and
\* for one that has more requests in it.
LEMMA ComesOfStays ==
  ASSUME TypeOK, LinksHold, [Next]_vars, NEW v \in Snapshot, Consistent(v),
         NEW w, v.log \subseteq w.log, NEW u \in Users!Present(v.db), NEW pw, ComesOf(v, u, pw)
  PROVE ComesOf(w, u, pw)'
<1>1. CASE pw = u
  BY <1>1 DEF ComesOf
<1>2. CASE pw = Locked /\ (u \in Seed \/ req[u].kind = "reglocked")
  <2>1. u \in Seed \/ u \in v.log
    BY DEF Consistent, Users!Present, Id
  <2>2. u \in Seed \/ req'[u].kind = req[u].kind
    BY <2>1, LogsStay
  <2> QED
    BY <1>2, <2>2 DEF ComesOf
<1>3. CASE \E p \in v.log :
             /\ pw = p /\ req[p].kind \in PasswordKinds /\ req[p].target = u
             /\ req[p].kind = "change" => req[p].actor = u
             /\ req[p].kind = "setpw" => MadeFor(req[p].token, u)
  <2>1. PICK p \in v.log :
          /\ pw = p /\ req[p].kind \in PasswordKinds /\ req[p].target = u
          /\ req[p].kind = "change" => req[p].actor = u
          /\ req[p].kind = "setpw" => MadeFor(req[p].token, u)
    BY <1>3
  <2>2. /\ p \in Req /\ req'[p].kind = req[p].kind /\ req'[p].target = req[p].target
        /\ req'[p].actor = req[p].actor /\ req'[p].token = req[p].token
    BY LogsStay
  <2>3. req[p].kind = "setpw" => req'[req[p].token] = req[req[p].token]
    BY <2>2, TokenMinted
  <2>4. p \in w.log
    OBVIOUS
  <2> QED
    BY <2>1, <2>2, <2>3, <2>4 DEF ComesOf, MadeFor
<1> QED
  BY <1>1, <1>2, <1>3 DEF ComesOf

LEMMA AccountedForStays ==
  ASSUME TypeOK, LinksHold, [Next]_vars, NEW v \in Snapshot, NEW w \in Snapshot, Consistent(v),
         AccountedFor(v), Becomes(crashes', v, w)
  PROVE AccountedFor(w)'
<1>1. ASSUME NEW u \in Users!Present(w.db), NEW pw, pw = w.db[u].pw
      PROVE SetByStart(w.db[u]) \/ ComesOf(w, u, pw)'
  <2>1. /\ u \in Users!Present(v.db)
        /\ \/ SetByStart(w.db[u])
           \/ pw = v.db[u].pw /\ (SetByStart(v.db[u]) => SetByStart(w.db[u]))
    BY <1>1, RecastPassword
  <2>2. CASE pw = v.db[u].pw /\ ~SetByStart(v.db[u])
    <3>1. ComesOf(v, u, pw) /\ v.log \subseteq w.log
      BY <2>1, <2>2, SameUsers DEF AccountedFor
    <3> QED
      BY <2>1, <3>1, ComesOfStays
  <2> QED
    BY <2>1, <2>2
<1> QED
  BY <1>1 DEF AccountedFor, SetByStart, Users!Present

\* A write puts the hash into the record of the request's own user, or of the one
\* whose old password or link it was shown.
LEMMA WriteAccountedFor ==
  ASSUME TypeOK, DeletesStick, LinksHold, [Next]_vars, NEW r \in Req, Write(r), Vouched(r),
         NEW v, v = Memory, AccountedFor(v), NEW w, w = Memory'
  PROVE AccountedFor(w)'
<1>0. /\ v.db = users /\ v.log = applied /\ w.db = users' /\ w.log = applied \cup {r}
      /\ v \in Snapshot /\ Consistent(v)
      /\ users \in Users!Database /\ NoUser \notin Users!UserInfo /\ NoUser \notin Id
  BY MemoryKnown, WriteMoves DEF Memory
<1>1. /\ req[r].pc = "write" /\ req'[r].kind = req[r].kind /\ req'[r].actor = req[r].actor
      /\ req'[r].target = req[r].target /\ req'[r].token = req[r].token
  BY WriteMoves
<1>2. ASSUME NEW u \in Users!Present(users), NEW pw, pw = users[u].pw
      PROVE SetByStart(users[u]) \/ ComesOf(w, u, pw)'
  <2>1. SetByStart(users[u]) \/ ComesOf(v, u, pw)
    BY <1>0, <1>2 DEF AccountedFor
  <2> QED
    BY <1>0, <2>1, ComesOfStays
<1>3. SUFFICES ASSUME NEW u \in Users!Present(users'), NEW pw, pw = users'[u].pw
               PROVE SetByStart(users'[u]) \/ ComesOf(w, u, pw)'
  BY <1>0 DEF AccountedFor, SetByStart
<1>4. u \in Id /\ users'[u] # NoUser
  BY DEF Users!Present
<1>5. CASE \E i \in Users!UserInfo :
             /\ req[r].kind \in RegisterKinds
             /\ i.pw = Hashed(r) /\ users' = [users EXCEPT ![r] = i]
  <2>1. CASE u = r
    <3>1. pw = Hashed(r)
      BY <1>0, <1>3, <1>4, <1>5, <2>1 DEF Users!Database
    <3> QED
      BY <1>1, <2>1, <3>1 DEF ComesOf, Hashed
  <2>2. CASE u # r
    <3>1. users'[u] = users[u]
      BY <1>0, <1>4, <1>5, <2>2 DEF Users!Database
    <3> QED
      BY <1>2, <1>3, <1>4, <3>1 DEF Users!Present
  <2> QED
    BY <2>1, <2>2
<1>6. CASE /\ req[r].kind \in PasswordKinds
           /\ req[r].target \in Users!Present(users)
           /\ users' = [users EXCEPT ![req[r].target].pw = r]
  <2>1. CASE u = req[r].target
    <3>1. pw = r
      BY <1>0, <1>3, <1>4, <1>6, <2>1 DEF Users!Database, Users!UserInfo, Users!Present
    <3>2. req[r].kind = "change" => req[r].actor = u
      BY <1>1, <2>1 DEF Vouched, At
    <3>3. req[r].kind = "setpw" =>
            MadeFor(req[r].token, u) /\ req'[req[r].token] = req[req[r].token]
      BY <1>1, <2>1, TokenMinted DEF Vouched
    <3> QED
      BY <1>0, <1>1, <1>6, <2>1, <3>1, <3>2, <3>3 DEF ComesOf, MadeFor
  <2>2. CASE u # req[r].target
    <3>1. users'[u] = users[u]
      BY <1>0, <1>4, <1>6, <2>2 DEF Users!Database
    <3> QED
      BY <1>2, <1>3, <1>4, <3>1 DEF Users!Present
  <2> QED
    BY <2>1, <2>2
<1>7. CASE users' = [users EXCEPT ![req[r].target] = NoUser]
  <2>1. users'[u] = users[u]
    BY <1>0, <1>4, <1>7 DEF Users!Database
  <2> QED
    BY <1>2, <1>3, <1>4, <2>1 DEF Users!Present
<1>8. CASE \E g \in FormGroups :
             /\ req[r].target \in Users!Present(users)
             /\ users' = [users EXCEPT ![req[r].target].groups = g]
  <2>1. /\ u \in Users!Present(users)
        /\ users'[u].pw = users[u].pw /\ users'[u].name = users[u].name
    BY <1>0, <1>4, <1>8 DEF Users!Database, Users!UserInfo, Users!Present
  <2> QED
    BY <1>2, <1>3, <2>1 DEF SetByStart
<1> QED
  BY <1>5, <1>6, <1>7, <1>8, WriteForms

AllAccountedFor == \A v \in Versions : AccountedFor(v)

LEMMA AccountedForStep ==
  TypeOK /\ DeletesStick /\ LinksHold /\ AllLawful /\ AllAccountedFor /\ [Next]_vars
    => AllAccountedFor'
<1> SUFFICES ASSUME TypeOK, DeletesStick, LinksHold, AllLawful, AllAccountedFor, [Next]_vars,
                    NEW w \in Versions'
             PROVE AccountedFor(w)'
  BY DEF AllAccountedFor, AccountedFor, ComesOf, MadeFor, SetByStart
<1>1. CASE \E v \in Versions \cup {NoSnapshot} :
             v \in Snapshot /\ w \in Snapshot /\ Becomes(crashes', v, w)
  <2>1. PICK v \in Versions \cup {NoSnapshot} :
          v \in Snapshot /\ w \in Snapshot /\ Becomes(crashes', v, w)
    BY <1>1
  <2>2. Consistent(v)
    BY <2>1, VersionsKnown
  <2>3. AccountedFor(v)
    BY <2>1, NobodyIsPresent DEF AllAccountedFor, AccountedFor, NoSnapshot
  <2> QED
    BY <2>1, <2>2, <2>3, AccountedForStays
<1>2. CASE \E r \in Req : Write(r) /\ w = Memory'
  <2>1. PICK r \in Req : Write(r)
    BY <1>2
  <2>2. PICK m : m = Memory
    OBVIOUS
  <2>3. AccountedFor(m) /\ Vouched(r)
    BY <2>2, MemoryKnown DEF AllAccountedFor, AllLawful
  <2> QED
    BY <1>2, <2>1, <2>2, <2>3, WriteAccountedFor
<1> QED
  BY <1>1, <1>2, NewVersions

\* The hash of a request reaches no record but the one the request is for: not
\* when the user is deleted and another made while it is computed, not when the
\* link has been replaced meanwhile, and not by a failed save or a restart.  The
\* hash of the configuration reaches no record but one of its name.
THEOREM PasswordsReachNobodyElse == Spec => []PasswordsAccountedFor
<1>1. Init => AllAccountedFor
  <2> SUFFICES ASSUME Init, NEW v \in Versions, NEW u \in Users!Present(v.db)
               PROVE SetByStart(v.db[u]) \/ ComesOf(v, u, v.db[u].pw)
    BY DEF AllAccountedFor, AccountedFor
  <2>1. v.db \in Databases \cup {Users!EmptyDB}
    BY DEF Init, Versions, NoSnapshot
  <2>2. v.db \in Databases
    BY <2>1, NobodyIsPresent
  <2> QED
    BY <2>2, DatabaseAssumption DEF ComesOf, SetByStart, Users!Present
<1>2. AllAccountedFor => PasswordsAccountedFor
  BY DEF AllAccountedFor, AccountedFor, ComesOf, SetByStart, PasswordsAccountedFor
<1> QED
  BY <1>1, <1>2, AccountedForStep, AlwaysLawful, AccountsTypes, DeletesAlwaysStick,
     LinksAlwaysHold, PTL DEF Spec

(***************************************************************************)
(* Every handler gets on.                                                  *)
(***************************************************************************)
Held == saveMu # NoReq => At(saveMu, "rename")

\* saveMu is taken by SaveUsers only, and given back by it whether the save works
\* or fails; nothing else moves its holder.
LEMMA HeldStep == TypeOK /\ SavesNest /\ Held /\ [Next]_vars => Held'
<1> SUFFICES ASSUME TypeOK, SavesNest, Held, [Next]_vars, saveMu' # NoReq
             PROVE req'[saveMu'].pc = "rename"
  BY DEF Held, At
<1>0. req \in [Req -> Request] /\ saveMu \in Req \cup {NoReq}
  BY DEF TypeOK, RequestsOK, DiskOK
<1>1. CASE \E r \in Req : SaveBegin(r)
  <2>1. PICK r \in Req : SaveBegin(r)
    BY <1>1
  <2> QED
    BY <1>0, <2>1 DEF SaveBegin, Go, Request
<1>2. CASE ~\E r \in Req : SaveBegin(r)
  <2>1. saveMu' = saveMu /\ \A r \in Req : ~SaveCommit(r) /\ ~SaveFail(r)
    <3>1. \A r \in Req : ~SaveCommit(r) /\ ~SaveFail(r)
      BY DEF SaveCommit, SaveFail
    <3>2. ~Crash
      BY DEF Crash
    <3> QED
      BY <1>2, <3>1, <3>2
         DEF Next, Tick, vars, disk, Start, Serve, Login, Logout, Cookie, RegisterPage, PeekLink,
             WhoAmI, VerifyCaller, CheckOldPassword, LookUp, Reject, Write, Refuse, SaveNothing,
             ConsumeLink, SignOut, CreateSession, MintLink, MintFail
  <2>2. PICK h \in Req : h = saveMu /\ req[h].pc = "rename"
    BY <1>0, <2>1 DEF Held, At
  <2>3. ~Start(h)
    BY <2>2 DEF Start, Login, Logout, Cookie, RegisterPage, PeekLink, At
  <2>4. ~Serve(h)
    BY <2>1, <2>2
       DEF Serve, WhoAmI, VerifyCaller, CheckOldPassword, LookUp, Reject, Write, Refuse,
           SaveNothing, SaveBegin, ConsumeLink, SignOut, CreateSession, MintLink, MintFail, At
  <2>5. ~Crash
    BY DEF Crash
  <2>6. req'[h] = req[h]
    BY <2>3, <2>4, <2>5, OwnStep
  <2> QED
    BY <2>1, <2>2, <2>6
<1> QED
  BY <1>1, <1>2

\* What an in-flight handler waits for is always on its way: the half of
\* EveryRequestAnswered that is about states.  A save that fails, a crash and a
\* request that meets another's link leave nothing locked and no slot taken.
THEOREM NobodyIsEverStuck == Spec => []NobodyIsStuck
<1>1. Init => Held
  BY DEF Init, Held
<1>2. TypeOK /\ Held /\ SessionsHold /\ LinksHold => NobodyIsStuck
  BY DEF Held, SessionsHold, SigningInOf, LinksHold, LinkOf, NobodyIsStuck, Ended, At
<1> QED
  BY <1>1, <1>2, HeldStep, AccountsTypes, SavesAlwaysNest, SessionsAlwaysHold,
     LinksAlwaysHold, PTL DEF Spec

\* The other half: each step of a handler takes it further, so ten of them
\* answer its request.
THEOREM HandlersGetOn == Spec => HandlersAdvance
<1>1. ASSUME TypeOK, [Next]_vars, NEW r \in Req, req'[r] # req[r]
      PROVE Stage(req[r].pc) < Stage(req'[r].pc)
  <2>0. req \in [Req -> Request] /\ RequestsOK
    BY <1>1 DEF TypeOK, RequestsOK
  <2>1. ASSUME NEW x, Go(r, x) PROVE req'[r].pc = x
    BY <2>0, <2>1 DEF Go, Request
  <2>2. CASE Start(r)
    <3>1. Stage(req[r].pc) = 0
      BY <2>2 DEF Start, Login, Logout, Cookie, RegisterPage, PeekLink, At, Stage
    <3>2. req'[r].pc \in {"session", "ok", "whoami", "write", "look", "fail"}
      <4>1. PeekLink(r) => req'[r].pc \in {"look", "fail"}
        BY <2>0 DEF PeekLink, Idle
      <4>2. Login(r) \/ Logout(r) \/ Cookie(r) \/ RegisterPage(r) =>
              req'[r].pc \in {"session", "ok", "whoami", "write"}
        BY <2>0 DEF Login, Logout, Cookie, RegisterPage, Idle
      <4> QED
        BY <2>2, <4>1, <4>2 DEF Start
    <3> QED
      BY <3>1, <3>2 DEF Stage
  <2>3. CASE WhoAmI(r) \/ VerifyCaller(r) \/ CheckOldPassword(r) \/ LookUp(r)
    <3>1. CASE WhoAmI(r)
      <4>1. req'[r].pc \in {"check", "look", "verify"}
        BY <2>0, <2>1, <3>1 DEF WhoAmI, Request
      <4> QED
        BY <3>1, <4>1 DEF WhoAmI, At, Stage
    <3>2. CASE VerifyCaller(r)
      <4>1. req'[r].pc \in {"look", "write"}
        BY <2>0, <3>2 DEF VerifyCaller, Request
      <4> QED
        BY <3>2, <4>1 DEF VerifyCaller, At, Stage
    <3>3. CASE CheckOldPassword(r)
      <4>1. req'[r].pc = "write"
        BY <2>0, <3>3 DEF CheckOldPassword, Request
      <4> QED
        BY <3>3, <4>1 DEF CheckOldPassword, At, Stage
    <3>4. CASE LookUp(r)
      <4>1. req'[r].pc \in {"mint", "write"}
        BY <2>1, <3>4 DEF LookUp
      <4> QED
        BY <3>4, <4>1 DEF LookUp, At, Stage
    <3> QED
      BY <2>3, <3>1, <3>2, <3>3, <3>4
  <2>4. CASE Reject(r) \/ Refuse(r)
    <3>1. req'[r].pc = "fail"
      BY <2>0, <2>4 DEF Reject, Refuse, Idle
    <3> QED
      BY <2>4, <3>1 DEF Reject, Refuse, At, Stage
  <2>5. CASE Write(r) \/ SaveBegin(r) \/ SaveFail(r)
    BY <2>1, <2>5 DEF Write, SaveBegin, SaveFail, At, Stage
  <2>6. CASE SaveNothing(r) \/ SaveCommit(r)
    <3>1. req'[r].pc = AfterSave(req[r].kind) /\ req[r].pc \in {"save", "rename"}
      BY <2>1, <2>6 DEF SaveNothing, SaveCommit, At
    <3>2. AfterSave(req[r].kind) \in {"session", "purge", "consume", "mint", "ok"}
      BY DEF AfterSave
    <3> QED
      BY <3>1, <3>2 DEF Stage
  <2>7. CASE ConsumeLink(r) \/ CreateSession(r) \/ MintLink(r) \/ MintFail(r)
    BY <2>1, <2>7 DEF ConsumeLink, CreateSession, MintLink, MintFail, At, Stage
  <2>8. CASE SignOut(r)
    <3>1. req'[r].pc \in {"session", "ok"}
      BY <2>1, <2>8 DEF SignOut, AfterPurge
    <3> QED
      BY <2>8, <3>1 DEF SignOut, At, Stage
  <2>9. CASE req[r].pc \notin Ended /\ req'[r] = [req[r] EXCEPT !.pc = "lost"]
    <3>1. req[r].pc \in Places /\ req'[r].pc = "lost"
      BY <2>0, <2>9 DEF Request
    <3> QED
      BY <2>9, <3>1 DEF Places, Ended, Stage
  <2> QED
    BY <1>1, <2>2, <2>3, <2>4, <2>5, <2>6, <2>7, <2>8, <2>9, OwnStep DEF Serve
<1>2. TypeOK /\ [Next]_vars
        => [\A r \in Req : req'[r] # req[r] => Stage(req[r].pc) < Stage(req'[r].pc)]_vars
  BY <1>1
<1> QED
  BY <1>2, AccountsTypes, PTL DEF Spec, HandlersAdvance
=============================================================================
