---------------------------- MODULE StartupProofs ----------------------------
(***************************************************************************)
(* Starting over, for any configurations, keys, users and crashes.         *)
(***************************************************************************)
EXTENDS StartupSafety, TLAPS

Stored == Hash \cup {NoHash, Locked}

(***************************************************************************)
(* Types.                                                                  *)
(***************************************************************************)
LEMMA RecordTyped ==
  ASSUME NEW seed \in Seed
  PROVE Record(seed) \in Users!UserInfo /\ Record(seed).name = seed.name
  BY DEF Record, Seed, Users!UserInfo

\* A database made of the seed has the names of the seed and nobody else.
LEMMA SeedTyped ==
  ASSUME StartAssumption, cfg \in Loaded, NEW f
  PROVE /\ SeedDatabase(f) \in Users!Database
        /\ \A u \in UserId : SeedDatabase(f)[u] # NoUser =>
             \E i \in DOMAIN Defaults : f[i] = u /\ SeedDatabase(f)[u].name = Defaults[i].name
<1>1. Defaults \in Seq(Seed)
  BY DEF StartAssumption, Defaults, UserConfig
<1>2. ASSUME NEW u \in UserId
      PROVE /\ SeedDatabase(f)[u] \in Users!UserInfo \cup {NoUser}
            /\ SeedDatabase(f)[u] # NoUser =>
                 \E i \in DOMAIN Defaults : f[i] = u /\ SeedDatabase(f)[u].name = Defaults[i].name
  <2>1. CASE \E i \in DOMAIN Defaults : f[i] = u
    <3> DEFINE i == CHOOSE i \in DOMAIN Defaults : f[i] = u
    <3>1. i \in DOMAIN Defaults /\ f[i] = u
      BY <2>1
    <3>2. Defaults[i] \in Seed
      BY <1>1, <3>1
    <3>3. SeedDatabase(f)[u] = Record(Defaults[i])
      BY <2>1 DEF SeedDatabase
    <3> QED
      BY <3>1, <3>2, <3>3, RecordTyped
  <2>2. CASE ~(\E i \in DOMAIN Defaults : f[i] = u)
    BY <2>2 DEF SeedDatabase
  <2> QED
    BY <2>1, <2>2
<1> QED
  BY <1>2 DEF SeedDatabase, Users!Database

LEMMA ConfiguredTyped ==
  ASSUME StartAssumption, cfg \in Loaded, NEW n
  PROVE Configured(n) \in Stored
<1>1. Defaults \in Seq(Seed)
  BY DEF StartAssumption, Defaults, UserConfig
<1>2. CASE \E i \in DOMAIN Defaults : Defaults[i].name = n
  <2> DEFINE i == CHOOSE i \in DOMAIN Defaults : Defaults[i].name = n
  <2>1. i \in DOMAIN Defaults
    BY <1>2
  <2>2. Defaults[i] \in Seed
    BY <1>1, <2>1
  <2> QED
    BY <1>2, <2>2 DEF Configured, Stored, Seed
<1> QED
  BY <1>2 DEF Configured, Stored

\* applySeedPasswords leaves names, and everything but seed passwords, alone.
LEMMA AppliedTyped ==
  ASSUME StartAssumption, cfg \in Loaded, NEW db \in Users!Database
  PROVE /\ Applied(db) \in Users!Database
        /\ \A u \in UserId :
             /\ Applied(db)[u] = NoUser <=> db[u] = NoUser
             /\ db[u] # NoUser => Applied(db)[u].name = db[u].name
             /\ db[u] # NoUser /\ Configured(db[u].name) # NoHash =>
                  Applied(db)[u].pw = Configured(db[u].name)
        /\ SeedPasswordsOnly(db, Applied(db))
<1>1. NoUser \notin Users!UserInfo
  BY DEF StartAssumption
<1>2. ASSUME NEW u \in UserId
      PROVE /\ Applied(db)[u] \in Users!UserInfo \cup {NoUser}
            /\ Applied(db)[u] = NoUser <=> db[u] = NoUser
            /\ db[u] # NoUser => Applied(db)[u].name = db[u].name
            /\ db[u] # NoUser /\ Configured(db[u].name) # NoHash =>
                 Applied(db)[u].pw = Configured(db[u].name)
            /\ Applied(db)[u] # db[u] =>
                 /\ db[u] # NoUser /\ Configured(db[u].name) # NoHash
                 /\ Applied(db)[u] = [db[u] EXCEPT !.pw = Configured(db[u].name)]
  <2>1. db[u] \in Users!UserInfo \cup {NoUser}
    BY DEF Users!Database
  <2>2. CASE db[u] # NoUser /\ Configured(db[u].name) # NoHash
    <3> DEFINE x == [db[u] EXCEPT !.pw = Configured(db[u].name)]
    <3>1. Applied(db)[u] = x
      BY <2>2 DEF Applied
    <3>2. Configured(db[u].name) \in Hash \cup {NoHash, Locked}
      BY ConfiguredTyped DEF Stored
    <3>3. x \in Users!UserInfo /\ x.name = db[u].name /\ x.pw = Configured(db[u].name)
      BY <2>1, <2>2, <3>2 DEF Users!UserInfo
    <3> QED
      BY <1>1, <2>2, <3>1, <3>3
  <2>3. CASE ~(db[u] # NoUser /\ Configured(db[u].name) # NoHash)
    BY <2>1, <2>3 DEF Applied
  <2> QED
    BY <2>2, <2>3
<1>3. Applied(db) \in Users!Database
  BY <1>2 DEF Applied, Users!Database
<1> QED
  BY <1>2, <1>3 DEF SeedPasswordsOnly

(***************************************************************************)
(* What a save makes of a database.                                        *)
(***************************************************************************)
InFileOf(info) == [info EXCEPT !.name = InFile[info.name], !.email = InFile[info.email]]

LEMMA RecordWritten ==
  ASSUME StartAssumption, NEW info \in Users!UserInfo
  PROVE /\ InFileOf(info) \in Users!UserInfo
        /\ InFileOf(info).name = InFile[info.name] /\ InFileOf(info).email = NoEmail
        /\ InFileOf(InFileOf(info)) = InFileOf(info)
<1>1. InFile[info.name] \in Name /\ InFile[InFile[info.name]] = InFile[info.name]
  BY DEF StartAssumption, Users!UserInfo
<1>2. info.email = NoEmail /\ InFile[NoEmail] = NoEmail
  BY DEF StartAssumption, Users!UserInfo
<1> QED
  BY <1>1, <1>2 DEF InFileOf, Users!UserInfo

\* A save is read back as it was written, with as many users, and of names that
\* were apart only garbled ones are the same.
LEMMA WrittenTyped ==
  ASSUME StartAssumption, NEW db \in Users!Database
  PROVE /\ Users!Written(db) \in Users!Database
        /\ Users!Written(Users!Written(db)) = Users!Written(db)
        /\ Users!ValidUsers(db) =>
             \/ Users!ValidUsers(Users!Written(db))
             \/ Users!GarbledNamesClash(Users!Written(db))
<1> DEFINE w == Users!Written(db)
<1>0. NoUser \notin Users!UserInfo
  BY DEF StartAssumption
<1>1. w = [u \in UserId |-> IF db[u] = NoUser THEN NoUser ELSE InFileOf(db[u])]
  BY DEF Users!Written, InFileOf
<1>2. ASSUME NEW u \in UserId
      PROVE /\ db[u] = NoUser => w[u] = NoUser
            /\ db[u] # NoUser =>
                 /\ w[u] = InFileOf(db[u]) /\ w[u] \in Users!UserInfo /\ w[u] # NoUser
                 /\ w[u].name = InFile[db[u].name] /\ InFileOf(w[u]) = w[u]
                 /\ db[u].name \in Name
  <2>1. CASE db[u] = NoUser
    BY <1>1, <2>1
  <2>2. CASE db[u] # NoUser
    <3>1. db[u] \in Users!UserInfo
      BY <2>2 DEF Users!Database
    <3>2. db[u].name \in Name
      BY <3>1 DEF Users!UserInfo
    <3>3. w[u] = InFileOf(db[u])
      BY <1>1, <2>2
    <3> QED
      BY <1>0, <2>2, <3>1, <3>2, <3>3, RecordWritten
  <2> QED
    BY <2>1, <2>2
<1>3. w \in Users!Database
  <2>1. \A u \in UserId : w[u] \in Users!UserInfo \cup {NoUser}
    BY <1>2
  <2> QED
    BY <1>1, <2>1 DEF Users!Database
<1>4. Users!Written(w) = w
  <2>1. Users!Written(w) = [u \in UserId |-> IF w[u] = NoUser THEN NoUser ELSE InFileOf(w[u])]
    BY DEF Users!Written, InFileOf
  <2>2. \A u \in UserId : (IF w[u] = NoUser THEN NoUser ELSE InFileOf(w[u])) = w[u]
    BY <1>2
  <2>3. w = [u \in UserId |-> w[u]]
    BY <1>1
  <2> HIDE DEF w
  <2> QED
    BY <2>1, <2>2, <2>3
<1>5. ASSUME Users!ValidUsers(db), ~Users!ValidUsers(w) PROVE Users!GarbledNamesClash(w)
  <2>1. PICK u \in Users!Present(w), v \in Users!Present(w) : w[u].name = w[v].name /\ u # v
    BY <1>5 DEF Users!ValidUsers
  <2>2. u \in UserId /\ v \in UserId /\ db[u] # NoUser /\ db[v] # NoUser
    BY <1>2 DEF Users!Present
  <2>3. db[u].name # db[v].name
    BY <1>5, <2>1, <2>2 DEF Users!ValidUsers, Users!Present
  <2>4. InFile[db[u].name] = InFile[db[v].name] /\ w[u].name = InFile[db[u].name]
        /\ {db[u].name, db[v].name} \subseteq Name
    BY <1>2, <2>1, <2>2
  <2>5. DOMAIN InFile = Name \cup {NoEmail}
    BY DEF StartAssumption
  <2>6. InFile[db[u].name] # db[u].name \/ InFile[db[v].name] # db[v].name
    BY <2>3, <2>4
  <2>7. w[u].name \in Users!Garbled
    BY <2>4, <2>5, <2>6 DEF Users!Garbled
  <2> HIDE DEF w
  <2> QED
    BY <2>1, <2>7 DEF Users!GarbledNamesClash
<1> QED
  BY <1>3, <1>4, <1>5

\* Seed passwords change no name, so a save changes none of what was loaded.
LEMMA SeedWritten ==
  ASSUME StartAssumption, cfg \in Loaded, NEW db \in Users!Database, Users!Written(db) = db
  PROVE Users!Written(Applied(db)) = Applied(db)
<1> DEFINE w == Applied(db)
<1>1. ASSUME NEW u \in UserId, w[u] # NoUser
      PROVE InFileOf(w[u]) = w[u]
  <2>1. db[u] # NoUser /\ db[u] \in Users!UserInfo /\ w[u] \in Users!UserInfo
        /\ w[u].name = db[u].name
    BY <1>1, AppliedTyped DEF Users!Database
  <2>2. InFileOf(db[u]) = db[u]
    BY <2>1 DEF Users!Written, InFileOf
  <2>3. InFileOf(db[u]).name = InFile[db[u].name]
    BY <2>1, RecordWritten
  <2>4. InFile[w[u].name] = w[u].name
    BY <2>1, <2>2, <2>3
  <2>5. w[u].email = NoEmail /\ InFile[NoEmail] = NoEmail
    BY <2>1 DEF StartAssumption, Users!UserInfo
  <2> HIDE DEF w
  <2> QED
    BY <2>1, <2>4, <2>5 DEF InFileOf, Users!UserInfo
<1>2. Users!Written(w) = [u \in UserId |-> IF w[u] = NoUser THEN NoUser ELSE InFileOf(w[u])]
  BY DEF Users!Written, InFileOf
<1>3. w = [u \in UserId |-> w[u]]
  BY DEF Applied
<1> HIDE DEF w
<1>4. Users!Written(w) = w
  BY <1>1, <1>2, <1>3
<1> QED
  BY <1>4 DEF w

(***************************************************************************)
(* The signing key.  KeyOK follows it through a start: what is written is  *)
(* what signs, and only a missing file, or the default one without a look, *)
(* is written at all.                                                      *)
(***************************************************************************)
KeyOK ==
  /\ phase \in {"down", "validate", "key"} => keySet = <<>>
  /\ phase \in {"truncate", "write"} => key \in Key /\ keySet = <<key>>
  /\ phase = "truncate" /\ KeyConfig.filePath # NoPath =>
       keyFile[KeyConfig.filePath] = Missing
  /\ phase = "write" => keyFile[KeyPath] = Torn
  /\ phase \in {"open", "load", "apply", "serving"} =>
       /\ key \in Key /\ keySet # <<>> /\ keySet[1] = key
       /\ keyFile[KeyPath] = key

\* The user file is as a save leaves it.  Memory, once read, is what
\* validateUsers admits, and so is the file but for garbled names; until the
\* server answers they are the same.
Read == {"apply", "serving"}
LoadableOrGarbled(db) == Users!ValidUsers(db) \/ Users!GarbledNamesClash(db)

UsersOK ==
  /\ file # Missing => Users!Written(file) = file
  /\ phase \in Read => Users!ValidUsers(users)
  /\ phase \in Read /\ UserConfig.filePath # NoPath =>
       file # Missing /\ LoadableOrGarbled(file)
  /\ phase = "apply" /\ UserConfig.filePath # NoPath => users = file

SInv == TypeOK /\ KeyOK /\ UsersOK

LEMMA KeyPathTyped ==
  ASSUME StartAssumption, cfg \in Loaded
  PROVE KeyPath \in Path /\ KeyConfig.filePath \in Path \cup {NoPath}
  BY DEF StartAssumption, KeyPath, KeyConfig

LEMMA EmptyTyped == Users!EmptyDB \in Users!Database /\ Users!ValidUsers(Users!EmptyDB)
  BY DEF Users!EmptyDB, Users!Database, Users!ValidUsers, Users!Present

LEMMA GoneOK ==
  ASSUME StartAssumption, TypeOK, UsersOK, Gone, UNCHANGED <<keyFile, file, last>>, faults' \in Nat
  PROVE SInv'
<1>1. TypeOK'
  BY EmptyTyped DEF TypeOK, Gone, StartAssumption
<1>2. KeyOK' /\ UsersOK'
  BY DEF Gone, KeyOK, UsersOK, Read, Users!Written
<1> QED
  BY <1>1, <1>2 DEF SInv

LEMMA InitSInv == StartAssumption /\ Init => SInv
  BY EmptyTyped DEF StartAssumption, Init, SInv, TypeOK, KeyOK, UsersOK, Read

\* What UsersOK says of the file stays so while the file does.
LEMMA FileStays ==
  ASSUME UsersOK, file' = file
  PROVE /\ (file # Missing => Users!Written(file) = file)'
        /\ LoadableOrGarbled(file) => LoadableOrGarbled(file)'
        /\ Users!ValidUsers(file) => Users!ValidUsers(file)'
  BY DEF UsersOK, LoadableOrGarbled, Users!ValidUsers, Users!GarbledNamesClash, Users!Present,
         Users!Written, Users!Garbled

\* So it does when a save of valid users replaces it.
LEMMA FileSaved ==
  ASSUME StartAssumption, users' \in Users!Database, file' = Users!Written(users')
  PROVE /\ file' \in Users!Database /\ file' # Missing
        /\ (file # Missing => Users!Written(file) = file)'
        /\ Users!ValidUsers(users)' => LoadableOrGarbled(file)'
<1>1. PICK db \in Users!Database : db = users'
  OBVIOUS
<1>2. file' = Users!Written(db)
  BY <1>1
<1>3. PICK w \in Users!Database :
        /\ w = Users!Written(db) /\ Users!Written(w) = w
        /\ Users!ValidUsers(db) => Users!ValidUsers(w) \/ Users!GarbledNamesClash(w)
  BY WrittenTyped
<1>4. file' = w /\ Missing \notin Users!Database
  BY <1>2, <1>3 DEF StartAssumption
<1>5. (Users!Written(file) = file)'
  <2>1. w = [u \in UserId |->
               IF w[u] = NoUser THEN NoUser
               ELSE [w[u] EXCEPT !.name = InFile[w[u].name], !.email = InFile[w[u].email]]]
    BY <1>3 DEF Users!Written
  <2> QED
    BY <1>4, <2>1 DEF Users!Written
<1>6. Users!ValidUsers(users)' => Users!ValidUsers(db)
  BY <1>1 DEF Users!ValidUsers, Users!Present
<1>7. Users!ValidUsers(w) \/ Users!GarbledNamesClash(w) => LoadableOrGarbled(file)'
  BY <1>4 DEF LoadableOrGarbled, Users!ValidUsers, Users!GarbledNamesClash, Users!Present,
              Users!Garbled
<1> QED
  BY <1>3, <1>4, <1>5, <1>6, <1>7

\* A write of the serving process keeps names apart, and so does its save.
LEMMA ServingOK ==
  ASSUME StartAssumption, SInv, phase = "serving", Save,
         users' \in Users!Database, Users!ValidUsers(users)',
         UNCHANGED <<phase, cfg, faults, last, provider>>
  PROVE SInv'
<1>1. NoUser \notin Users!UserInfo /\ Missing \notin Users!Database
  BY DEF StartAssumption
<1>2. TypeOK'
  BY FileSaved DEF SInv, TypeOK, Save, provider
<1>3. KeyOK'
  BY DEF SInv, KeyOK, provider, KeyConfig, KeyPath
<1>4. CASE file' = file
  BY <1>2, <1>3, <1>4, FileStays DEF SInv, UsersOK, Read, UserConfig
<1>5. CASE file' = Users!Written(users')
  BY <1>1, <1>2, <1>3, <1>5, FileSaved DEF SInv, UsersOK, Read
<1> QED
  BY <1>2, <1>3, <1>4, <1>5 DEF Save, SInv

\* Seed passwords change no name: they are in the file as they are in memory.
LEMMA AppliedInFile ==
  ASSUME StartAssumption, SInv, ApplySeed
  PROVE users = file /\ file' = Applied(file) /\ file' = users' /\ file' = Users!Written(users')
<1>1. users = file /\ cfg \in Loaded /\ users \in Users!Database /\ Users!Written(users) = users
  BY DEF ApplySeed, Seeding, At, SInv, TypeOK, UsersOK, StartAssumption
<1>2. Users!Written(Applied(users)) = Applied(users)
  BY <1>1, SeedWritten
<1>3. users' = Applied(users)
  BY DEF ApplySeed
<1>4. file' = IF users' = users THEN file ELSE Users!Written(users')
  BY DEF ApplySeed
<1>5. Users!Written(users') = users'
  BY <1>2, <1>3
<1> QED
  BY <1>1, <1>3, <1>4, <1>5

LEMMA StepSInv == StartAssumption /\ SInv /\ [Next]_vars => SInv'
<1> SUFFICES ASSUME StartAssumption, SInv, [Next]_vars PROVE SInv'
  OBVIOUS
<1>0. /\ NoConfig \notin Loaded /\ NoKey \notin Key /\ Missing # Torn
      /\ Missing \notin Key /\ Torn \notin Key
      /\ NoUser \notin Users!UserInfo /\ Missing \notin Users!Database
      /\ NoPath \notin Path
  BY DEF StartAssumption
<1>t. TypeOK /\ KeyOK /\ UsersOK
  BY DEF SInv
<1>c. phase # "down" => cfg \in Loaded
  BY <1>t DEF TypeOK
<1>k. phase # "down" => KeyPath \in Path /\ KeyConfig.filePath \in Path \cup {NoPath}
  BY <1>c, KeyPathTyped
<1>f. file' = file =>
        /\ (file # Missing => Users!Written(file) = file)'
        /\ LoadableOrGarbled(file) => LoadableOrGarbled(file)'
        /\ Users!ValidUsers(file) => Users!ValidUsers(file)'
  BY <1>t, FileStays
<1> USE DEF At, Go
<1>1. CASE Start
  BY <1>0, <1>t, <1>f, <1>1 DEF Start, SInv, TypeOK, KeyOK, UsersOK, Read, provider, database, Starting
<1>2. CASE CheckConfig
  BY <1>0, <1>t, <1>f, <1>2 DEF CheckConfig, SInv, TypeOK, KeyOK, UsersOK, Read, provider, database, Starting
<1>3. CASE RefuseConfig \/ RefuseKey \/ RefuseSeed \/ RefuseUsers \/ RefuseApply
  BY <1>t, <1>3, GoneOK
     DEF RefuseConfig, RefuseKey, RefuseSeed, RefuseUsers, RefuseApply, Refuse, TypeOK
<1>4. CASE LoadKey
  <2>1. KeyPath = KeyConfig.filePath /\ KeyPath' = KeyPath
    BY <1>4 DEF LoadKey, KeyPath, KeyConfig
  <2>2. keySet' = <<keyFile[KeyConfig.filePath]>>
    BY <1>t, <1>4 DEF LoadKey, Keys!Add, KeyOK
  <2> QED
    BY <1>0, <1>t, <1>f, <1>4, <2>1, <2>2
       DEF LoadKey, SInv, TypeOK, KeyOK, UsersOK, Read, database, Starting
<1>5. CASE GenerateKey
  <2>1. PICK k \in Key : key' = k /\ keySet' = <<k>>
    BY <1>t, <1>5 DEF GenerateKey, Keys!Create, Keys!Add, KeyOK
  <2> QED
    BY <1>0, <1>t, <1>f, <1>5, <2>1
       DEF GenerateKey, LacksKey, SInv, TypeOK, KeyOK, UsersOK, Read, database, Starting, KeyConfig
<1>6. CASE TruncateKey
  <2>1. keyFile'[KeyPath] = Torn /\ KeyPath' = KeyPath
    BY <1>t, <1>k, <1>6 DEF TruncateKey, TypeOK, KeyPath, KeyConfig
  <2> QED
    BY <1>0, <1>t, <1>f, <1>6, <2>1
       DEF TruncateKey, SInv, TypeOK, KeyOK, UsersOK, Read, database, Starting
<1>7. CASE WriteKey
  <2>1. keyFile'[KeyPath] = key /\ KeyPath' = KeyPath
    BY <1>t, <1>k, <1>7 DEF WriteKey, TypeOK, KeyPath, KeyConfig
  <2>2. key \in Key /\ keySet' = Append(<<key>>, key)
    BY <1>t, <1>7 DEF WriteKey, Keys!Add, KeyOK
  <2>3. keySet' \in Seq(Key) /\ keySet' # <<>> /\ keySet'[1] = key
    <3>1. <<key>> \in Seq(Key) /\ Len(<<key>>) = 1 /\ <<key>>[1] = key
      BY <2>2
    <3> HIDE DEF At, Go
    <3> QED
      BY <2>2, <3>1
  <2> QED
    BY <1>0, <1>t, <1>f, <1>7, <2>1, <2>2, <2>3
       DEF WriteKey, SInv, TypeOK, KeyOK, UsersOK, Read, database, Starting
<1>8. CASE SeedUsers
  <2>1. PICK f \in SeedIds : users' = SeedDatabase(f)
    BY <1>8 DEF SeedUsers
  <2>2. users' \in Users!Database
    BY <1>c, <1>8, <2>1, SeedTyped DEF SeedUsers
  <2>3. file' \in Users!Database /\ (file # Missing => Users!Written(file) = file)'
    BY <1>8, <2>2, FileSaved DEF SeedUsers
  <2> QED
    BY <1>0, <1>t, <1>8, <2>2, <2>3
       DEF SeedUsers, SInv, TypeOK, KeyOK, UsersOK, Read, provider, Starting, KeyPath, KeyConfig
<1>9. CASE KeepUsers
  BY <1>0, <1>t, <1>f, <1>9
     DEF KeepUsers, SInv, TypeOK, KeyOK, UsersOK, Read, provider, database, Starting, KeyPath, KeyConfig
<1>10. CASE LoadUsers
  <2>1. CASE UserConfig.filePath = NoPath /\ users' = Users!EmptyDB
    <3>1. users' \in Users!Database /\ Users!ValidUsers(users)'
      BY <2>1, EmptyTyped DEF Users!ValidUsers, Users!Present
    <3> QED
      BY <1>0, <1>t, <1>f, <1>10, <2>1, <3>1
         DEF LoadUsers, SInv, TypeOK, KeyOK, UsersOK, Read, provider, Starting,
             KeyPath, KeyConfig, UserConfig
  <2>2. CASE file # Missing /\ Users!ValidUsers(file) /\ users' = file
    <3>1. users' \in Users!Database /\ Users!ValidUsers(users)' /\ Users!ValidUsers(file)'
      BY <1>t, <1>10, <2>2 DEF LoadUsers, TypeOK, Users!ValidUsers, Users!Present
    <3>2. Users!ValidUsers(file)' => LoadableOrGarbled(file)'
      BY DEF LoadableOrGarbled
    <3> QED
      BY <1>0, <1>t, <1>f, <1>10, <2>2, <3>1, <3>2
         DEF LoadUsers, SInv, TypeOK, KeyOK, UsersOK, Read, provider, Starting, KeyPath, KeyConfig
  <2> QED
    BY <1>10, <2>1, <2>2 DEF LoadUsers
<1>11. CASE ApplySeed
  <2>1. users' \in Users!Database /\ Users!ValidUsers(users)'
    BY <1>t, <1>c, <1>11, AppliedTyped
       DEF ApplySeed, TypeOK, UsersOK, Read, Users!ValidUsers, Users!Present
  <2>2. UserConfig.filePath # NoPath /\ users = file
    BY <1>t, <1>11 DEF ApplySeed, Seeding, UsersOK
  <2>3. file' = users'
    BY <1>11, AppliedInFile DEF ApplySeed
  <2>4. (file # Missing => Users!Written(file) = file)' /\ LoadableOrGarbled(file)'
    <3>1. file' = Users!Written(users')
      BY <1>11, AppliedInFile
    <3> QED
      BY <2>1, <3>1, FileSaved
  <2> QED
    BY <1>0, <1>t, <1>11, <2>1, <2>2, <2>3, <2>4
       DEF ApplySeed, SInv, TypeOK, KeyOK, UsersOK, Read, provider, Starting, KeyPath, KeyConfig
<1>12. CASE SkipApply
  <2>1. Users!ValidUsers(users)'
    BY <1>t, <1>12 DEF SkipApply, UsersOK, Read, database, Users!ValidUsers, Users!Present
  <2> QED
    BY <1>0, <1>t, <1>f, <1>12, <2>1
       DEF SkipApply, SInv, TypeOK, KeyOK, UsersOK, Read, provider, database, Starting,
           KeyPath, KeyConfig, UserConfig
<1>13. CASE Register
  <2>1. PICK id \in UserId, name \in Name, hash \in Hash \cup {Locked} :
          ~Users!Get(id) /\ Users!Register(id, name, hash, {}, NoEmail, FALSE)
    BY <1>13 DEF Register
  <2> DEFINE x == [name |-> name, email |-> NoEmail, pw |-> hash, groups |-> Users!GrantedGroups({})]
  <2>2. users' = [users EXCEPT ![id] = x] /\ \A u \in Users!Present(users) : users[u].name # name
    BY <2>1 DEF Users!Register, Users!MayRegister
  <2>3. x \in Users!UserInfo
    BY DEF Users!UserInfo, Users!GrantedGroups
  <2>4. users' \in Users!Database /\ Users!ValidUsers(users)'
    BY <1>0, <1>t, <1>13, <2>2, <2>3
       DEF Register, Writable, TypeOK, UsersOK, Read, Users!Database, Users!ValidUsers, Users!Present
  <2> QED
    BY <1>13, <2>4, ServingOK DEF Register, Writable
<1>14. CASE Delete
  <2>1. PICK id \in UserId : users' = [users EXCEPT ![id] = NoUser]
    BY <1>14 DEF Delete, Users!Delete
  <2>2. users' \in Users!Database /\ Users!ValidUsers(users)'
    BY <1>t, <1>14, <2>1
       DEF Delete, Writable, TypeOK, UsersOK, Read, Users!Database, Users!ValidUsers, Users!Present
  <2> QED
    BY <1>14, <2>2, ServingOK DEF Delete, Writable
<1>15. CASE SetPassword
  <2>1. PICK id \in UserId, hash \in Hash :
          users[id] # NoUser /\ users' = [users EXCEPT ![id].pw = hash]
    BY <1>15 DEF SetPassword, Users!SetHash, Users!Get, Users!Present
  <2> DEFINE x == [users[id] EXCEPT !.pw = hash]
  <2>2. x \in Users!UserInfo /\ x.name = users[id].name
    BY <1>t, <2>1 DEF TypeOK, Users!Database, Users!UserInfo
  <2>3. users' = [users EXCEPT ![id] = x]
    BY <2>1
  <2>4. users' \in Users!Database /\ Users!ValidUsers(users)'
    BY <1>0, <1>t, <1>15, <2>1, <2>2, <2>3
       DEF SetPassword, Writable, TypeOK, UsersOK, Read, Users!Database, Users!ValidUsers, Users!Present
  <2> QED
    BY <1>15, <2>4, ServingOK DEF SetPassword, Writable
<1>16. CASE Die
  BY <1>t, <1>16, GoneOK DEF Die, TypeOK
<1>17. CASE UNCHANGED vars
  BY <1>17, <1>t, <1>f
     DEF vars, SInv, TypeOK, KeyOK, UsersOK, Read, KeyPath, KeyConfig, UserConfig,
         Users!ValidUsers, Users!Present
<1> QED
  BY <1>1, <1>2, <1>3, <1>4, <1>5, <1>6, <1>7, <1>8, <1>9, <1>10, <1>11, <1>12, <1>13,
     <1>14, <1>15, <1>16, <1>17 DEF Next, Main

LEMMA AlwaysSInv == Spec => []SInv
<1>1. Init => SInv
  BY InitSInv, StartAssumption
<1>2. SInv /\ [Next]_vars => SInv'
  BY StepSInv, StartAssumption
<1> QED
  BY <1>1, <1>2, PTL DEF Spec

\* For any configurations, keys and crashes: main never has a state that its
\* phase does not call for (main.go).
THEOREM StartupTypes == Spec => []TypeOK
<1>1. SInv => TypeOK
  BY DEF SInv
<1> QED
  BY <1>1, AlwaysSInv, PTL

\* Whatever was started before and wherever it died, a server signs with the
\* key it verifies with and has it on file (oidc.go:110, keychain.go).
THEOREM TheKeyOnFileSigns == Spec => []SignsWithTheKeyOnFile
<1>1. SInv => SignsWithTheKeyOnFile
  BY DEF SInv, KeyOK, SignsWithTheKeyOnFile, Keys!VerifyingKey
<1> QED
  BY <1>1, AlwaysSInv, PTL

\* A saved key is never replaced, but for the default file by a start without
\* a path (oidc.go:110).
THEOREM SavedKeysStay == Spec => KeysAreKept
<1> DEFINE A == \A p \in Path : keyFile[p] \in Key /\ keyFile'[p] # keyFile[p] =>
                  p = DefaultPath /\ KeyConfig.filePath = NoPath
<1>1. SInv /\ [Next]_vars => [A]_vars
  <2> SUFFICES ASSUME SInv, [Next]_vars, NEW p \in Path,
                      keyFile[p] \in Key, keyFile'[p] # keyFile[p]
               PROVE p = DefaultPath /\ KeyConfig.filePath = NoPath
    OBVIOUS
  <2>0. Missing \notin Key /\ Torn \notin Key
    BY StartAssumption DEF StartAssumption
  <2>1. CASE TruncateKey
    <3>1. p = KeyPath /\ (KeyConfig.filePath # NoPath => keyFile[KeyConfig.filePath] = Missing)
      BY <2>1 DEF TruncateKey, SInv, TypeOK, KeyOK, At
    <3> QED
      BY <2>0, <3>1 DEF KeyPath
  <2>2. CASE WriteKey
    <3>1. p = KeyPath /\ keyFile[KeyPath] = Torn
      BY <2>2 DEF WriteKey, SInv, TypeOK, KeyOK, At
    <3> QED
      BY <2>0, <3>1
  <2> QED
    BY <2>1, <2>2
       DEF Next, Main, Start, CheckConfig, RefuseConfig, LoadKey, GenerateKey, RefuseKey,
           SeedUsers, RefuseSeed, KeepUsers, LoadUsers, RefuseUsers, ApplySeed, RefuseApply,
           SkipApply, Register, Delete, SetPassword, Die, Refuse, provider, vars
<1> QED
  BY <1>1, AlwaysSInv, PTL DEF Spec, KeysAreKept

(***************************************************************************)
(* The user file.                                                          *)
(***************************************************************************)
LEMMA FileSteps ==
  ASSUME [Next]_vars, file' # file
  PROVE SeedUsers \/ ApplySeed \/ Register \/ Delete \/ SetPassword
  BY DEF Next, Main, Start, CheckConfig, RefuseConfig, LoadKey, GenerateKey, RefuseKey,
         TruncateKey, WriteKey, RefuseSeed, KeepUsers, LoadUsers, RefuseUsers, RefuseApply,
         SkipApply, Die, Refuse, provider, database, vars

\* An existing database is not seeded: a start changes seed passwords in it,
\* and only when it is told to (user.go:117 and 162).
THEOREM DatabasesAreNotReseeded == Spec => NeverReseeded
<1> DEFINE A == phase # "serving" /\ file # Missing /\ file' # file =>
                  UserConfig.updateSeedPasswords /\ SeedPasswordsOnly(file, file')
<1>1. SInv /\ [Next]_vars => [A]_vars
  <2> SUFFICES ASSUME SInv, [Next]_vars, phase # "serving", file # Missing, file' # file
               PROVE UserConfig.updateSeedPasswords /\ SeedPasswordsOnly(file, file')
    OBVIOUS
  <2>1. ApplySeed
    BY FileSteps DEF SeedUsers, MaySeed, Register, Delete, SetPassword, Writable, At
  <2>2. users = file /\ cfg \in Loaded /\ file \in Users!Database
    BY <2>1 DEF ApplySeed, Seeding, At, SInv, UsersOK, TypeOK
  <2>3. file' = Applied(file)
    BY <2>1, AppliedInFile, StartAssumption
  <2> QED
    BY <2>1, <2>2, <2>3, AppliedTyped, StartAssumption DEF ApplySeed
<1> QED
  BY <1>1, AlwaysSInv, PTL DEF Spec, NeverReseeded

\* A server that answers serves what is on disk, with the seed passwords that
\* it was told to apply (user.go:139 and 162).
THEOREM TheFileIsServed == Spec => ServesTheFile
<1> DEFINE A == phase # "serving" /\ phase' = "serving" /\ UserConfig.filePath # NoPath =>
                  /\ users' = file'
                  /\ Seeding /\ UserConfig.updateSeedPasswords =>
                       \A u \in Users!Present(users) :
                         Configured(users[u].name) # NoHash =>
                           users'[u].pw = Configured(users[u].name)
<1>1. SInv /\ [Next]_vars => [A]_vars
  <2> SUFFICES ASSUME SInv, [Next]_vars, phase # "serving", phase' = "serving",
                      UserConfig.filePath # NoPath
               PROVE A
    OBVIOUS
  <2>1. ApplySeed \/ SkipApply
    BY DEF Next, Main, Start, CheckConfig, RefuseConfig, LoadKey, GenerateKey, RefuseKey,
           TruncateKey, WriteKey, SeedUsers, RefuseSeed, KeepUsers, LoadUsers, RefuseUsers,
           RefuseApply, Register, Delete, SetPassword, Die, Refuse, Gone, Go, vars
  <2>2. users = file /\ cfg \in Loaded /\ users \in Users!Database
    BY <2>1 DEF ApplySeed, SkipApply, At, SInv, UsersOK, TypeOK
  <2>3. CASE ApplySeed
    BY <2>2, <2>3, AppliedTyped, AppliedInFile, StartAssumption DEF ApplySeed, Users!Present
  <2>4. CASE SkipApply
    BY <2>2, <2>4 DEF SkipApply, database
  <2> QED
    BY <2>1, <2>3, <2>4
<1> QED
  BY <1>1, AlwaysSInv, PTL DEF Spec, ServesTheFile

\* In static mode nothing writes the user file (user.go:52).
THEOREM StaticIsReadOnly == Spec => StaticNeverWrites
<1> DEFINE A == cfg # NoConfig /\ file' # file => ~UserConfig.static
<1>1. SInv /\ [Next]_vars => [A]_vars
  BY FileSteps DEF SeedUsers, MaySeed, ApplySeed, Seeding, Register, Delete, SetPassword, Writable
<1> QED
  BY <1>1, AlwaysSInv, PTL DEF Spec, StaticNeverWrites

(***************************************************************************)
(* Coming up again.  Proven says what the configuration that served last   *)
(* has left behind for its next start.                                     *)
(***************************************************************************)
SeedSound(c) ==
  \A i, j \in DOMAIN c.users.defaults : i # j =>
    /\ c.users.defaults[i].name # c.users.defaults[j].name
    /\ c.users.defaults[i].id = c.users.defaults[j].id => c.users.defaults[i].id = NoId

Seeds(c) ==
  ~c.users.static /\ c.users.filePath # NoPath /\ c.users.createIfMissing

Proven ==
  last # NoConfig =>
    /\ Rules!Validate(last)
    /\ last.signingKey.filePath # NoPath =>
         \/ keyFile[last.signingKey.filePath] \in Key
         \/ last.signingKey.filePath = DefaultPath /\ keyFile[DefaultPath] = Torn
    /\ last.users.filePath # NoPath => file # Missing /\ LoadableOrGarbled(file)
    /\ Seeds(last) /\ last.users.updateSeedPasswords => SeedSound(last)

PInv ==
  /\ SInv
  /\ phase \notin {"down", "validate"} => Rules!Validate(cfg)
  /\ Proven

\* A file that is written while a configuration is in force will do for it.
LEMMA WrittenValid ==
  ASSUME StartAssumption, SInv, SInv', [Next]_vars, file' # file, file # Missing
  PROVE file' # Missing /\ LoadableOrGarbled(file)'
<1>1. ApplySeed \/ Register \/ Delete \/ SetPassword
  BY FileSteps DEF SeedUsers, MaySeed
<1>2. phase' = "serving" /\ UserConfig'.filePath # NoPath
  BY <1>1 DEF ApplySeed, Seeding, Register, Delete, SetPassword, Save, Writable, At, UserConfig
<1> QED
  BY <1>2 DEF SInv, UsersOK, Read, UserConfig

LEMMA KeyFilesLast ==
  ASSUME StartAssumption, SInv, [Next]_vars, NEW p \in Path,
         keyFile[p] \in Key \/ (p = DefaultPath /\ keyFile[p] = Torn)
  PROVE keyFile'[p] \in Key \/ (p = DefaultPath /\ keyFile'[p] = Torn)
<1>0. Missing \notin Key /\ Missing # Torn
  BY DEF StartAssumption
<1>1. CASE TruncateKey
  <2>1. /\ keyFile' = [keyFile EXCEPT ![KeyPath] = Torn]
        /\ KeyConfig.filePath # NoPath => keyFile[KeyConfig.filePath] = Missing
        /\ keyFile \in [Path -> Key \cup {Missing, Torn}]
    BY <1>1 DEF TruncateKey, SInv, KeyOK, TypeOK, At
  <2> QED
    BY <1>0, <2>1 DEF KeyPath
<1>2. CASE WriteKey
  <2>1. /\ keyFile' = [keyFile EXCEPT ![KeyPath] = key] /\ key \in Key
        /\ keyFile \in [Path -> Key \cup {Missing, Torn}]
    BY <1>2 DEF WriteKey, SInv, KeyOK, TypeOK, At
  <2> QED
    BY <2>1
<1> QED
  BY <1>1, <1>2
     DEF Next, Main, Start, CheckConfig, RefuseConfig, LoadKey, GenerateKey, RefuseKey,
         SeedUsers, RefuseSeed, KeepUsers, LoadUsers, RefuseUsers, ApplySeed, RefuseApply,
         SkipApply, Register, Delete, SetPassword, Die, Refuse, provider, vars

LEMMA StepProven == StartAssumption /\ PInv /\ SInv' /\ [Next]_vars => PInv'
<1> SUFFICES ASSUME StartAssumption, PInv, SInv', [Next]_vars PROVE PInv'
  OBVIOUS
<1>0. SInv /\ Proven /\ NoPath \notin Path /\ (last # NoConfig => last \in Loaded)
  BY DEF PInv, StartAssumption, SInv, TypeOK
<1>1. (phase \notin {"down", "validate"} => Rules!Validate(cfg))'
  BY DEF PInv, Next, Main, Start, CheckConfig, RefuseConfig, LoadKey, GenerateKey, RefuseKey,
         TruncateKey, WriteKey, SeedUsers, RefuseSeed, KeepUsers, LoadUsers, RefuseUsers,
         ApplySeed, RefuseApply, SkipApply, Register, Delete, SetPassword, Die, Refuse, Gone,
         Go, At, vars, Rules!Validate, Writable
<1>2. CASE last' = last
  <2> SUFFICES ASSUME last # NoConfig PROVE Proven'
    BY <1>1, <1>2 DEF PInv, Proven
  <2>1. Rules!Validate(last)'
    BY <1>0, <1>2 DEF Proven, Rules!Validate
  <2>2. last.signingKey.filePath # NoPath =>
          \/ keyFile'[last.signingKey.filePath] \in Key
          \/ last.signingKey.filePath = DefaultPath /\ keyFile'[DefaultPath] = Torn
    <3> SUFFICES ASSUME last.signingKey.filePath # NoPath
                 PROVE \/ keyFile'[last.signingKey.filePath] \in Key
                       \/ last.signingKey.filePath = DefaultPath /\ keyFile'[DefaultPath] = Torn
      OBVIOUS
    <3>1. last.signingKey.filePath \in Path
      BY <1>0 DEF StartAssumption
    <3> QED
      BY <1>0, <3>1, KeyFilesLast DEF Proven
  <2>3. last.users.filePath # NoPath => file' # Missing /\ LoadableOrGarbled(file)'
    BY <1>0, WrittenValid, FileStays DEF Proven, SInv
  <2>4. Seeds(last)' /\ last'.users.updateSeedPasswords => SeedSound(last)'
    BY <1>0, <1>2 DEF Proven, Seeds, SeedSound
  <2>5. last'.users.filePath # NoPath => file' # Missing /\ LoadableOrGarbled(file)'
    BY <1>2, <2>3
  <2> QED
    BY <1>2, <2>1, <2>2, <2>4, <2>5 DEF Proven
<1>3. CASE ApplySeed \/ SkipApply
  <2>1. /\ last' = cfg /\ cfg' = cfg /\ phase' = "serving" /\ phase = "apply"
        /\ keyFile' = keyFile
        /\ Seeding /\ UserConfig.updateSeedPasswords => SeedOk
    BY <1>3 DEF ApplySeed, SkipApply, provider, At
  <2>2. Rules!Validate(last)'
    BY <2>1 DEF PInv, Rules!Validate
  <2>3. last'.signingKey.filePath # NoPath => keyFile'[last'.signingKey.filePath] \in Key
    BY <1>0, <2>1 DEF SInv, KeyOK, KeyPath, KeyConfig
  <2>4. last'.users.filePath # NoPath => file' # Missing /\ LoadableOrGarbled(file)'
    BY <2>1 DEF SInv, UsersOK, Read, UserConfig
  <2>5. Seeds(cfg) /\ cfg.users.updateSeedPasswords => SeedSound(cfg)
    BY <2>1 DEF Seeding, UserConfig, SeedOk, Defaults, Seeds, SeedSound
  <2>6. Seeds(last)' /\ last'.users.updateSeedPasswords => SeedSound(last)'
    BY <2>1, <2>5 DEF Seeds, SeedSound
  <2> QED
    BY <1>1, <2>2, <2>3, <2>4, <2>6 DEF PInv, Proven
<1> QED
  BY <1>2, <1>3
     DEF Next, Main, Start, CheckConfig, RefuseConfig, LoadKey, GenerateKey, RefuseKey,
         TruncateKey, WriteKey, SeedUsers, RefuseSeed, KeepUsers, LoadUsers, RefuseUsers,
         RefuseApply, Register, Delete, SetPassword, Die, Refuse, Go, vars

LEMMA AlwaysPInv == Spec => []PInv
<1>1. Init => PInv
  BY InitSInv, StartAssumption DEF Init, PInv, Proven
<1>2. PInv /\ [Next]_vars => PInv'
  BY StepSInv, StepProven, StartAssumption DEF PInv
<1> QED
  BY <1>1, <1>2, PTL DEF Spec

\* A configuration that has served is never refused again, whatever happened in
\* between, unless a start without a path, of this or another configuration, has
\* torn the default key file that it names (oidc.go:158), or json.Marshal has made
\* two names in its user file one (user.go:424).
THEOREM WhatServedComesUpAgain == Spec => ComesUpAgain
<1> DEFINE A == Refusing /\ cfg = last => KeyTorn(cfg) \/ NamesClash(cfg)
<1>1. PInv /\ [Next]_vars => [A]_vars
  <2> SUFFICES ASSUME PInv, [Next]_vars, Refusing, cfg = last
               PROVE KeyTorn(cfg) \/ NamesClash(cfg)
    OBVIOUS
  <2>0. SInv /\ Proven /\ faults \in Nat /\ cfg = last /\ cfg # NoConfig
    BY DEF PInv, SInv, TypeOK, Refusing, Starting
  <2>1. RefuseConfig \/ RefuseKey \/ RefuseSeed \/ RefuseUsers \/ RefuseApply
    <3>1. phase # "down" /\ phase' = "down" /\ phase' # phase
      BY DEF Refusing, Starting
    <3>2. ~Die
      BY <2>0 DEF Die, Refusing
    <3>3. ~Register /\ ~Delete /\ ~SetPassword /\ ~Start /\ ~(UNCHANGED vars)
      BY <3>1 DEF Register, Delete, SetPassword, Start, At, vars
    <3>4. ~(CheckConfig \/ LoadKey \/ GenerateKey \/ TruncateKey \/ WriteKey)
      BY <3>1 DEF CheckConfig, LoadKey, GenerateKey, TruncateKey, WriteKey, Go
    <3>5. ~(SeedUsers \/ KeepUsers \/ LoadUsers \/ ApplySeed \/ SkipApply)
      BY <3>1 DEF SeedUsers, KeepUsers, LoadUsers, ApplySeed, SkipApply, Go
    <3> QED
      BY <3>2, <3>3, <3>4, <3>5 DEF Next, Main
  <2>2. Rules!Validate(cfg) /\ (KeyConfig.generateIfMissing \/ KeyConfig.filePath # NoPath)
    BY <2>0 DEF Proven, Rules!Validate, Rules!KeySectionOk, KeyConfig
  <2>3. CASE RefuseConfig
    BY <2>2, <2>3 DEF RefuseConfig
  <2>4. CASE RefuseKey
    <3>0. Missing \notin Key /\ Torn \notin Key /\ Missing # Torn
      BY StartAssumption DEF StartAssumption
    <3> QED
      BY <2>0, <2>2, <2>4, <3>0 DEF RefuseKey, LacksKey, Proven, KeyConfig, KeyTorn
  <2>5. CASE RefuseSeed
    BY <2>0, <2>5 DEF RefuseSeed, MaySeed, Seeding, UserConfig, Proven
  <2>6. CASE RefuseUsers
    BY <2>0, <2>6 DEF RefuseUsers, UserConfig, Proven, LoadableOrGarbled, NamesClash
  <2>7. CASE RefuseApply
    BY <2>0, <2>7
       DEF RefuseApply, Seeding, UserConfig, SeedOk, Defaults, Proven, Seeds, SeedSound
  <2> QED
    BY <2>1, <2>3, <2>4, <2>5, <2>6, <2>7
<1> QED
  BY <1>1, AlwaysPInv, PTL DEF Spec, ComesUpAgain
=============================================================================
