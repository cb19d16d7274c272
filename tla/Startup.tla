------------------------------- MODULE Startup -------------------------------
(***************************************************************************)
(* main: the server is started, over and over and perhaps with another     *)
(* configuration, on the signing-key files and the user file that earlier  *)
(* lives have left.  A start checks its configuration (Config), finds or   *)
(* makes the signing key (oidc.New), opens the user database and seeds it  *)
(* (user.New), and serves until the process dies.                          *)
(*                                                                         *)
(* The start itself is one goroutine, and the process may die between any  *)
(* two of its system calls.  Handlers are one step each here, with a save  *)
(* that may fail: Accounts has them step by step, and UserFile shows that  *)
(* a save replaces the user file as a whole or not at all.  What it writes *)
(* is what json.Marshal makes of the users (Written).  Groups and emails   *)
(* are left to Accounts.                                                   *)
(***************************************************************************)
EXTENDS Naturals, Sequences

CONSTANTS
  Configs,         \* the configuration files operators use
  Key, NoKey,      \* signing keys
  Path, DefaultPath, NoPath,  \* files for keys; DefaultPath is "signing-key.json"
  Missing, Torn,   \* no file, and a file that does not unmarshal
  UserId, Name, InFile,
  Hash,            \* the password hashes other than these two:
  NoHash, Locked,             \* the empty string and the marker of a locked account
  NoUser, NoEmail, NoGroup, NoId, NoUri, HttpUri, Absent, NoConfig,
  UserFiles,       \* user files that the first start may find
  MaxFaults        \* bound: how often the process dies or a system call fails

VARIABLES
  phase,           \* where main is; "down" when no process runs
  cfg,             \* the configuration of the running process
  keyFile,         \* the contents of the key files
  key, keySet,     \* the signer's key, and the keychain
  file,            \* the user file
  users,           \* User.users
  faults,
  last             \* history that no step reads: the configuration that served last

Rules == INSTANCE Config
Keys == INSTANCE Keychain
Users == INSTANCE UserStore WITH
  Hash <- Hash \cup {NoHash, Locked}, Email <- {}, Group <- {}, UserAdminGroup <- NoGroup,
  SelfRegistration <- FALSE, AllowBootstrap <- FALSE, Static <- FALSE, Persistent <- TRUE

vars == <<phase, cfg, keyFile, key, keySet, file, users, faults, last>>
provider == <<keyFile, key, keySet>>
database == <<file, users>>

Seed == [id : UserId \cup {NoId}, name : Name, pw : Hash \cup {NoHash, Locked}]

\* The configurations as main sees them.
Loaded == {Rules!LoadConfig(c) : c \in Configs}

ASSUME StartAssumption ==
  /\ DefaultPath \in Path /\ NoPath \notin Path /\ NoKey \notin Key
  /\ {Missing, Torn} \cap Key = {} /\ Missing # Torn
  /\ NoId \notin UserId /\ NoHash \notin Hash /\ NoUser \notin Users!UserInfo
  /\ Missing \notin Users!Database
  /\ DOMAIN InFile = Name \cup {NoEmail} /\ InFile[NoEmail] = NoEmail
  /\ \A n \in Name : InFile[n] \in Name /\ InFile[InFile[n]] = InFile[n]
  /\ \A db \in UserFiles : db # Missing => db \in Users!Database /\ db = Users!Written(db)
  /\ NoConfig \notin Loaded
  /\ \A c \in Loaded :
       /\ c.signingKey.filePath \in Path \cup {NoPath}
       /\ c.users.defaults \in Seq(Seed)
       /\ \A i \in DOMAIN c.users.defaults :
            InFile[c.users.defaults[i].name] = c.users.defaults[i].name
  /\ MaxFaults \in Nat

Starting == {"validate", "key", "truncate", "write", "open", "load", "apply"}

Init ==
  /\ phase = "down" /\ cfg = NoConfig /\ last = NoConfig
  /\ keyFile = [p \in Path |-> Missing]
  /\ key = NoKey /\ keySet = <<>>
  /\ file \in UserFiles
  /\ users = Users!EmptyDB
  /\ faults = 0

At(p) == phase = p
Go(p) == phase' = p /\ UNCHANGED <<cfg, faults, last>>

\* The end of the process: nothing but the files is left.
Gone ==
  /\ phase' = "down" /\ cfg' = NoConfig
  /\ key' = NoKey /\ keySet' = <<>> /\ users' = Users!EmptyDB

\* os.Exit(1) without anything having gone wrong: main refuses to start.
Refuse == Gone /\ UNCHANGED <<keyFile, file, faults, last>>

(***************************************************************************)
(* The configuration.                                                      *)
(***************************************************************************)
Start ==
  /\ At("down")
  /\ cfg' \in Loaded
  /\ phase' = "validate"
  /\ UNCHANGED <<provider, database, faults, last>>

CheckConfig ==
  /\ At("validate") /\ Rules!Validate(cfg)
  /\ Go("key")
  /\ UNCHANGED <<provider, database>>

RefuseConfig == At("validate") /\ ~Rules!Validate(cfg) /\ Refuse

(***************************************************************************)
(* oidc.New.                                                               *)
(***************************************************************************)
KeyConfig == cfg.signingKey

\* generateSigningKey writes to the default file when no path is configured.
KeyPath == IF KeyConfig.filePath = NoPath THEN DefaultPath ELSE KeyConfig.filePath

\* Wrong on purpose: the error of Unmarshal is not looked at.
LoadKeyUnchecked ==
  /\ At("key")
  /\ KeyConfig.filePath # NoPath
  /\ keyFile[KeyConfig.filePath] # Missing
  /\ key' = keyFile[KeyConfig.filePath]
  /\ Keys!Add(keyFile[KeyConfig.filePath])
  /\ Go("open")
  /\ UNCHANGED <<keyFile, database>>

\* A key file that unmarshals to a key which jose.NewSigner refuses (oidc.go:128),
\* one that is not for RS256, is left out.
LoadKey ==
  /\ At("key")
  /\ KeyConfig.filePath # NoPath
  /\ keyFile[KeyConfig.filePath] \in Key
  /\ key' = keyFile[KeyConfig.filePath]
  /\ Keys!Add(keyFile[KeyConfig.filePath])
  /\ Go("open")
  /\ UNCHANGED <<keyFile, database>>

\* Wrong on purpose: a new key is made whatever there is.
LacksKeyAlways == TRUE

\* Without a path the default file is not even looked at.
LacksKey == KeyConfig.filePath # NoPath => keyFile[KeyConfig.filePath] = Missing

\* Keychain.Create: a key that no file holds.
GenerateKey ==
  /\ At("key") /\ LacksKey /\ KeyConfig.generateIfMissing
  /\ \E k \in Key \ {keyFile[p] : p \in Path} : key' = k /\ Keys!Create(k)
  /\ Go("truncate")
  /\ UNCHANGED <<keyFile, database>>

\* os.WriteFile: the file is created or truncated, and written afterwards.
TruncateKey ==
  /\ At("truncate")
  /\ keyFile' = [keyFile EXCEPT ![KeyPath] = Torn]
  /\ Go("write")
  /\ UNCHANGED <<key, keySet, database>>

\* New adds the key to the keychain, which has a generated key already.
\* Wrong on purpose: the error of os.WriteFile is not looked at.
WriteKeyOrNot ==
  /\ At("write")
  /\ keyFile' \in {keyFile, [keyFile EXCEPT ![KeyPath] = key]}
  /\ Keys!Add(key)
  /\ Go("open")
  /\ UNCHANGED <<key, database>>

WriteKey ==
  /\ At("write")
  /\ keyFile' = [keyFile EXCEPT ![KeyPath] = key]
  /\ Keys!Add(key)
  /\ Go("open")
  /\ UNCHANGED <<key, database>>

RefuseKey ==
  /\ At("key")
  /\ \/ LacksKey /\ ~KeyConfig.generateIfMissing
     \/ ~LacksKey /\ keyFile[KeyConfig.filePath] = Torn
  /\ Refuse

(***************************************************************************)
(* user.New.                                                               *)
(***************************************************************************)
UserConfig == cfg.users

\* Wrong on purpose: a read-only database is seeded as well.
SeedingStatic == UserConfig.filePath # NoPath /\ UserConfig.createIfMissing

Seeding ==
  ~UserConfig.static /\ UserConfig.filePath # NoPath /\ UserConfig.createIfMissing

Defaults == UserConfig.defaults

\* validateUsers of the seed: an id that ensureUserID makes is never double.
SeedOk ==
  \A i, j \in DOMAIN Defaults : i # j =>
    /\ Defaults[i].name # Defaults[j].name
    /\ Defaults[i].id = Defaults[j].id => Defaults[i].id = NoId

\* ensureUserID: entries without an id get new ones.
SeedIds ==
  {f \in [DOMAIN Defaults -> UserId] :
     \A i \in DOMAIN Defaults :
       /\ Defaults[i].id # NoId => f[i] = Defaults[i].id
       /\ \A j \in DOMAIN Defaults : f[i] = f[j] => i = j}

Record(seed) ==
  [name |-> seed.name, email |-> NoEmail, pw |-> seed.pw, groups |-> {}]

SeedDatabase(f) ==
  [u \in UserId |->
     IF \E i \in DOMAIN Defaults : f[i] = u
       THEN Record(Defaults[CHOOSE i \in DOMAIN Defaults : f[i] = u])
       ELSE NoUser]

MaySeed == Seeding /\ file = Missing

SeedUsers ==
  /\ At("open") /\ MaySeed /\ SeedOk
  /\ \E f \in SeedIds : users' = SeedDatabase(f)
  /\ file' = Users!Written(users')
  /\ Go("load")
  /\ UNCHANGED provider

RefuseSeed == At("open") /\ MaySeed /\ ~SeedOk /\ Refuse

KeepUsers ==
  /\ At("open") /\ ~MaySeed
  /\ Go("load")
  /\ UNCHANGED <<provider, database>>

\* Without a file the server starts with nobody, and the seed is not used.
LoadUsers ==
  /\ At("load")
  /\ \/ UserConfig.filePath = NoPath /\ users' = Users!EmptyDB
     \/ /\ UserConfig.filePath # NoPath /\ file # Missing
        /\ Users!ValidUsers(file) /\ users' = file
  /\ Go("apply")
  /\ UNCHANGED <<provider, file>>

RefuseUsers ==
  /\ At("load") /\ UserConfig.filePath # NoPath
  /\ file = Missing \/ (file # Missing /\ ~Users!ValidUsers(file))
  /\ Refuse

\* applySeedPasswords.  The hash configured for a name, or NoHash.
Configured(name) ==
  IF \E i \in DOMAIN Defaults : Defaults[i].name = name
    THEN Defaults[CHOOSE i \in DOMAIN Defaults : Defaults[i].name = name].pw
    ELSE NoHash

\* Wrong on purpose: an empty hash is applied like any other.
AppliedAny(db) ==
  [u \in UserId |->
     IF db[u] # NoUser /\ \E i \in DOMAIN Defaults : Defaults[i].name = db[u].name
       THEN [db[u] EXCEPT !.pw = Configured(db[u].name)] ELSE db[u]]

Applied(db) ==
  [u \in UserId |->
     IF db[u] # NoUser /\ Configured(db[u].name) # NoHash
       THEN [db[u] EXCEPT !.pw = Configured(db[u].name)] ELSE db[u]]

\* Wrong on purpose: the passwords are set in memory and the save is forgotten.
ApplySeedUnsaved ==
  /\ At("apply") /\ Seeding /\ UserConfig.updateSeedPasswords /\ SeedOk
  /\ users' = Applied(users)
  /\ phase' = "serving" /\ last' = cfg
  /\ UNCHANGED <<provider, file, cfg, faults>>

\* The save that follows fails as a whole (Die) or succeeds as a whole, and the
\* server answers no request before it.
ApplySeed ==
  /\ At("apply") /\ Seeding /\ UserConfig.updateSeedPasswords /\ SeedOk
  /\ users' = Applied(users)
  /\ file' = IF users' = users THEN file ELSE Users!Written(users')
  /\ phase' = "serving" /\ last' = cfg
  /\ UNCHANGED <<provider, cfg, faults>>

RefuseApply ==
  At("apply") /\ Seeding /\ UserConfig.updateSeedPasswords /\ ~SeedOk /\ Refuse

SkipApply ==
  /\ At("apply") /\ ~(Seeding /\ UserConfig.updateSeedPasswords)
  /\ phase' = "serving" /\ last' = cfg
  /\ UNCHANGED <<provider, database, cfg, faults>>

(***************************************************************************)
(* Serving.                                                                *)
(***************************************************************************)
Offers(paths) == paths \cap Rules!Routes(UserConfig) # {}

\* Every write to the database is refused in static mode (ErrReadOnly).
Writable == At("serving") /\ ~UserConfig.static

\* A save after the change: it may fail, and without a path there is none.
Save ==
  \/ UNCHANGED file
  \/ UserConfig.filePath # NoPath /\ file' = Users!Written(users')

Register ==
  /\ Writable /\ Offers(Rules!Registering)
  /\ \E id \in UserId, name \in Name, hash \in Hash \cup {Locked} :
       /\ ~Users!Get(id)
       /\ Users!Register(id, name, hash, {}, NoEmail, FALSE)
  /\ Save
  /\ UNCHANGED <<phase, cfg, faults, last, provider>>

Delete ==
  /\ Writable /\ Offers(Rules!Deleting)
  /\ \E id \in UserId : Users!Delete(id)
  /\ Save
  /\ UNCHANGED <<phase, cfg, faults, last, provider>>

SetPassword ==
  /\ Writable /\ Offers(Rules!SettingPasswords)
  /\ \E id \in UserId, hash \in Hash : Users!SetHash(id, hash)
  /\ Save
  /\ UNCHANGED <<phase, cfg, faults, last, provider>>

\* The process dies, or a system call of the start fails and main gives up.
Die ==
  /\ phase \in Starting \cup {"serving"} /\ faults < MaxFaults
  /\ faults' = faults + 1
  /\ Gone
  /\ UNCHANGED <<keyFile, file, last>>

Main ==
  \/ CheckConfig \/ RefuseConfig
  \/ LoadKey \/ GenerateKey \/ TruncateKey \/ WriteKey \/ RefuseKey
  \/ SeedUsers \/ RefuseSeed \/ KeepUsers \/ LoadUsers \/ RefuseUsers
  \/ ApplySeed \/ RefuseApply \/ SkipApply

Next == Start \/ Main \/ Register \/ Delete \/ SetPassword \/ Die

Spec == Init /\ [][Next]_vars

\* main runs on, and who runs the server comes back to the configuration that
\* has worked, whatever else is tried in between.
FairSpec == Spec /\ WF_vars(Main) /\ SF_vars(Start /\ cfg' = last)
=============================================================================
