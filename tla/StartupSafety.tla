---------------------------- MODULE StartupSafety ----------------------------
(***************************************************************************)
(* What a restart promises those who run the server and those who use it.  *)
(***************************************************************************)
EXTENDS Startup

TypeOK ==
  /\ phase \in Starting \cup {"down", "serving"}
  /\ cfg \in Loaded \cup {NoConfig} /\ last \in Loaded \cup {NoConfig}
  /\ phase = "down" <=> cfg = NoConfig
  /\ keyFile \in [Path -> Key \cup {Missing, Torn}]
  /\ key \in Key \cup {NoKey} /\ keySet \in Seq(Key)
  /\ file \in Users!Database \cup {Missing} /\ users \in Users!Database
  /\ faults \in Nat

(***************************************************************************)
(* The signing key.                                                        *)
(***************************************************************************)

\* Tokens are signed with the key they are verified with, though a generated
\* key is in the keychain twice, and with the one that the key file holds: the
\* next start with this path accepts the tokens of this one.
SignsWithTheKeyOnFile ==
  phase = "serving" => Keys!VerifyingKey = key /\ keyFile[KeyPath] = key

\* Whatever configurations are started in turn and wherever they die, a key
\* once saved is never replaced, but for the default file, which a start
\* without a path overwrites without a look (oidc.go:110).
KeysAreKept ==
  [][\A p \in Path : keyFile[p] \in Key /\ keyFile'[p] # keyFile[p] =>
       p = DefaultPath /\ KeyConfig.filePath = NoPath]_vars

(***************************************************************************)
(* The user database.                                                      *)
(***************************************************************************)

\* db is old with nothing but seed passwords changed: no account is added,
\* taken away or otherwise touched, and no password is emptied.
SeedPasswordsOnly(old, db) ==
  \A u \in UserId : db[u] # old[u] =>
    /\ old[u] # NoUser /\ Configured(old[u].name) # NoHash
    /\ db[u] = [old[u] EXCEPT !.pw = Configured(old[u].name)]

\* "An existing database is never reseeded", and "a seed user deleted from the
\* database is not recreated" (README.md:56 and 66): a start touches a user
\* file only to set seed passwords, and only if it is told to.
NeverReseeded ==
  [][phase # "serving" /\ file # Missing /\ file' # file =>
       UserConfig.updateSeedPasswords /\ SeedPasswordsOnly(file, file')]_vars

\* Once the server answers, its database is the one on disk, and with
\* updateSeedPasswords every account that bears a seed user's name has the
\* configured password, whoever registered it (user.go:170).
ServesTheFile ==
  [][phase # "serving" /\ phase' = "serving" /\ UserConfig.filePath # NoPath =>
       /\ users' = file'
       /\ Seeding /\ UserConfig.updateSeedPasswords =>
            \A u \in Users!Present(users) :
              Configured(users[u].name) # NoHash =>
                users'[u].pw = Configured(users[u].name)]_vars

\* Static "lets the database be served from an immutable source such as a
\* Kubernetes Secret" (user.go:52): it never writes the user file.
StaticNeverWrites ==
  [][cfg # NoConfig /\ file' # file => ~UserConfig.static]_vars

(***************************************************************************)
(* Coming up again.                                                        *)
(***************************************************************************)
KeyTorn(c) ==
  c # NoConfig /\ c.signingKey.filePath = DefaultPath /\ keyFile[DefaultPath] = Torn

Refusing == phase \in Starting /\ phase' = "down" /\ faults' = faults

\* Two names of the user file that differed until json.Marshal garbled them.
NamesClash(c) ==
  c # NoConfig /\ c.users.filePath # NoPath /\ file # Missing
    /\ Users!GarbledNamesClash(file)

\* The configuration that came up last comes up again: wherever the process has
\* died since, also in starts with other configurations, and whatever was
\* registered and saved, main does not refuse it.  Only two things can be in the
\* way: the default key file, torn by a start without a path (oidc.go:158), and
\* two names that json.Marshal has made one (user.go:424).
ComesUpAgain ==
  [][Refusing /\ cfg = last => KeyTorn(cfg) \/ NamesClash(cfg)]_vars

\* So after any number of crashes, and refusals of other configurations, the
\* server is back unless one of these is in the way.
ServesAgain ==
  phase = "down" /\ last # NoConfig ~>
    \/ phase = "serving"
    \/ KeyTorn(last) \/ NamesClash(last)
=============================================================================
