----------------------------- MODULE MCStartup -------------------------------
(***************************************************************************)
(* An instance of the start-up for TLC.                                    *)
(***************************************************************************)
EXTENDS StartupSafety

CONSTANTS app, appUri, otherPath, u1, ann, ben, broken, pwd, admins

Client(uri, uris) == [id |-> app, redirectUri |-> uri, redirectUris |-> uris]

SeedUser(id, name, pw) == [id |-> id, name |-> name, pw |-> pw]

Using(path, generate) == [filePath |-> path, generateIfMissing |-> generate]

Deployment(uri, uris, signingKey, users0) ==
  [baseUrl |-> "good", clients |-> <<Client(uri, uris)>>, signingKey |-> signingKey,
   users |-> users0]

Database(path, create, update, static, defaults) ==
  [selfRegistration |-> FALSE, allowBootstrap |-> FALSE, userAdminGroup |-> admins,
   filePath |-> path, createIfMissing |-> create, updateSeedPasswords |-> update,
   static |-> static, defaults |-> defaults]

\* A deployment and an upgrade of it with a password for its seed user and a
\* new seed user without one; one that makes do with what it finds; a
\* read-only one; one without any files; one whose seed is no good; and one with
\* nothing but redirectUris.
SomeConfigs ==
  {Deployment(appUri, <<>>, Using(otherPath, TRUE),
     Database("users", TRUE, FALSE, FALSE, <<SeedUser(u1, ann, NoHash)>>)),
   Deployment(appUri, <<>>, Using(otherPath, TRUE),
     Database("users", TRUE, TRUE, FALSE,
              <<SeedUser(NoId, ann, pwd), SeedUser(NoId, ben, NoHash)>>)),
   Deployment(appUri, <<>>, Using(DefaultPath, FALSE),
     Database("users", FALSE, FALSE, FALSE, <<>>)),
   Deployment(appUri, <<>>, Using(DefaultPath, TRUE),
     Database("users", TRUE, FALSE, TRUE, <<SeedUser(u1, ann, NoHash)>>)),
   Deployment(appUri, <<>>, Using(NoPath, TRUE), Absent),
   Deployment(appUri, <<>>, Using(NoPath, TRUE),
     Database("users", TRUE, TRUE, FALSE, <<SeedUser(u1, ann, NoHash), SeedUser(u1, ben, NoHash)>>)),
   Deployment(NoUri, <<appUri>>, Using(otherPath, TRUE), Absent)}

\* ben has a replacement character, and broken a byte that becomes one.
BrokenIsBen == [s \in Name \cup {NoEmail} |-> IF s = broken THEN ben ELSE s]

\* No file, or one that was edited by hand and names a user twice.
SomeUserFiles ==
  {Missing, [u \in UserId |-> [name |-> ann, email |-> NoEmail, pw |-> pwd, groups |-> {}]]}
=============================================================================
