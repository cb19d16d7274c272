------------------------------- MODULE Config --------------------------------
(***************************************************************************)
(* The configuration of the server and the rules main.go applies to it:    *)
(* the defaults of LoadConfig, the checks of Validate and the routes that  *)
(* newMux registers.  A base URL is its verdict (good, or what is wrong    *)
(* with it); paths, URIs and ids are abstract values.                      *)
(***************************************************************************)
EXTENDS Naturals, Sequences

CONSTANTS
  HttpUri,         \* the URIs that start with http:// or https://
  NoId, NoUri, NoPath, NoGroup,  \* the empty strings of these kinds
  Absent           \* a section that the file does not have

\* user.Config{}: a database in memory only, that nobody administrates.
NoUserConfig ==
  [selfRegistration |-> FALSE, allowBootstrap |-> FALSE, userAdminGroup |-> NoGroup,
   defaults |-> <<>>, filePath |-> NoPath, createIfMissing |-> FALSE,
   static |-> FALSE, updateSeedPasswords |-> FALSE]

\* LoadConfig also trims the slashes a base URL ends in, before Validate sees it,
\* and sets the default of the token section, whose lifetime OidcFlow takes as a
\* constant.
LoadConfig(c) == IF c.users = Absent THEN [c EXCEPT !.users = NoUserConfig] ELSE c

\* A client with redirectUris and no redirectUri is refused, although README.md:47
\* has them "alongside (or instead of)" it.
ClientOk(client) == client.id # NoId /\ client.redirectUri \in HttpUri

KeySectionOk(k) == k.generateIfMissing \/ k.filePath # NoPath

UserSectionOk(u) == u.allowBootstrap => ~u.static /\ u.filePath # NoPath

\* config.Validate, of a configuration that was loaded.
Validate(c) ==
  /\ c.baseUrl = "good"
  /\ c.clients # <<>>
  /\ \A i \in DOMAIN c.clients : ClientOk(c.clients[i])
  /\ KeySectionOk(c.signingKey)
  /\ UserSectionOk(c.users)

(***************************************************************************)
(* newMux.                                                                 *)
(***************************************************************************)
ServedRoutes ==
  {"/", "/.well-known/openid-configuration", "/login", "/logout", "/oidc/auth",
   "/oidc/jwks", "/oidc/userinfo", "/token", "/revoke"}

AdminPages == {"/admin", "/admin/users/api"}

AdminForms ==
  {"/admin/register", "/admin/users/delete", "/admin/users/reset-password",
   "/admin/users/update-groups", "/admin/users/reset-link"}

Routes(u) ==
  ServedRoutes
    \cup {p \in {"/register"} : (u.selfRegistration \/ u.allowBootstrap) /\ ~u.static}
    \cup {p \in {"/password", "/set-password"} : ~u.static}
    \cup {p \in AdminPages : u.userAdminGroup # NoGroup}
    \cup {p \in AdminForms : u.userAdminGroup # NoGroup /\ ~u.static}

\* How users come into being, go, and get another password.
Registering == {"/register", "/admin/register"}
Deleting == {"/admin/users/delete"}
SettingPasswords == {"/password", "/set-password", "/admin/users/reset-password"}
=============================================================================
