------------------------------ MODULE OidcFlow -------------------------------
(***************************************************************************)
(* The OpenID Connect endpoints of internal/routes/oidc.go, run            *)
(* concurrently over the users (UserStore), the sessions (SessionStore),   *)
(* the authorization codes (CodeStore) and the revoked tokens              *)
(* (TokenStore), with the rules of pkg/oidc (Provider).                    *)
(*                                                                         *)
(* A request is a process whose pc names the next critical section of its  *)
(* handler.  The session, the token and the code that a request makes are  *)
(* named after it.  A token is signed, so it lives with whoever holds it:  *)
(* `token` is what the signed tokens say, not a table of the server.       *)
(* Administrators are the environment here, and what they change is saved: *)
(* Accounts has their handlers and the sign-outs step by step.             *)
(***************************************************************************)
EXTENDS Naturals, FiniteSets

CONSTANTS
  Req,             \* HTTP requests to the endpoints, each sent at most once
  Seed,            \* the users in the database at the start
  Group, UserAdminGroup, NoGroup, Name, Email, NoEmail, Locked,
  NoUser, NoReq, Unborn, Gone, NotRevoked, NoClaims, Never, Late,
  Databases,       \* databases the server can have been started with
  Clients, NoUri, NoTokenSent,
  AuthForms, TokenForms, RevokeForms,  \* parameters that clients send
  CodeTTL, IDTokenTTL, RevokedTTL,     \* codestore.New, defaultIDTokenTTL, Config.Token
  KeyKept,         \* whether a restart finds the signing key again: a set of Booleans
  CallsCleanUp,    \* whether the program calls the clean-ups of the stores: main does not
  MaxNow, MaxCrashes, MaxAuths  \* bounds: the clock, how often the process dies,
                   \* and how many of the requests are authentication requests

Id == Req \cup Seed

ASSUME FlowAssumption ==
  /\ {IDTokenTTL, RevokedTTL, MaxNow, MaxCrashes, MaxAuths} \subseteq Nat
  /\ CodeTTL \in Nat \ {0}
  /\ KeyKept \subseteq BOOLEAN /\ CallsCleanUp \in BOOLEAN

\* Names are distinct from the values they stand beside.
ASSUME FlowNames ==
  /\ {NoUser, NoReq, Unborn, Gone, NoClaims, Never, Late, NotRevoked} \cap (Id \cup Nat) = {}
  /\ Unborn # Gone /\ Never # Late

VARIABLES
  users,           \* User.users
  sessions,        \* Session.sessions
  codes,           \* CodeStore.codes
  revokedTokens,   \* TokenStore.revokedTokens
  now,             \* the wall clock, in seconds
  key,             \* which signing key the provider has: the start that made it
  crashes,
  req,             \* where each request is in its handler
  token,           \* the claims of the token each request has signed
  \* History that no step reads:
  outdated,        \* when the database first disagreed with what a token says; Late
                   \* if that was before the token was signed, Never if it never did
  revokedIn,       \* in which life of the process a revocation was answered
  tardy            \* userinfo requests that came in after that, in the same life

\* Nobody registers here: the names are those of a file, which it keeps as they are.
Users == INSTANCE UserStore WITH
  UserId <- Id, Hash <- Id \cup {Locked},
  InFile <- [s \in Name \cup Email \cup {NoEmail} |-> s], SelfRegistration <- FALSE,
  AllowBootstrap <- FALSE, Static <- FALSE, Persistent <- TRUE
Sessions == INSTANCE SessionStore WITH SessionId <- Id, UserId <- Id
Codes == INSTANCE CodeStore WITH Code <- Req, Token <- Req
Revocations == INSTANCE TokenStore WITH Token <- Req
Rules == INSTANCE Provider

ASSUME FlowDatabases == Databases \subseteq Users!Database /\ NoUser \notin Users!UserInfo

ASSUME FlowEntries == {Unborn, Gone} \cap Codes!Entry = {}

clock == <<now, key, crashes>>
history == <<outdated, revokedIn, tardy>>
vars == <<users, sessions, codes, revokedTokens, now, key, crashes, req,
          token, outdated, revokedIn, tardy>>

\* IDTokenPayload.  The name and the email of a user never change.
Claims == [sub : Id, groups : SUBSET Group, aud : {Clients[i].id : i \in DOMAIN Clients},
           iat : Nat, key : Nat]

ASSUME FlowClaims == NoClaims \notin Claims

Idle == [pc |-> "idle", kind |-> "none", user |-> NoUser, info |-> NoUser,
         client |-> NoUser, about |-> NoReq]

ClientKinds == {"token", "userinfo", "revoke"}
Ended == {"ok", "fail", "lost"}
At(r, pc) == req[r].pc = pc
Go(r, pc) == req' = [req EXCEPT ![r].pc = pc]

\* A handler ends without success.  A code it has taken stays taken.
Forgotten(q, pc) ==
  [Idle EXCEPT !.pc = pc,
               !.kind = IF q.pc = "answer" THEN "token" ELSE "none",
               !.about = IF q.pc = "answer" THEN q.about ELSE NoReq]

Fail(r) == req' = [req EXCEPT ![r] = Forgotten(req[r], "fail")]
InFlight(r) == req[r].pc \notin Ended \cup {"idle"}

\* Whoever has a password is signed in already.
Init ==
  /\ users \in Databases
  /\ sessions = [i \in Id |-> IF Users!CanVerify(i) THEN i ELSE Unborn]
  /\ codes = [c \in Req |-> Unborn]
  /\ Revocations!Init
  /\ now = 0 /\ key = 0 /\ crashes = 0
  /\ req = [r \in Req |-> Idle]
  /\ token = [r \in Req |-> NoClaims]
  /\ outdated = [r \in Req |-> Never]
  /\ revokedIn = [r \in Req |-> Never]
  /\ tardy = {}

(***************************************************************************)
(* OidcAuth.  A request with a session cookie is validated first; the one  *)
(* that carries the login form signs its user in before that.              *)
(***************************************************************************)
MayAuthenticate ==
  Cardinality({r \in Req : ~At(r, "idle") /\ req[r].kind \notin ClientKinds}) < MaxAuths

AuthWithSession(r) ==
  /\ At(r, "idle") /\ MayAuthenticate
  /\ \E q \in AuthForms, s \in Id :
       /\ Rules!ValidateRedirect(q.client, q.uri) = Rules!Accepted
       /\ Rules!ValidateAuthenticationRequest(q) = Rules!Accepted
       /\ Sessions!Live(s)
       /\ req' = [req EXCEPT ![r] = [Idle EXCEPT !.pc = "lookup", !.kind = q.responseType,
                                                 !.user = sessions[s], !.client = q.client]]
  /\ UNCHANGED <<users, sessions, codes, revokedTokens, clock, token, history>>

\* r.login: Authenticate returns a copy of the record it has verified.
AuthWithLogin(r) ==
  /\ At(r, "idle") /\ MayAuthenticate
  /\ \E u \in Id :
       /\ Users!CanVerify(u)
       /\ req' = [req EXCEPT ![r] = [Idle EXCEPT !.pc = "session", !.kind = "login",
                                                 !.user = u, !.info = users[u]]]
  /\ UNCHANGED <<users, sessions, codes, revokedTokens, clock, token, history>>

OpenSession(r) ==
  /\ At(r, "session")
  /\ Sessions!Create(r, req[r].user)
  /\ Go(r, "validate")
  /\ UNCHANGED <<users, codes, revokedTokens, clock, token, history>>

Validate(r) ==
  /\ At(r, "validate")
  /\ \E q \in AuthForms :
       IF /\ Rules!ValidateRedirect(q.client, q.uri) = Rules!Accepted
          /\ Rules!ValidateAuthenticationRequest(q) = Rules!Accepted
         THEN req' = [req EXCEPT ![r].pc = "sign", ![r].kind = q.responseType,
                                 ![r].client = q.client]
         ELSE Fail(r)
  /\ UNCHANGED <<users, sessions, codes, revokedTokens, clock, token, history>>

\* Wrong on purpose: the answer of Get is not looked at.
LookUpUnchecked(r) ==
  /\ At(r, "lookup")
  /\ req' = [req EXCEPT ![r].pc = "sign", ![r].info = users[req[r].user]]
  /\ UNCHANGED <<users, sessions, codes, revokedTokens, clock, token, history>>

\* getUserFromSession, second half: a copy of the user record.  Without one
\* the answer is the login page, or the bootstrap form of an empty database.
LookUp(r) ==
  /\ At(r, "lookup")
  /\ IF Users!Get(req[r].user)
       THEN req' = [req EXCEPT ![r].pc = "sign", ![r].info = users[req[r].user]]
       ELSE Fail(r)
  /\ UNCHANGED <<users, sessions, codes, revokedTokens, clock, token, history>>

\* GenerateIDToken, from the copy.  An id_token response carries the token.
Sign(r) ==
  /\ At(r, "sign")
  /\ token' = [token EXCEPT ![r] = [sub |-> req[r].user, groups |-> req[r].info.groups,
                                    aud |-> req[r].client, iat |-> now, key |-> key]]
  /\ Go(r, IF req[r].kind = "id_token" THEN "ok" ELSE "create")
  /\ UNCHANGED <<users, sessions, codes, revokedTokens, clock, history>>

\* The signer fails: "server_error" to the redirect URI.
SignFail(r) ==
  /\ At(r, "sign")
  /\ Fail(r)
  /\ UNCHANGED <<users, sessions, codes, revokedTokens, clock, token, history>>

CreateCode(r) ==
  /\ At(r, "create")
  /\ Codes!Create(r, r)
  /\ Go(r, "ok")
  /\ UNCHANGED <<users, sessions, revokedTokens, clock, token, history>>

(***************************************************************************)
(* OidcToken.  Pop takes the code; the answer goes out afterwards.         *)
(***************************************************************************)
\* The codes that somebody was given.
Handed == {c \in Req : At(c, "ok") /\ req[c].kind = "code"}

\* Wrong on purpose: the token is stamped when the code is redeemed.
RedeemStamps(r) ==
  /\ At(r, "idle")
  /\ \E q \in TokenForms, c \in Handed :
       /\ Rules!ValidateTokenRequest(q) = Rules!Accepted
       /\ Codes!Pop(c)
       /\ token' = [token EXCEPT ![c].iat = now]
       /\ req' = [req EXCEPT ![r] = [Idle EXCEPT !.pc = "answer", !.kind = "token", !.about = c]]
  /\ UNCHANGED <<users, sessions, revokedTokens, clock, history>>

Redeem(r) ==
  /\ At(r, "idle")
  /\ \E q \in TokenForms, c \in Handed :
       /\ Rules!ValidateTokenRequest(q) = Rules!Accepted
       /\ Codes!Pop(c)
       /\ req' = [req EXCEPT ![r] = [Idle EXCEPT !.pc = "answer", !.kind = "token", !.about = c]]
  /\ UNCHANGED <<users, sessions, revokedTokens, clock, token, history>>

\* invalid_grant: the code was redeemed, cleaned up or lost before.
RedeemFail(r) ==
  /\ At(r, "idle")
  /\ \E q \in TokenForms, c \in Handed :
       Rules!ValidateTokenRequest(q) = Rules!Accepted /\ ~Codes!Stored(c)
  /\ req' = [req EXCEPT ![r] = [Idle EXCEPT !.pc = "fail", !.kind = "token"]]
  /\ UNCHANGED <<users, sessions, codes, revokedTokens, clock, token, history>>

Answer(r) ==
  /\ At(r, "answer")
  /\ Go(r, "ok")
  /\ UNCHANGED <<users, sessions, codes, revokedTokens, clock, token, history>>

(***************************************************************************)
(* OidcRevoke and OidcUserinfo.  Clients present tokens they were given.   *)
(***************************************************************************)
Held ==
  {t \in Req : At(t, "ok") /\ req[t].kind = "id_token"}
    \cup {req[r].about : r \in {q \in Req : At(q, "ok") /\ req[q].kind = "token"}}

Revoke(r) ==
  /\ At(r, "idle")
  /\ \E q \in RevokeForms, t \in Held :
       /\ Rules!ValidateRevocationRequest(q) = Rules!Accepted
       /\ Revocations!Revoke(t)
       /\ revokedIn' = [revokedIn EXCEPT ![t] = crashes]
       /\ req' = [req EXCEPT ![r] = [Idle EXCEPT !.pc = "ok", !.kind = "revoke", !.about = t]]
  /\ UNCHANGED <<users, sessions, codes, clock, token, outdated, tardy>>

RevokedBefore(t) == revokedIn[t] = crashes

\* Wrong on purpose: the list of revoked tokens is not asked.
CheckNothing(r) ==
  /\ At(r, "idle")
  /\ \E t \in Held :
       /\ req' = [req EXCEPT ![r] =
                    [Idle EXCEPT !.pc = "verify", !.kind = "userinfo", !.about = t]]
       /\ tardy' = IF RevokedBefore(t) THEN tardy \cup {r} ELSE tardy
  /\ UNCHANGED <<users, sessions, codes, revokedTokens, clock, token, outdated, revokedIn>>

CheckRevoked(r) ==
  /\ At(r, "idle")
  /\ \E t \in Held :
       /\ req' = [req EXCEPT ![r] =
                    [Idle EXCEPT !.pc = IF Revocations!IsRevoked(t) THEN "fail" ELSE "verify",
                                 !.kind = "userinfo", !.about = t]]
       /\ tardy' = IF RevokedBefore(t) THEN tardy \cup {r} ELSE tardy
  /\ UNCHANGED <<users, sessions, codes, revokedTokens, clock, token, outdated, revokedIn>>

\* GetUserinfoFromToken: the signature of the key in force, and the expiry.
Accepts(t) == token[t] # NoClaims /\ token[t].key = key /\ now <= token[t].iat + IDTokenTTL

VerifyToken(r) ==
  /\ At(r, "verify")
  /\ IF Accepts(req[r].about) THEN Go(r, "ok") ELSE Fail(r)
  /\ UNCHANGED <<users, sessions, codes, revokedTokens, clock, token, history>>

(***************************************************************************)
(* The environment.                                                        *)
(***************************************************************************)
Copied(r) == req[r].info # NoUser

Disagrees(info, u, db) == db[u] = NoUser \/ db[u].groups # info.groups

\* History: what the database says of each copy that a request has read.
Outdate(db) ==
  outdated' = [r \in Req |->
    IF Copied(r) /\ outdated[r] = Never /\ Disagrees(req[r].info, req[r].user, db)
      THEN IF token[r] = NoClaims THEN Late ELSE now
      ELSE outdated[r]]

\* AdminDelete and AdminUpdateUserGroups, saved.
Administer ==
  /\ \E u \in Id : Users!Delete(u) \/ \E g \in SUBSET Group : Users!SetGroups(u, g)
  /\ Outdate(users')
  /\ UNCHANGED <<sessions, codes, revokedTokens, clock, req, token, revokedIn, tardy>>

\* The public clean-ups of the two stores.  The server calls neither; what is
\* checked holds of a program that does.
CleanUp ==
  /\ CallsCleanUp
  /\ \/ Codes!CleanUp /\ UNCHANGED revokedTokens
     \/ Revocations!CleanUp /\ UNCHANGED codes
  /\ UNCHANGED <<users, sessions, clock, req, token, history>>

Tick ==
  /\ now < MaxNow
  /\ now' = now + 1
  /\ UNCHANGED <<users, sessions, codes, revokedTokens, key, crashes, req, token, history>>

\* The process dies and starts again on the same files: the sessions, codes
\* and revocations are gone, and the signed tokens out there are not.
Crash ==
  /\ crashes < MaxCrashes
  /\ crashes' = crashes + 1
  /\ Sessions!Forget /\ Codes!Forget /\ Revocations!Forget
  /\ \E kept \in KeyKept : key' = IF kept THEN key ELSE crashes + 1
  /\ req' = [r \in Req |->
               IF InFlight(r) THEN Forgotten(req[r], "lost") ELSE req[r]]
  /\ UNCHANGED <<users, now, token, history>>

Serve(r) ==
  \/ AuthWithSession(r) \/ AuthWithLogin(r) \/ OpenSession(r) \/ Validate(r)
  \/ LookUp(r) \/ Sign(r) \/ SignFail(r) \/ CreateCode(r)
  \/ Redeem(r) \/ RedeemFail(r) \/ Answer(r)
  \/ Revoke(r) \/ CheckRevoked(r) \/ VerifyToken(r)

Next ==
  (\E r \in Req : Serve(r)) \/ Administer \/ CleanUp \/ Tick \/ Crash

Spec == Init /\ [][Next]_vars
=============================================================================
