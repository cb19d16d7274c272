----------------------------- MODULE OidcSafety ------------------------------
(***************************************************************************)
(* What the OpenID Connect endpoints promise.                              *)
(***************************************************************************)
EXTENDS OidcFlow

Sections(kind) ==
  CASE kind = "login" -> {"session", "validate"}
    [] kind = "code" -> {"lookup", "sign", "create"}
    [] kind = "id_token" -> {"lookup", "sign"}
    [] kind = "token" -> {"answer"}
    [] kind = "userinfo" -> {"verify"}
    [] OTHER -> {"idle"}

ClientIds == {Clients[i].id : i \in DOMAIN Clients}

Request == [pc     : {"idle", "session", "validate", "lookup", "sign", "create",
                      "answer", "verify"} \cup Ended,
            kind   : {"none", "login", "code", "id_token", "token", "userinfo", "revoke"},
            user   : Id \cup {NoUser},
            info   : Users!UserInfo \cup {NoUser},
            client : ClientIds \cup {NoUser},
            about  : Req \cup {NoReq}]

\* A signed token has a user record it was made from and a client it is for; a
\* request is only ever about a token that was signed.
WellFormed(r, q) ==
  /\ q.pc \in Sections(q.kind) \cup Ended
  /\ q.pc \in {"session", "validate", "lookup", "sign", "create"} => q.user \in Id
  /\ q.pc \in {"session", "validate", "sign", "create"} => q.info \in Users!UserInfo
  /\ q.pc \in {"lookup", "sign", "create"} => q.client \in ClientIds
  /\ q.pc \in {"answer", "verify"} \/ q.kind = "revoke" =>
       q.about \in Req /\ token[q.about] # NoClaims
  /\ q.pc \in {"create", "ok"} /\ q.kind \in {"code", "id_token"} => token[r] # NoClaims
  /\ q.pc = "ok" /\ q.kind = "token" => q.about \in Req /\ token[q.about] # NoClaims

RequestsOK ==
  /\ req \in [Req -> Request]
  /\ token \in [Req -> Claims \cup {NoClaims}]
  /\ \A r \in Req : WellFormed(r, req[r])

TablesOK ==
  /\ users \in Users!Database
  /\ Sessions!TypeOK /\ Codes!TypeOK /\ Revocations!TypeOK
  /\ {now, key, crashes} \subseteq Nat
  /\ outdated \in [Req -> Nat \cup {Never, Late}]
  /\ revokedIn \in [Req -> Nat \cup {Never}]
  /\ tardy \subseteq Req

\* Types, and that no handler signs, redeems or answers without what it needs.
TypeOK == TablesOK /\ RequestsOK

(***************************************************************************)
(* Authorization codes.                                                    *)
(***************************************************************************)

\* The abstract state of the codes.
Issued == {c \in Req : codes[c] # Unborn}
LiveCodes == {c \in Req : Codes!Stored(c)}
Born == [c \in Req |-> IF Codes!Stored(c) THEN codes[c].at ELSE 0]
Took(r, c) == req[r].kind = "token" /\ req[r].about = c

Promise == INSTANCE OneTimeCodes WITH
  Code <- Req, Taker <- Req, Lifetime <- CodeTTL,
  issued <- Issued, live <- LiveCodes, born <- Born, time <- now,
  takes <- {p \in Req \X Req : Took(p[1], p[2])}

\* Whatever the interleaving of authorizations, exchanges, retries, lost
\* answers, clean-ups and restarts, a code is taken once and keeps its lifetime.
\* Pop does not look at its age (codestore.go:76), but no code that has expired
\* is left once the next one has been created.
ImplementsOneTimeCodes == Promise!OSpec

(***************************************************************************)
(* Tokens.                                                                 *)
(***************************************************************************)

\* A revocation that was answered holds as long as the process lives: a token
\* the provider still accepts is in the list, whatever was cleaned up.  Only a
\* restart that finds the old signing key brings the token back, because the
\* list is kept in memory.
RevocationHolds ==
  \A t \in Req : revokedIn[t] # Never /\ Accepts(t) /\ ~Revocations!IsRevoked(t) =>
    revokedIn[t] < crashes

\* userinfo asks the list of revoked tokens and looks at the token afterwards
\* (oidc.go:301 and 305), so a revocation in between is not seen by it.  But none
\* is missed that was answered before the request came in, whatever is cleaned up
\* and whatever token the revocation and the request are about.
RevokedMeansRefused == \A r \in tardy : ~At(r, "ok")

\* userinfo never looks at the user database, so a token goes on saying what
\* it said when the user was deleted or lost a group (oidc.go:290).  What it
\* answers is what the database says, or what it said no longer ago than a token
\* lives, however long the code lay about before it was redeemed, unless the user
\* was read before the change and the token signed after it.
OutdatedClaimsFade ==
  [][\A r \in Req :
       LET t == req[r].about IN
       At(r, "verify") /\ req'[r].pc = "ok" =>
         \/ ~Disagrees(token[t], token[t].sub, users)
         \/ outdated[t] = Late
         \/ outdated[t] \in Nat /\ now <= outdated[t] + IDTokenTTL]_vars
=============================================================================
