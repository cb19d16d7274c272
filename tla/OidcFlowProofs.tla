--------------------------- MODULE OidcFlowProofs ----------------------------
(***************************************************************************)
(* The OpenID Connect endpoints for any number of requests, clients and    *)
(* users, and any lifetimes.                                               *)
(***************************************************************************)
EXTENDS OidcSafety, TLAPS

(***************************************************************************)
(* Types: the requests and the tokens they have signed.                    *)
(***************************************************************************)
LEMMA IdleIsRequest ==
  /\ Idle \in Request
  /\ Idle.pc = "idle" /\ Idle.kind = "none" /\ Idle.user = NoUser /\ Idle.info = NoUser
  /\ Idle.client = NoUser /\ Idle.about = NoReq
  BY DEF Idle, Request, Ended

LEMMA PutRequest ==
  ASSUME RequestsOK, NEW r \in Req, NEW q \in Request,
         req' = [req EXCEPT ![r] = q], token' = token, WellFormed(r, q)
  PROVE RequestsOK'
  BY DEF RequestsOK, WellFormed

\* A request that is ready to sign.
LEMMA ReadyToSign ==
  ASSUME NEW r \in Req, NEW q \in Request, q.pc = "sign", q.kind \in {"code", "id_token"},
         q.user \in Id, q.info \in Users!UserInfo, q.client \in ClientIds
  PROVE WellFormed(r, q)
  BY DEF WellFormed, Sections, Ended

LEMMA ForgottenIsWellFormed ==
  ASSUME RequestsOK, NEW r \in Req, NEW x \in {"fail", "lost"}
  PROVE /\ Forgotten(req[r], x) \in Request /\ WellFormed(r, Forgotten(req[r], x))
        /\ Forgotten(req[r], x).pc = x
<1>1. req[r] \in Request
  BY DEF RequestsOK
<1> QED
  BY <1>1 DEF Forgotten, Idle, Request, Ended, Sections, WellFormed

LEMMA FailRequest ==
  ASSUME RequestsOK, NEW r \in Req, Fail(r), token' = token
  PROVE RequestsOK'
<1>1. Forgotten(req[r], "fail") \in Request /\ WellFormed(r, Forgotten(req[r], "fail"))
  BY ForgottenIsWellFormed
<1> QED
  BY <1>1, PutRequest DEF Fail

\* What the rules of the provider accept names a configured client.
LEMMA AcceptedRedirect ==
  ASSUME NEW q, Rules!ValidateRedirect(q.client, q.uri) = Rules!Accepted
  PROVE q.client \in ClientIds
  BY DEF Rules!ValidateRedirect, Rules!Accepted, Rules!Known, ClientIds

LEMMA AcceptedAuth ==
  ASSUME NEW q, Rules!ValidateAuthenticationRequest(q) = Rules!Accepted
  PROVE q.client \in ClientIds /\ q.responseType \in {"id_token", "code"}
<1>1. q.responseType \in {"id_token", "code"}
  BY DEF Rules!ValidateAuthenticationRequest, Rules!Accepted
<1>2. Rules!ValidateRedirect(q.client, q.uri) = Rules!Accepted
  BY DEF Rules!ValidateAuthenticationRequest, Rules!Accepted
<1> QED
  BY <1>1, <1>2, AcceptedRedirect

LEMMA HandedSigned ==
  ASSUME RequestsOK
  PROVE /\ \A c \in Handed : c \in Req /\ token[c] # NoClaims
        /\ \A t \in Held : t \in Req /\ token[t] # NoClaims
  BY DEF RequestsOK, WellFormed, Handed, Held, At

LEMMA RequestsStep ==
  ASSUME TypeOK, FlowNames, FlowClaims, FlowDatabases, [Next]_vars
  PROVE RequestsOK'
<1> USE DEF At
<1>0. RequestsOK /\ TablesOK
  BY DEF TypeOK
<1>n. NoClaims \notin Claims /\ NoUser \notin Users!UserInfo /\ NoUser \notin Id
  BY DEF FlowNames, FlowClaims, FlowDatabases
<1>1. ASSUME NEW r \in Req, AuthWithSession(r) PROVE RequestsOK'
  <2>1. PICK f \in AuthForms, s \in Id :
          /\ Rules!ValidateAuthenticationRequest(f) = Rules!Accepted
          /\ Sessions!Live(s)
          /\ req' = [req EXCEPT ![r] = [Idle EXCEPT !.pc = "lookup", !.kind = f.responseType,
                                                    !.user = sessions[s], !.client = f.client]]
    BY <1>1 DEF AuthWithSession
  <2> DEFINE q == [Idle EXCEPT !.pc = "lookup", !.kind = f.responseType,
                               !.user = sessions[s], !.client = f.client]
  <2>2. sessions[s] \in Id
    BY <1>0, <2>1 DEF TablesOK, Sessions!TypeOK, Sessions!Live
  <2>3. f.client \in ClientIds /\ f.responseType \in {"id_token", "code"}
    BY <2>1, AcceptedAuth
  <2>4. q \in Request /\ WellFormed(r, q)
    BY <2>2, <2>3 DEF Idle, Request, WellFormed, Sections, Ended
  <2> QED
    BY <1>0, <1>1, <2>1, <2>4, PutRequest DEF AuthWithSession
<1>2. ASSUME NEW r \in Req, AuthWithLogin(r) PROVE RequestsOK'
  <2>1. PICK u \in Id :
          /\ Users!CanVerify(u)
          /\ req' = [req EXCEPT ![r] = [Idle EXCEPT !.pc = "session", !.kind = "login",
                                                    !.user = u, !.info = users[u]]]
    BY <1>2 DEF AuthWithLogin
  <2> DEFINE q == [Idle EXCEPT !.pc = "session", !.kind = "login", !.user = u, !.info = users[u]]
  <2>2. users[u] \in Users!UserInfo
    BY <1>0, <2>1 DEF TablesOK, Users!Database, Users!CanVerify, Users!Get, Users!Present
  <2>3. q \in Request /\ WellFormed(r, q)
    BY <2>2 DEF Idle, Request, WellFormed, Sections, Ended
  <2> QED
    BY <1>0, <1>2, <2>1, <2>3, PutRequest DEF AuthWithLogin
<1>3. ASSUME NEW r \in Req, OpenSession(r) PROVE RequestsOK'
  <2> DEFINE q == [req[r] EXCEPT !.pc = "validate"]
  <2>1. q \in Request /\ WellFormed(r, q) /\ req' = [req EXCEPT ![r] = q]
    BY <1>0, <1>3 DEF OpenSession, Go, RequestsOK, Request, WellFormed, Sections, Ended
  <2> QED
    BY <1>0, <1>3, <2>1, PutRequest DEF OpenSession
<1>4. ASSUME NEW r \in Req, Validate(r) PROVE RequestsOK'
  <2>1. PICK f \in AuthForms :
          IF /\ Rules!ValidateRedirect(f.client, f.uri) = Rules!Accepted
             /\ Rules!ValidateAuthenticationRequest(f) = Rules!Accepted
            THEN req' = [req EXCEPT ![r].pc = "sign", ![r].kind = f.responseType,
                                    ![r].client = f.client]
            ELSE Fail(r)
    BY <1>4 DEF Validate
  <2>2. CASE Fail(r)
    BY <1>0, <1>4, <2>2, FailRequest DEF Validate
  <2>3. CASE /\ Rules!ValidateAuthenticationRequest(f) = Rules!Accepted
             /\ req' = [req EXCEPT ![r].pc = "sign", ![r].kind = f.responseType,
                                   ![r].client = f.client]
    <3> DEFINE q == [req[r] EXCEPT !.pc = "sign", !.kind = f.responseType, !.client = f.client]
    <3>1. f.client \in ClientIds /\ f.responseType \in {"id_token", "code"}
      BY <2>3, AcceptedAuth
    <3>2. req' = [req EXCEPT ![r] = q]
      BY <1>0, <2>3 DEF RequestsOK
    <3>3. req[r] \in Request /\ req[r].user \in Id /\ req[r].info \in Users!UserInfo
      BY <1>0, <1>4 DEF Validate, RequestsOK, WellFormed
    <3>4. /\ q \in Request /\ q.pc = "sign" /\ q.kind = f.responseType
          /\ q.user = req[r].user /\ q.info = req[r].info /\ q.client = f.client
      BY <3>1, <3>3 DEF Request
    <3>5. WellFormed(r, q)
      BY <3>1, <3>3, <3>4, ReadyToSign
    <3> QED
      BY <1>0, <1>4, <3>2, <3>4, <3>5, PutRequest DEF Validate
  <2> QED
    BY <2>1, <2>2, <2>3
<1>5. ASSUME NEW r \in Req, LookUp(r) PROVE RequestsOK'
  <2>1. CASE Fail(r)
    BY <1>0, <1>5, <2>1, FailRequest DEF LookUp
  <2>2. CASE /\ Users!Get(req[r].user)
             /\ req' = [req EXCEPT ![r].pc = "sign", ![r].info = users[req[r].user]]
    <3> DEFINE q == [req[r] EXCEPT !.pc = "sign", !.info = users[req[r].user]]
    <3>1. req[r].user \in Id /\ users[req[r].user] \in Users!UserInfo
      BY <1>0, <1>5, <2>2
         DEF LookUp, RequestsOK, WellFormed, TablesOK, Users!Database, Users!Get, Users!Present
    <3>2. req' = [req EXCEPT ![r] = q]
      BY <1>0, <2>2 DEF RequestsOK
    <3>3. /\ req[r] \in Request /\ req[r].client \in ClientIds
          /\ req[r].kind \in {"code", "id_token"}
      BY <1>0, <1>5 DEF LookUp, RequestsOK, Request, WellFormed, Sections, Ended
    <3>4. /\ q \in Request /\ q.pc = "sign" /\ q.kind = req[r].kind
          /\ q.user = req[r].user /\ q.info = users[req[r].user] /\ q.client = req[r].client
      BY <3>1, <3>3 DEF Request
    <3>5. WellFormed(r, q)
      BY <3>1, <3>3, <3>4, ReadyToSign
    <3> QED
      BY <1>0, <1>5, <3>2, <3>4, <3>5, PutRequest DEF LookUp
  <2> QED
    BY <1>5, <2>1, <2>2 DEF LookUp
<1>6. ASSUME NEW r \in Req, Sign(r) PROVE RequestsOK'
  <2> DEFINE c == [sub |-> req[r].user, groups |-> req[r].info.groups,
                   aud |-> req[r].client, iat |-> now, key |-> key]
             q == [req[r] EXCEPT !.pc = IF req[r].kind = "id_token" THEN "ok" ELSE "create"]
  <2>1. req' = [req EXCEPT ![r] = q] /\ token' = [token EXCEPT ![r] = c]
    BY <1>6 DEF Sign, Go
  <2>2. c \in Claims
    BY <1>0, <1>6
       DEF Sign, RequestsOK, WellFormed, TablesOK, Claims, ClientIds, Users!UserInfo
  <2>3. \A p \in Req : token[p] # NoClaims => token'[p] # NoClaims
    BY <1>0, <1>n, <2>1, <2>2 DEF RequestsOK
  <2>4. token'[r] # NoClaims
    BY <1>0, <1>n, <2>1, <2>2 DEF RequestsOK
  <2>5. /\ req[r] \in Request /\ req[r].kind \in {"code", "id_token"}
        /\ req[r].user \in Id /\ req[r].info \in Users!UserInfo /\ req[r].client \in ClientIds
    BY <1>0, <1>6 DEF Sign, RequestsOK, WellFormed, Sections, Ended, Request
  <2>6. /\ q \in Request /\ q.kind = req[r].kind /\ q.user = req[r].user
        /\ q.info = req[r].info /\ q.client = req[r].client
        /\ q.kind = "id_token" => q.pc = "ok"
        /\ q.kind = "code" => q.pc = "create"
    BY <2>5 DEF Request, Ended
  <2>7. \A p \in Req : p # r => req'[p] = req[p]
    BY <1>0, <2>1 DEF RequestsOK
  <2>8. req'[r] = q
    BY <1>0, <2>1 DEF RequestsOK
  <2>9. ASSUME NEW p \in Req PROVE WellFormed(p, req[p])'
    <3>1. CASE p = r
      <4> HIDE DEF q
      <4> QED
        BY <2>4, <2>5, <2>6, <2>8, <3>1 DEF WellFormed, Sections, Ended
    <3>2. CASE p # r
      <4>1. WellFormed(p, req[p]) /\ req'[p] = req[p]
        BY <1>0, <2>7, <3>2 DEF RequestsOK
      <4> QED
        BY <2>3, <4>1 DEF WellFormed
    <3> QED
      BY <3>1, <3>2
  <2> QED
    BY <1>0, <2>1, <2>2, <2>6, <2>9 DEF RequestsOK
<1>7. ASSUME NEW r \in Req, SignFail(r) PROVE RequestsOK'
  BY <1>0, <1>7, FailRequest DEF SignFail
<1>8. ASSUME NEW r \in Req, CreateCode(r) PROVE RequestsOK'
  <2> DEFINE q == [req[r] EXCEPT !.pc = "ok"]
  <2>1. q \in Request /\ WellFormed(r, q) /\ req' = [req EXCEPT ![r] = q]
    BY <1>0, <1>8 DEF CreateCode, Go, RequestsOK, Request, WellFormed, Sections, Ended
  <2> QED
    BY <1>0, <1>8, <2>1, PutRequest DEF CreateCode
<1>9. ASSUME NEW r \in Req, Redeem(r) PROVE RequestsOK'
  <2>1. PICK c \in Handed :
          req' = [req EXCEPT ![r] = [Idle EXCEPT !.pc = "answer", !.kind = "token", !.about = c]]
    BY <1>9 DEF Redeem
  <2> DEFINE q == [Idle EXCEPT !.pc = "answer", !.kind = "token", !.about = c]
  <2>2. q \in Request /\ WellFormed(r, q)
    BY <1>0, HandedSigned DEF Idle, Request, WellFormed, Sections, Ended
  <2> QED
    BY <1>0, <1>9, <2>1, <2>2, PutRequest DEF Redeem
<1>10. ASSUME NEW r \in Req, RedeemFail(r) PROVE RequestsOK'
  <2> DEFINE q == [Idle EXCEPT !.pc = "fail", !.kind = "token"]
  <2>1. q \in Request /\ WellFormed(r, q)
    BY DEF Idle, Request, WellFormed, Sections, Ended
  <2> QED
    BY <1>0, <1>10, <2>1, PutRequest DEF RedeemFail
<1>11. ASSUME NEW r \in Req, Answer(r) PROVE RequestsOK'
  <2> DEFINE q == [req[r] EXCEPT !.pc = "ok"]
  <2>1. req[r].kind = "token"
    BY <1>0, <1>11 DEF Answer, RequestsOK, Request, WellFormed, Sections, Ended
  <2>2. q \in Request /\ WellFormed(r, q) /\ req' = [req EXCEPT ![r] = q]
    BY <1>0, <1>11, <2>1 DEF Answer, Go, RequestsOK, Request, WellFormed, Sections, Ended
  <2> QED
    BY <1>0, <1>11, <2>2, PutRequest DEF Answer
<1>12. ASSUME NEW r \in Req, Revoke(r) PROVE RequestsOK'
  <2>1. PICK t \in Held :
          req' = [req EXCEPT ![r] = [Idle EXCEPT !.pc = "ok", !.kind = "revoke", !.about = t]]
    BY <1>12 DEF Revoke
  <2> DEFINE q == [Idle EXCEPT !.pc = "ok", !.kind = "revoke", !.about = t]
  <2>2. q \in Request /\ WellFormed(r, q)
    BY <1>0, HandedSigned DEF Idle, Request, WellFormed, Sections, Ended
  <2> QED
    BY <1>0, <1>12, <2>1, <2>2, PutRequest DEF Revoke
<1>13. ASSUME NEW r \in Req, CheckRevoked(r) PROVE RequestsOK'
  <2>1. PICK t \in Held, x \in {"fail", "verify"} :
          req' = [req EXCEPT ![r] = [Idle EXCEPT !.pc = x, !.kind = "userinfo", !.about = t]]
    BY <1>13 DEF CheckRevoked
  <2> DEFINE q == [Idle EXCEPT !.pc = x, !.kind = "userinfo", !.about = t]
  <2>2. q \in Request /\ WellFormed(r, q)
    BY <1>0, HandedSigned DEF Idle, Request, WellFormed, Sections, Ended
  <2> QED
    BY <1>0, <1>13, <2>1, <2>2, PutRequest DEF CheckRevoked
<1>14. ASSUME NEW r \in Req, VerifyToken(r) PROVE RequestsOK'
  <2>1. CASE Fail(r)
    BY <1>0, <1>14, <2>1, FailRequest DEF VerifyToken
  <2>2. CASE Go(r, "ok")
    <3> DEFINE q == [req[r] EXCEPT !.pc = "ok"]
    <3>1. req[r].kind = "userinfo"
      BY <1>0, <1>14 DEF VerifyToken, RequestsOK, Request, WellFormed, Sections, Ended
    <3>2. q \in Request /\ WellFormed(r, q) /\ req' = [req EXCEPT ![r] = q]
      BY <1>0, <1>14, <2>2, <3>1 DEF Go, RequestsOK, Request, WellFormed, Sections, Ended
    <3> QED
      BY <1>0, <1>14, <3>2, PutRequest DEF VerifyToken
  <2> QED
    BY <1>14, <2>1, <2>2 DEF VerifyToken
<1>15. CASE Crash
  <2>1. /\ req' = [r \in Req |->
                     IF InFlight(r) THEN Forgotten(req[r], "lost") ELSE req[r]]
        /\ token' = token
    BY <1>15 DEF Crash
  <2>2. \A r \in Req : req'[r] \in Request /\ WellFormed(r, req'[r])
    BY <1>0, <2>1, ForgottenIsWellFormed DEF RequestsOK
  <2> QED
    BY <1>0, <2>1, <2>2 DEF RequestsOK, WellFormed
<1>16. CASE UNCHANGED <<req, token>>
  BY <1>0, <1>16 DEF RequestsOK, WellFormed
<1> QED
  BY <1>1, <1>2, <1>3, <1>4, <1>5, <1>6, <1>7, <1>8, <1>9, <1>10, <1>11, <1>12, <1>13, <1>14,
     <1>15, <1>16
     DEF Next, Serve, Administer, CleanUp, Tick, vars

(***************************************************************************)
(* Types: the tables.                                                      *)
(***************************************************************************)
LEMMA TablesStep ==
  ASSUME TypeOK, FlowAssumption, FlowNames, FlowDatabases, [Next]_vars
  PROVE TablesOK'
<1> USE DEF At, Sessions!TypeOK, Codes!TypeOK, Revocations!TypeOK, clock, history
<1>0. RequestsOK /\ TablesOK
  BY DEF TypeOK
<1>1. ASSUME NEW r \in Req, OpenSession(r) PROVE TablesOK'
  <2>1. req[r].user \in Id /\ r \in Id
    BY <1>0, <1>1 DEF OpenSession, RequestsOK, WellFormed, Id
  <2> QED
    BY <1>0, <1>1, <2>1 DEF OpenSession, TablesOK, Sessions!Create
<1>2. ASSUME NEW r \in Req, CreateCode(r) PROVE TablesOK'
  <2>1. [token |-> r, at |-> now] \in Codes!Entry
    BY <1>0 DEF TablesOK, Codes!Entry
  <2> QED
    BY <1>0, <1>2, <2>1 DEF CreateCode, TablesOK, Codes!Create
<1>3. ASSUME NEW r \in Req, Redeem(r) PROVE TablesOK'
  BY <1>0, <1>3 DEF Redeem, TablesOK, Codes!Pop
<1>4. ASSUME NEW r \in Req, Revoke(r) PROVE TablesOK'
  <2>1. PICK t \in Held : /\ revokedTokens' = [revokedTokens EXCEPT ![t] = now]
                          /\ revokedIn' = [revokedIn EXCEPT ![t] = crashes]
    BY <1>4 DEF Revoke, Revocations!Revoke
  <2>2. (Revocations!TypeOK)' /\ revokedIn' \in [Req -> Nat \cup {Never}]
    BY <1>0, <2>1 DEF TablesOK
  <2> QED
    BY <1>0, <1>4, <2>2 DEF Revoke, TablesOK
<1>5. CASE Administer
  <2>1. PICK u \in Id : Users!Delete(u) \/ \E g \in SUBSET Group : Users!SetGroups(u, g)
    BY <1>5 DEF Administer
  <2>2. users' \in Users!Database
    <3>1. CASE Users!Delete(u)
      BY <1>0, <3>1 DEF Users!Delete, Users!Database, TablesOK
    <3>2. ASSUME NEW g \in SUBSET Group, Users!SetGroups(u, g) PROVE users' \in Users!Database
      <4> DEFINE x == [users[u] EXCEPT !.groups = g]
      <4>1. x \in Users!UserInfo
        BY <1>0, <3>2
           DEF Users!SetGroups, Users!Get, Users!Present, Users!Database, Users!UserInfo, TablesOK
      <4>2. users' = [users EXCEPT ![u] = x]
        BY <3>2 DEF Users!SetGroups
      <4> QED
        BY <1>0, <4>1, <4>2 DEF Users!Database, TablesOK
    <3> QED
      BY <2>1, <3>1, <3>2
  <2>3. outdated' \in [Req -> Nat \cup {Never, Late}]
    BY <1>0, <1>5 DEF Administer, Outdate, TablesOK
  <2> QED
    BY <1>0, <1>5, <2>2, <2>3 DEF Administer, TablesOK
<1>6. CASE CleanUp
  BY <1>0, <1>6 DEF CleanUp, TablesOK, Codes!CleanUp, Revocations!CleanUp
<1>7. CASE Tick
  BY <1>0, <1>7 DEF Tick, TablesOK
<1>8. CASE Crash
  <2>1. key' \in Nat
    BY <1>0, <1>8 DEF Crash, TablesOK
  <2>2. (Sessions!TypeOK /\ Codes!TypeOK /\ Revocations!TypeOK)'
    BY <1>0, <1>8 DEF Crash, TablesOK, Sessions!Forget, Codes!Forget, Revocations!Forget
  <2> QED
    BY <1>0, <1>8, <2>1, <2>2 DEF Crash, TablesOK
<1>9. CASE UNCHANGED <<users, sessions, codes, revokedTokens, clock, history>>
  BY <1>0, <1>9 DEF TablesOK
<1>10. ASSUME NEW r \in Req, CheckRevoked(r) PROVE TablesOK'
  BY <1>0, <1>10 DEF CheckRevoked, TablesOK
<1> QED
  BY <1>1, <1>2, <1>3, <1>4, <1>5, <1>6, <1>7, <1>8, <1>9, <1>10
     DEF Next, Serve, AuthWithSession, AuthWithLogin, Validate, LookUp, Sign, SignFail,
         RedeemFail, Answer, VerifyToken, vars

LEMMA InitTypeOK ==
  ASSUME Init, FlowNames, FlowDatabases
  PROVE TypeOK
<1>1. RequestsOK
  <2>1. \A r \in Req : req[r] = Idle /\ Idle \in Request /\ WellFormed(r, Idle)
    BY IdleIsRequest DEF Init, WellFormed, Sections
  <2> QED
    BY <2>1 DEF Init, RequestsOK
<1>2. users \in Users!Database
  BY DEF Init, FlowDatabases
<1>3. Sessions!TypeOK /\ Codes!TypeOK /\ Revocations!TypeOK
  BY DEF Init, Sessions!TypeOK, Codes!TypeOK, Revocations!TypeOK, Revocations!Init
<1> QED
  BY <1>1, <1>2, <1>3 DEF Init, TypeOK, TablesOK

\* For any number of requests: no handler signs without a user it has read,
\* nor answers about a token that was never signed (routes/oidc.go).
THEOREM FlowTypes == Spec => []TypeOK
<1>1. Init => TypeOK
  BY InitTypeOK, FlowNames, FlowDatabases
<1>2. TypeOK /\ [Next]_vars => TypeOK'
  BY RequestsStep, TablesStep, FlowAssumption, FlowNames, FlowDatabases, FlowClaims DEF TypeOK
<1> QED
  BY <1>1, <1>2, PTL DEF Spec

(***************************************************************************)
(* What a signed token, its revocation and the changes of its user have to *)
(* do with each other in time.                                             *)
(***************************************************************************)
Unsigned == {"idle", "session", "validate", "lookup", "sign"}

\* A request signs one token, and the clock does not go back.
SignedOnce ==
  \A r \in Req :
    /\ req[r].pc \in Unsigned => token[r] = NoClaims
    /\ token[r] # NoClaims => token[r].iat <= now

\* What is noted as a change after the signature did come after it.
OutdatedAfter ==
  \A r \in Req :
    outdated[r] \in {Never, Late} \/ (token[r] # NoClaims /\ token[r].iat <= outdated[r])

\* A revocation of this life is in the list, with a time after the signature, or
\* the token has expired.
Remembered(t) ==
  Revocations!IsRevoked(t) /\ token[t].iat <= revokedTokens[t]

Expired(t) == now > token[t].iat + IDTokenTTL

RevokedAfter ==
  \A t \in Req :
    revokedIn[t] # Never =>
      /\ token[t] # NoClaims
      /\ revokedIn[t] <= crashes
      /\ revokedIn[t] = crashes => Remembered(t) \/ Expired(t)


LEMMA FInvSigned ==
  ASSUME TypeOK, TypeOK', SignedOnce, FlowNames, FlowDatabases, [Next]_vars
  PROVE SignedOnce'
<1> USE DEF At
<1>0. RequestsOK /\ now \in Nat /\ now' \in Nat /\ NoClaims \notin Nat
  BY DEF TypeOK, TablesOK, FlowNames
<1>2. ASSUME NEW r \in Req, UNCHANGED <<token, now>>, req[r].pc \in Unsigned,
             \A p \in Req : p # r => req'[p] = req[p]
      PROVE SignedOnce'
  BY <1>0, <1>2 DEF SignedOnce
<1>3. ASSUME NEW r \in Req, Sign(r) PROVE SignedOnce'
  <2> DEFINE c == [sub |-> req[r].user, groups |-> req[r].info.groups,
                   aud |-> req[r].client, iat |-> now, key |-> key]
             x == IF req[r].kind = "id_token" THEN "ok" ELSE "create"
  <2>1. /\ req' = [req EXCEPT ![r].pc = x] /\ x \notin Unsigned
        /\ token' = [token EXCEPT ![r] = c] /\ now' = now
    BY <1>3 DEF Sign, Go, clock, Unsigned
  <2>2. c.iat = now
    OBVIOUS
  <2> HIDE DEF c, x
  <2>3. req'[r].pc = x /\ token'[r] = c /\ \A p \in Req : p # r => req'[p] = req[p] /\ token'[p] = token[p]
    BY <1>0, <2>1 DEF RequestsOK, Request
  <2> QED
    BY <1>0, <2>1, <2>2, <2>3 DEF SignedOnce
<1>4. ASSUME NEW r \in Req,
             AuthWithSession(r) \/ AuthWithLogin(r) \/ OpenSession(r) \/ Validate(r)
               \/ LookUp(r) \/ SignFail(r) \/ Redeem(r) \/ RedeemFail(r)
               \/ Revoke(r) \/ CheckRevoked(r)
      PROVE SignedOnce'
  <2>1. UNCHANGED <<token, now>> /\ req[r].pc \in Unsigned
    BY <1>4
       DEF AuthWithSession, AuthWithLogin, OpenSession, Validate, LookUp, SignFail, Redeem,
           RedeemFail, Revoke, CheckRevoked, clock, Unsigned
  <2>2. \A p \in Req : p # r => req'[p] = req[p]
    BY <1>0, <1>4
       DEF AuthWithSession, AuthWithLogin, OpenSession, Validate, LookUp, SignFail, Redeem,
           RedeemFail, Revoke, CheckRevoked, Go, Fail, RequestsOK
  <2> QED
    BY <1>2, <2>1, <2>2
<1>5. ASSUME NEW r \in Req, CreateCode(r) \/ Answer(r) \/ VerifyToken(r)
      PROVE SignedOnce'
  <2>1. UNCHANGED <<token, now>> /\ \A p \in Req : p # r => req'[p] = req[p]
    BY <1>0, <1>5 DEF CreateCode, Answer, VerifyToken, Go, Fail, clock, RequestsOK
  <2>2. req'[r].pc \in Ended
    BY <1>0, <1>5, ForgottenIsWellFormed
       DEF CreateCode, Answer, VerifyToken, Go, Fail, RequestsOK, Request, Ended
  <2> QED
    BY <1>0, <2>1, <2>2 DEF SignedOnce, Unsigned, Ended
<1>6. CASE Crash
  <2>1. UNCHANGED <<token, now>>
    BY <1>6 DEF Crash
  <2>2. \A r \in Req : req'[r].pc \in Unsigned => req[r].pc \in Unsigned
    BY <1>0, <1>6, ForgottenIsWellFormed DEF Crash, RequestsOK, Unsigned
  <2> QED
    BY <1>0, <2>1, <2>2 DEF SignedOnce
<1>7. CASE Tick
  <2>1. \A r \in Req : token[r] # NoClaims => token[r].iat \in Nat
    BY <1>0 DEF RequestsOK, Claims
  <2> QED
    BY <1>0, <1>7, <2>1 DEF Tick, SignedOnce
<1>8. CASE UNCHANGED <<req, token, now>>
  BY <1>8 DEF SignedOnce
<1> QED
  BY <1>3, <1>4, <1>5, <1>6, <1>7, <1>8
     DEF Next, Serve, Administer, CleanUp, vars, clock

\* A token says for ever what it said first.
LEMMA TokensStay ==
  ASSUME TypeOK, SignedOnce, [Next]_vars, NEW r \in Req, token[r] # NoClaims
  PROVE token'[r] = token[r]
<1>0. RequestsOK
  BY DEF TypeOK
<1>1. ASSUME NEW p \in Req, Sign(p) PROVE token'[r] = token[r]
  <2>1. token[p] = NoClaims
    BY <1>1 DEF Sign, At, SignedOnce, Unsigned
  <2>2. token' = [token EXCEPT ![p] = token'[p]]
    BY <1>0, <1>1 DEF Sign, RequestsOK
  <2> QED
    BY <1>0, <2>1, <2>2 DEF RequestsOK
<1> QED
  BY <1>1
     DEF Next, Serve, AuthWithSession, AuthWithLogin, OpenSession, Validate, LookUp, SignFail,
         CreateCode, Redeem, RedeemFail, Answer, Revoke, CheckRevoked, VerifyToken,
         Administer, CleanUp, Tick, Crash, vars

LEMMA FInvOutdated ==
  ASSUME TypeOK, SignedOnce, OutdatedAfter, [Next]_vars
  PROVE OutdatedAfter'
<1>0. RequestsOK /\ outdated \in [Req -> Nat \cup {Never, Late}] /\ now \in Nat
  BY DEF TypeOK, TablesOK
<1>1. CASE outdated' = outdated
  <2> SUFFICES ASSUME NEW r \in Req, outdated[r] \notin {Never, Late}
               PROVE token'[r] # NoClaims /\ token'[r].iat <= outdated[r]
    BY <1>1 DEF OutdatedAfter
  <2>1. token[r] # NoClaims /\ token[r].iat <= outdated[r]
    BY DEF OutdatedAfter
  <2> QED
    BY <2>1, TokensStay
<1>2. CASE Administer
  <2> SUFFICES ASSUME NEW r \in Req, outdated'[r] \notin {Never, Late}
               PROVE token[r] # NoClaims /\ token[r].iat <= outdated'[r]
    BY <1>2 DEF Administer, OutdatedAfter
  <2>1. \/ outdated'[r] = outdated[r]
        \/ token[r] # NoClaims /\ outdated'[r] = now
    BY <1>2 DEF Administer, Outdate
  <2> QED
    BY <2>1 DEF OutdatedAfter, SignedOnce
<1> QED
  BY <1>1, <1>2
     DEF Next, Serve, AuthWithSession, AuthWithLogin, OpenSession, Validate, LookUp, Sign,
         SignFail, CreateCode, Redeem, RedeemFail, Answer, Revoke, CheckRevoked, VerifyToken,
         CleanUp, Tick, Crash, vars, history

\* Here the lifetimes matter: a program that cleans the list up has to remember a
\* revocation for longer than the token it is about can last.  main never does,
\* so this holds of the server whatever its configuration says.
LongRemembered == CallsCleanUp => RevokedTTL > IDTokenTTL

LEMMA FInvRevoked ==
  ASSUME TypeOK, SignedOnce, RevokedAfter, FlowAssumption, FlowNames, LongRemembered,
         [Next]_vars
  PROVE RevokedAfter'
<1>0. /\ RequestsOK /\ {now, crashes, IDTokenTTL, RevokedTTL} \subseteq Nat
      /\ revokedTokens \in [Req -> Nat \cup {NotRevoked}]
      /\ revokedIn \in [Req -> Nat \cup {Never}]
      /\ NotRevoked \notin Nat /\ Never \notin Nat
  BY DEF TypeOK, TablesOK, Revocations!TypeOK, FlowAssumption, FlowNames
<1>1. \A t \in Req : token[t] # NoClaims => token[t].iat \in Nat
  BY <1>0 DEF RequestsOK, Claims
<1>2. \A t \in Req : revokedIn[t] # Never =>
        token[t] # NoClaims /\ token'[t] = token[t] /\ token[t].iat \in Nat
  BY <1>1, TokensStay DEF RevokedAfter
<1> USE DEF Remembered, Expired, Revocations!IsRevoked
<1>3. ASSUME NEW r \in Req, Revoke(r) PROVE RevokedAfter'
  <2>1. PICK t \in Held : /\ revokedTokens' = [revokedTokens EXCEPT ![t] = now]
                          /\ revokedIn' = [revokedIn EXCEPT ![t] = crashes]
    BY <1>3 DEF Revoke, Revocations!Revoke
  <2>2. t \in Req /\ token[t] # NoClaims /\ token[t].iat <= now
    BY <1>0, HandedSigned DEF SignedOnce
  <2>3. UNCHANGED <<token, now, crashes>>
    BY <1>3 DEF Revoke, clock
  <2> QED
    BY <1>0, <1>2, <2>1, <2>2, <2>3 DEF RevokedAfter
<1>4. CASE CleanUp
  <2>1. UNCHANGED <<token, now, crashes, revokedIn>>
    BY <1>4 DEF CleanUp, clock, history
  <2>2. ASSUME NEW t \in Req, Remembered(t), token[t].iat \in Nat
        PROVE Expired(t) \/ revokedTokens'[t] = revokedTokens[t]
    <3>1. CASE revokedTokens' = revokedTokens
      BY <3>1
    <3>2. CASE Revocations!CleanUp
      <4>1. PICK D \in Revocations!OldSets :
              revokedTokens' = [x \in Req |-> IF x \in D THEN NotRevoked ELSE revokedTokens[x]]
        BY <3>2 DEF Revocations!CleanUp
      <4>2. t \in D => ~(now - revokedTokens[t] < RevokedTTL)
        BY <2>2, <4>1 DEF Revocations!OldSets, Revocations!Since
      <4>3. revokedTokens[t] \in Nat
        BY <1>0, <2>2
      <4>4. t \in D => Expired(t)
        BY <1>0, <1>4, <2>2, <4>2, <4>3 DEF CleanUp, LongRemembered
      <4> QED
        BY <4>1, <4>4
    <3> QED
      BY <1>4, <3>1, <3>2 DEF CleanUp
  <2> QED
    BY <1>2, <2>1, <2>2 DEF RevokedAfter
<1>5. CASE Tick
  <2>1. now' = now + 1 /\ UNCHANGED <<token, crashes, revokedIn, revokedTokens>>
    BY <1>5 DEF Tick, history
  <2>2. \A t \in Req : token[t].iat \in Nat /\ Expired(t) => Expired(t)'
    BY <1>0, <2>1
  <2> QED
    BY <1>2, <2>1, <2>2 DEF RevokedAfter
<1>6. CASE Crash
  <2>1. crashes' = crashes + 1 /\ UNCHANGED <<token, revokedIn>>
    BY <1>6 DEF Crash, history
  <2> QED
    BY <1>0, <1>2, <2>1 DEF RevokedAfter
<1>7. CASE UNCHANGED <<now, crashes, revokedIn, revokedTokens>>
  BY <1>2, <1>7 DEF RevokedAfter
<1> QED
  BY <1>3, <1>4, <1>5, <1>6, <1>7
     DEF Next, Serve, AuthWithSession, AuthWithLogin, OpenSession, Validate, LookUp, Sign,
         SignFail, CreateCode, Redeem, RedeemFail, Answer, CheckRevoked, VerifyToken,
         Administer, vars, clock, history

LEMMA AlwaysTimed == Spec => [](TypeOK /\ SignedOnce /\ OutdatedAfter)
<1>1. Init => TypeOK /\ SignedOnce /\ OutdatedAfter
  BY InitTypeOK, FlowNames, FlowDatabases DEF Init, SignedOnce, OutdatedAfter
<1>2. TypeOK /\ SignedOnce /\ OutdatedAfter /\ [Next]_vars =>
        (TypeOK /\ SignedOnce /\ OutdatedAfter)'
  <2>1. TypeOK /\ [Next]_vars => TypeOK'
    BY RequestsStep, TablesStep, FlowAssumption, FlowNames, FlowDatabases, FlowClaims DEF TypeOK
  <2> QED
    BY <2>1, FInvSigned, FInvOutdated, FlowNames, FlowDatabases
<1> QED
  BY <1>1, <1>2, PTL DEF Spec

\* A revocation that was answered holds as long as the process lives, if the list
\* is never cleaned up or keeps it for longer than a token lasts: a token the
\* provider still accepts is in the list (tokenstore.go:48, routes/oidc.go:283).
THEOREM RevocationsHold ==
  ASSUME LongRemembered
  PROVE Spec => []RevocationHolds
<1>1. Init => RevokedAfter
  BY DEF Init, RevokedAfter
<1>2. TypeOK /\ SignedOnce /\ RevokedAfter /\ [Next]_vars => RevokedAfter'
  BY FInvRevoked, FlowAssumption, FlowNames
<1>3. TypeOK /\ RevokedAfter => RevocationHolds
  <2> SUFFICES ASSUME TypeOK, RevokedAfter, NEW t \in Req,
                      revokedIn[t] # Never, Accepts(t), ~Revocations!IsRevoked(t)
               PROVE revokedIn[t] < crashes
    BY DEF RevocationHolds
  <2>1. token[t].iat \in Nat /\ revokedIn[t] \in Nat /\ {crashes, now, IDTokenTTL} \subseteq Nat
    BY FlowAssumption DEF TypeOK, TablesOK, RequestsOK, Claims, RevokedAfter, FlowAssumption
  <2> QED
    BY <2>1 DEF RevokedAfter, Remembered, Expired, Accepts
<1> QED
  BY <1>1, <1>2, <1>3, AlwaysTimed, PTL DEF Spec

\* A request leaves its place by a step of its own, or is lost.
LEMMA OthersStay ==
  ASSUME RequestsOK, NEW p \in Req, NEW r \in Req, r # p, Serve(p)
  PROVE req'[r] = req[r]
  BY DEF Serve, RequestsOK, AuthWithSession, AuthWithLogin, OpenSession, Validate, LookUp, Sign,
         SignFail, CreateCode, Redeem, RedeemFail, Answer, Revoke, CheckRevoked, VerifyToken,
         Go, Fail

LEMMA VerifiedByOneself ==
  ASSUME TypeOK, [Next]_vars, NEW r \in Req, At(r, "verify"), req'[r].pc = "ok"
  PROVE VerifyToken(r)
<1>0. RequestsOK /\ req'[r] # req[r]
  BY DEF TypeOK, At
<1>1. CASE \E p \in Req : Serve(p)
  <2>1. Serve(r)
    BY <1>0, <1>1, OthersStay
  <2> QED
    BY <2>1
       DEF At, Serve, AuthWithSession, AuthWithLogin, OpenSession, Validate, LookUp, Sign,
           SignFail, CreateCode, Redeem, RedeemFail, Answer, Revoke, CheckRevoked
<1>2. CASE Crash
  <2>1. req'[r] = Forgotten(req[r], "lost")
    BY <1>2 DEF Crash, InFlight, At, Ended
  <2> QED
    BY <1>0, <2>1, ForgottenIsWellFormed
<1>3. CASE UNCHANGED req
  BY <1>0, <1>3
<1> QED
  BY <1>1, <1>2, <1>3 DEF Next, Administer, CleanUp, Tick, vars

\* A request is at "verify" only if its token is not in the list, so a request
\* that came in after the revocation has a token that has expired.
TardyFail ==
  \A r \in tardy :
    /\ req[r].pc \in {"verify", "fail", "lost"}
    /\ At(r, "verify") => req[r].about \in Req /\ token[req[r].about] # NoClaims
                            /\ Expired(req[r].about)

\* What each kind of step does to a request that came in too late.
LEMMA TardyStep ==
  ASSUME TypeOK, FlowNames, [Next]_vars, NEW r \in Req,
         req[r].pc \in {"verify", "fail", "lost"}
  PROVE \/ req'[r] = req[r]
        \/ VerifyToken(r)
        \/ req'[r].pc = "lost"
<1>0. RequestsOK
  BY DEF TypeOK
<1>1. ASSUME NEW p \in Req, Serve(p) PROVE req'[r] = req[r] \/ VerifyToken(r)
  <2>1. CASE p = r
    BY <1>1, <2>1
       DEF At, Serve, AuthWithSession, AuthWithLogin, OpenSession, Validate, LookUp, Sign,
           SignFail, CreateCode, Redeem, RedeemFail, Answer, Revoke, CheckRevoked
  <2> QED
    BY <1>0, <1>1, <2>1, OthersStay
<1>2. CASE Crash
  BY <1>0, <1>2, ForgottenIsWellFormed DEF Crash
<1> QED
  BY <1>1, <1>2 DEF Next, Administer, CleanUp, Tick, vars

LEMMA ExpiredStays ==
  ASSUME TypeOK, FlowAssumption, SignedOnce, [Next]_vars, NEW t \in Req,
         token[t] # NoClaims, Expired(t)
  PROVE token'[t] # NoClaims /\ Expired(t)'
<1>1. token'[t] = token[t] /\ token[t].iat \in Nat /\ {now, IDTokenTTL} \subseteq Nat
  BY TokensStay DEF TypeOK, TablesOK, RequestsOK, Claims, FlowAssumption
<1>2. now' = now \/ now' = now + 1
  BY DEF Next, Serve, AuthWithSession, AuthWithLogin, OpenSession, Validate, LookUp, Sign,
         SignFail, CreateCode, Redeem, RedeemFail, Answer, Revoke, CheckRevoked, VerifyToken,
         Administer, CleanUp, Tick, Crash, vars, clock
<1> QED
  BY <1>1, <1>2 DEF Expired

LEMMA FInvTardy ==
  ASSUME TypeOK, FlowAssumption, FlowNames, SignedOnce, RevokedAfter, TardyFail, [Next]_vars
  PROVE TardyFail'
<1>0. RequestsOK /\ tardy \subseteq Req /\ Never \notin Nat /\ crashes \in Nat
  BY DEF TypeOK, TablesOK, FlowNames
<1>1. ASSUME NEW r \in tardy
      PROVE /\ req'[r].pc \in {"verify", "fail", "lost"}
            /\ req'[r].pc = "verify" => LET t == req'[r].about IN
                 t \in Req /\ token'[t] # NoClaims /\ now' > token'[t].iat + IDTokenTTL
  <2>1. CASE req'[r] = req[r]
    <3>1. CASE req[r].pc = "verify"
      <4>1. PICK t \in Req : t = req[r].about /\ token[t] # NoClaims /\ Expired(t)
        BY <3>1 DEF TardyFail, At
      <4>2. token'[t] # NoClaims /\ now' > token'[t].iat + IDTokenTTL
        BY <4>1, ExpiredStays DEF Expired
      <4> QED
        BY <2>1, <3>1, <4>1, <4>2
    <3> QED
      BY <2>1, <3>1 DEF TardyFail
  <2>2. CASE VerifyToken(r)
    <3>1. At(r, "verify") /\ token[req[r].about].iat \in Nat /\ {now, IDTokenTTL} \subseteq Nat
      BY <2>2 DEF VerifyToken, TardyFail, TypeOK, TablesOK, RequestsOK, Claims, FlowAssumption
    <3>2. ~Accepts(req[r].about)
      BY <3>1 DEF TardyFail, Expired, Accepts
    <3> QED
      BY <1>0, <2>2, <3>2, ForgottenIsWellFormed DEF VerifyToken, Fail, RequestsOK
  <2> QED
    BY <1>0, <2>1, <2>2, TardyStep DEF TardyFail
<1>2. CASE tardy' = tardy
  BY <1>1, <1>2 DEF TardyFail, At, Expired
<1>3. ASSUME NEW r \in Req, CheckRevoked(r), tardy' # tardy PROVE TardyFail'
  <2>1. PICK t \in Held :
          /\ req' = [req EXCEPT ![r] =
                       [Idle EXCEPT !.pc = IF Revocations!IsRevoked(t) THEN "fail" ELSE "verify",
                                    !.kind = "userinfo", !.about = t]]
          /\ RevokedBefore(t) /\ tardy' = tardy \cup {r}
    BY <1>3 DEF CheckRevoked
  <2>2. t \in Req /\ token[t] # NoClaims /\ revokedIn[t] # Never
    BY <1>0, <2>1, HandedSigned DEF RevokedBefore
  <2>3. Revocations!IsRevoked(t) \/ Expired(t)
    BY <2>1, <2>2 DEF RevokedAfter, Remembered, RevokedBefore
  <2>4. req'[r].pc = (IF Revocations!IsRevoked(t) THEN "fail" ELSE "verify") /\ req'[r].about = t
    BY <1>0, <2>1 DEF RequestsOK, Idle
  <2>5. Expired(t) => token'[t] # NoClaims /\ now' > token'[t].iat + IDTokenTTL
    BY <2>2, ExpiredStays DEF Expired
  <2> QED
    BY <1>1, <2>1, <2>2, <2>3, <2>4, <2>5 DEF TardyFail, At, Expired
<1> QED
  BY <1>2, <1>3
     DEF Next, Serve, AuthWithSession, AuthWithLogin, OpenSession, Validate, LookUp, Sign,
         SignFail, CreateCode, Redeem, RedeemFail, Answer, Revoke, VerifyToken,
         Administer, CleanUp, Tick, Crash, vars, history

\* No userinfo request that came in after its token's revocation was answered is
\* answered with claims in that life of the process, although the list is asked
\* first and the token looked at later (routes/oidc.go:301 and 305).
THEOREM TheRevokedAreRefused ==
  ASSUME LongRemembered
  PROVE Spec => []RevokedMeansRefused
<1>1. Init => RevokedAfter /\ TardyFail
  BY DEF Init, RevokedAfter, TardyFail
<1>2. TypeOK /\ SignedOnce /\ RevokedAfter /\ TardyFail /\ [Next]_vars =>
        RevokedAfter' /\ TardyFail'
  BY FInvRevoked, FInvTardy, FlowAssumption, FlowNames
<1>3. TardyFail => RevokedMeansRefused
  BY DEF TardyFail, RevokedMeansRefused, At
<1> QED
  BY <1>1, <1>2, <1>3, AlwaysTimed, PTL DEF Spec

(***************************************************************************)
(* What tokens say: what was read of the user they are about, by a request *)
(* that has been answered.                                                 *)
(***************************************************************************)
SaysWhatWasRead ==
  \A r \in Req :
    Copied(r) =>
      /\ outdated[r] = Never => ~Disagrees(req[r].info, req[r].user, users)
      /\ token[r] # NoClaims =>
           token[r].sub = req[r].user /\ token[r].groups = req[r].info.groups

Signer(t) == At(t, "ok") /\ req[t].kind \in {"code", "id_token"} /\ Copied(t)

\* Clients present the tokens of authentication requests that were answered.
OthersPresent ==
  \A r \in Req :
    req[r].pc \in {"answer", "verify"} \/ (At(r, "ok") /\ req[r].kind = "token") =>
      req[r].about \in Req /\ Signer(req[r].about)

AnsweredCopied ==
  \A r \in Req : At(r, "ok") /\ req[r].kind \in {"code", "id_token"} => Copied(r)

\* Where the user record of a request comes from.
LEMMA CopySteps ==
  ASSUME TypeOK, FlowNames, FlowDatabases, [Next]_vars, NEW r \in Req
  PROVE \/ req'[r].info = req[r].info /\ req'[r].user = req[r].user
        \/ req'[r].info = NoUser
        \/ /\ req'[r].info = users[req'[r].user] /\ users[req'[r].user] # NoUser
           /\ req[r].pc \in Unsigned
           /\ UNCHANGED <<users, token, outdated>>
<1> USE DEF At, history
<1>0. RequestsOK
  BY DEF TypeOK
<1>1. CASE AuthWithSession(r) \/ RedeemFail(r)
  BY <1>0, <1>1 DEF AuthWithSession, RedeemFail, Idle, RequestsOK
<1>2. CASE AuthWithLogin(r)
  BY <1>0, <1>2
     DEF AuthWithLogin, Idle, RequestsOK, Unsigned, Users!CanVerify, Users!Get, Users!Present
<1>3. CASE OpenSession(r) \/ Sign(r) \/ CreateCode(r) \/ Answer(r)
  BY <1>0, <1>3 DEF OpenSession, Sign, CreateCode, Answer, Go, RequestsOK, Request
<1>4. CASE Validate(r) \/ SignFail(r) \/ VerifyToken(r)
  <2>1. CASE Fail(r)
    BY <1>0, <2>1 DEF Fail, Forgotten, Idle, RequestsOK
  <2>2. CASE Validate(r) /\ ~Fail(r)
    BY <1>0, <2>2 DEF Validate, RequestsOK, Request
  <2>3. CASE VerifyToken(r) /\ ~Fail(r)
    BY <1>0, <2>3 DEF VerifyToken, Go, RequestsOK, Request
  <2> QED
    BY <1>4, <2>1, <2>2, <2>3 DEF SignFail
<1>5. CASE LookUp(r)
  <2>1. CASE Fail(r)
    BY <1>0, <2>1 DEF Fail, Forgotten, Idle, RequestsOK
  <2> QED
    BY <1>0, <1>5, <2>1
       DEF LookUp, RequestsOK, Request, Unsigned, Users!Get, Users!Present
<1>6. CASE Redeem(r) \/ Revoke(r) \/ CheckRevoked(r)
  <2>1. ASSUME Redeem(r) PROVE req'[r].info = NoUser
    BY <1>0, <2>1 DEF Redeem, Idle, RequestsOK
  <2>2. ASSUME Revoke(r) PROVE req'[r].info = NoUser
    BY <1>0, <2>2 DEF Revoke, Idle, RequestsOK
  <2>3. ASSUME CheckRevoked(r) PROVE req'[r].info = NoUser
    BY <1>0, <2>3 DEF CheckRevoked, Idle, RequestsOK
  <2> QED
    BY <1>6, <2>1, <2>2, <2>3
<1>7. CASE Crash
  BY <1>0, <1>7 DEF Crash, Forgotten, Idle, RequestsOK
<1>8. ASSUME NEW p \in Req, Serve(p), p # r PROVE req'[r] = req[r]
  BY <1>0, <1>8, OthersStay
<1> QED
  BY <1>1, <1>2, <1>3, <1>4, <1>5, <1>6, <1>7, <1>8
     DEF Next, Serve, Administer, CleanUp, Tick, vars

LEMMA FInvSays ==
  ASSUME TypeOK, TypeOK', FlowNames, FlowClaims, FlowDatabases, SignedOnce, SaysWhatWasRead,
         [Next]_vars
  PROVE SaysWhatWasRead'
<1>0. /\ RequestsOK /\ Never \notin Nat /\ now \in Nat /\ NoClaims \notin Claims
      /\ outdated \in [Req -> Nat \cup {Never, Late}] /\ Never # Late
  BY DEF TypeOK, TablesOK, FlowNames, FlowClaims
<1> SUFFICES ASSUME NEW r \in Req, req'[r].info # NoUser
             PROVE /\ outdated'[r] = Never => ~Disagrees(req'[r].info, req'[r].user, users')
                   /\ token'[r] # NoClaims =>
                        token'[r].sub = req'[r].user /\ token'[r].groups = req'[r].info.groups
  BY DEF SaysWhatWasRead, Copied, Disagrees
<1>1. CASE /\ req'[r].info = users[req'[r].user] /\ users[req'[r].user] # NoUser
           /\ req[r].pc \in Unsigned /\ UNCHANGED <<users, token, outdated>>
  BY <1>1 DEF Disagrees, SignedOnce
<1>2. CASE req'[r].info = req[r].info /\ req'[r].user = req[r].user
  <2>1. Copied(r)
    BY <1>2 DEF Copied
  <2>2. outdated'[r] = Never => ~Disagrees(req[r].info, req[r].user, users')
    <3>1. CASE UNCHANGED <<users, outdated>>
      BY <2>1, <3>1 DEF SaysWhatWasRead, Disagrees
    <3>2. CASE Administer
      BY <1>0, <2>1, <3>2 DEF Administer, Outdate
    <3> QED
      BY <3>1, <3>2
         DEF Next, Serve, AuthWithSession, AuthWithLogin, OpenSession, Validate, LookUp, Sign,
             SignFail, CreateCode, Redeem, RedeemFail, Answer, Revoke, CheckRevoked,
             VerifyToken, CleanUp, Tick, Crash, vars, history
  <2>3. token'[r] # NoClaims =>
          token'[r].sub = req[r].user /\ token'[r].groups = req[r].info.groups
    <3>1. CASE token'[r] = token[r]
      BY <2>1, <3>1 DEF SaysWhatWasRead
    <3>2. CASE Sign(r)
      BY <1>0, <3>2 DEF Sign, RequestsOK
    <3>3. ASSUME NEW p \in Req, p # r, Sign(p) PROVE token'[r] = token[r]
      BY <1>0, <3>3 DEF Sign, RequestsOK
    <3> QED
      BY <3>1, <3>2, <3>3
         DEF Next, Serve, AuthWithSession, AuthWithLogin, OpenSession, Validate, LookUp,
             SignFail, CreateCode, Redeem, RedeemFail, Answer, Revoke, CheckRevoked,
             VerifyToken, Administer, CleanUp, Tick, Crash, vars
  <2> QED
    BY <1>2, <2>2, <2>3
<1> QED
  BY <1>1, <1>2, CopySteps

\* An answer that was given stays given.
LEMMA OkStays ==
  ASSUME TypeOK, [Next]_vars, NEW r \in Req, At(r, "ok")
  PROVE req'[r] = req[r]
<1>0. RequestsOK
  BY DEF TypeOK
<1>1. ASSUME NEW p \in Req, Serve(p) PROVE req'[r] = req[r]
  <2>1. p # r
    BY <1>1
       DEF At, Serve, AuthWithSession, AuthWithLogin, OpenSession, Validate, LookUp, Sign,
           SignFail, CreateCode, Redeem, RedeemFail, Answer, Revoke, CheckRevoked, VerifyToken
  <2> QED
    BY <1>0, <1>1, <2>1, OthersStay
<1>2. CASE Crash
  BY <1>2 DEF Crash, InFlight, At, Ended
<1> QED
  BY <1>1, <1>2 DEF Next, Administer, CleanUp, Tick, vars

\* The handlers that do not answer yet, or answer with an error.
LEMMA Unanswered ==
  ASSUME TypeOK, NEW r \in Req,
         AuthWithSession(r) \/ AuthWithLogin(r) \/ OpenSession(r) \/ Validate(r)
           \/ LookUp(r) \/ SignFail(r) \/ RedeemFail(r)
  PROVE req'[r].pc \in {"session", "validate", "lookup", "sign", "fail"}
<1>0. RequestsOK
  BY DEF TypeOK
<1>1. Fail(r) => req'[r].pc = "fail"
  BY <1>0, ForgottenIsWellFormed DEF Fail, RequestsOK
<1>2. CASE AuthWithSession(r)
  BY <1>0, <1>2 DEF AuthWithSession, Idle, RequestsOK
<1>3. CASE AuthWithLogin(r)
  BY <1>0, <1>3 DEF AuthWithLogin, Idle, RequestsOK
<1>4. CASE OpenSession(r)
  BY <1>0, <1>4 DEF OpenSession, Go, RequestsOK, Request
<1>5. CASE Validate(r) /\ ~Fail(r)
  BY <1>0, <1>5 DEF Validate, RequestsOK, Request
<1>6. CASE LookUp(r) /\ ~Fail(r)
  BY <1>0, <1>6 DEF LookUp, RequestsOK, Request
<1>7. CASE RedeemFail(r)
  BY <1>0, <1>7 DEF RedeemFail, Idle, RequestsOK
<1> QED
  BY <1>1, <1>2, <1>3, <1>4, <1>5, <1>6, <1>7 DEF SignFail

LEMMA FInvCopied ==
  ASSUME TypeOK, TypeOK', FlowDatabases, AnsweredCopied, [Next]_vars
  PROVE AnsweredCopied'
<1> USE DEF At
<1>0. RequestsOK /\ RequestsOK' /\ NoUser \notin Users!UserInfo
  BY DEF TypeOK, FlowDatabases
<1> SUFFICES ASSUME NEW r \in Req, req'[r].pc = "ok", req'[r].kind \in {"code", "id_token"}
             PROVE req'[r].info # NoUser
  BY DEF AnsweredCopied, Copied
<1>1. CASE req'[r] = req[r]
  BY <1>1 DEF AnsweredCopied, Copied
<1>2. CASE Sign(r) \/ CreateCode(r)
  <2>1. req[r].info \in Users!UserInfo /\ req'[r].info = req[r].info
    BY <1>0, <1>2 DEF Sign, CreateCode, Go, RequestsOK, Request, WellFormed
  <2> QED
    BY <1>0, <2>1
<1>3. CASE Answer(r) \/ VerifyToken(r)
  <2>1. req[r].kind \in {"token", "userinfo"}
    BY <1>0, <1>3 DEF Answer, VerifyToken, RequestsOK, Request, WellFormed, Sections, Ended
  <2>2. ~Fail(r)
    BY <1>0, ForgottenIsWellFormed DEF Fail, RequestsOK
  <2>3. req'[r].kind = req[r].kind
    BY <1>0, <1>3, <2>2 DEF Answer, VerifyToken, Go, RequestsOK, Request
  <2> QED
    BY <2>1, <2>3
<1>4. CASE Revoke(r)
  BY <1>0, <1>4 DEF Revoke, Idle, RequestsOK
<1>5. CASE CheckRevoked(r)
  BY <1>0, <1>5 DEF CheckRevoked, Idle, RequestsOK
<1>6. CASE Redeem(r)
  BY <1>0, <1>6 DEF Redeem, Idle, RequestsOK
<1>7. ASSUME AuthWithSession(r) \/ AuthWithLogin(r) \/ OpenSession(r) \/ Validate(r)
               \/ LookUp(r) \/ SignFail(r) \/ RedeemFail(r)
      PROVE FALSE
  BY <1>7, Unanswered
<1>8. CASE Crash
  BY <1>0, <1>1, <1>8, ForgottenIsWellFormed DEF Crash
<1>9. ASSUME NEW p \in Req, Serve(p), p # r PROVE req'[r] = req[r]
  BY <1>0, <1>9, OthersStay
<1> QED
  BY <1>1, <1>2, <1>3, <1>4, <1>5, <1>6, <1>7, <1>8, <1>9
     DEF Next, Serve, Administer, CleanUp, Tick, vars

LEMMA FInvPresent ==
  ASSUME TypeOK, TypeOK', AnsweredCopied, OthersPresent, [Next]_vars
  PROVE OthersPresent'
<1> USE DEF At
<1>0. RequestsOK /\ RequestsOK'
  BY DEF TypeOK
<1>1. \A t \in Req : Signer(t) => Signer(t)'
  <2> SUFFICES ASSUME NEW t \in Req, Signer(t) PROVE Signer(t)'
    OBVIOUS
  <2>1. req'[t] = req[t]
    BY OkStays DEF Signer
  <2> QED
    BY <2>1 DEF Signer, Copied
<1>2. \A t \in Handed \cup Held : t \in Req /\ Signer(t)
  BY DEF Handed, Held, Signer, AnsweredCopied, OthersPresent
<1> SUFFICES ASSUME NEW r \in Req,
                    req'[r].pc \in {"answer", "verify"}
                      \/ (req'[r].pc = "ok" /\ req'[r].kind = "token")
             PROVE \E t \in Req : req'[r].about = t /\ Signer(t)
  BY <1>1 DEF OthersPresent, Signer, Copied
<1>3. CASE req'[r] = req[r]
  BY <1>3 DEF OthersPresent
<1>4. CASE Redeem(r)
  BY <1>0, <1>2, <1>4 DEF Redeem, Idle, RequestsOK
<1>5. CASE CheckRevoked(r)
  BY <1>0, <1>2, <1>5 DEF CheckRevoked, Idle, RequestsOK
<1>6. CASE Answer(r)
  BY <1>0, <1>6 DEF Answer, Go, RequestsOK, Request, OthersPresent
<1>7. ~Fail(r)
  BY <1>0, ForgottenIsWellFormed DEF Fail, RequestsOK
<1>8. CASE VerifyToken(r) \/ Sign(r) \/ CreateCode(r)
  <2>1. req[r].kind # "token"
    BY <1>0, <1>8 DEF VerifyToken, Sign, CreateCode, RequestsOK, Request, WellFormed, Sections, Ended
  <2>2. req'[r].kind = req[r].kind /\ req'[r].pc \in {"ok", "create"}
    BY <1>0, <1>7, <1>8 DEF VerifyToken, Sign, CreateCode, Go, RequestsOK, Request
  <2> QED
    BY <2>1, <2>2
<1>9. CASE Revoke(r)
  BY <1>0, <1>9 DEF Revoke, Idle, RequestsOK
<1>10. ASSUME AuthWithSession(r) \/ AuthWithLogin(r) \/ OpenSession(r) \/ Validate(r)
                \/ LookUp(r) \/ SignFail(r) \/ RedeemFail(r)
       PROVE FALSE
  BY <1>10, Unanswered
<1>11. CASE Crash
  BY <1>0, <1>3, <1>11, ForgottenIsWellFormed DEF Crash
<1>12. ASSUME NEW p \in Req, Serve(p), p # r PROVE req'[r] = req[r]
  BY <1>0, <1>12, OthersStay
<1> QED
  BY <1>3, <1>4, <1>5, <1>6, <1>8, <1>9, <1>10, <1>11, <1>12
     DEF Next, Serve, Administer, CleanUp, Tick, vars

ClaimsInv == SaysWhatWasRead /\ AnsweredCopied /\ OthersPresent

\* What userinfo answers is what the database says, or what it said no longer ago
\* than a token lasts, however long the code lay about before it was redeemed;
\* only a token that was signed after the change goes on for longer
\* (routes/oidc.go:290).
THEOREM OldClaimsFade == Spec => OutdatedClaimsFade
<1> DEFINE A == \A r \in Req :
                  LET t == req[r].about IN
                  At(r, "verify") /\ req'[r].pc = "ok" =>
                    \/ ~Disagrees(token[t], token[t].sub, users)
                    \/ outdated[t] = Late
                    \/ outdated[t] \in Nat /\ now <= outdated[t] + IDTokenTTL
<1>1. TypeOK /\ OutdatedAfter /\ ClaimsInv /\ [Next]_vars => [A]_vars
  <2> SUFFICES ASSUME TypeOK, OutdatedAfter, ClaimsInv, [Next]_vars, NEW r \in Req,
                      At(r, "verify"), req'[r].pc = "ok"
               PROVE LET t == req[r].about IN
                       \/ ~Disagrees(token[t], token[t].sub, users)
                       \/ outdated[t] = Late
                       \/ outdated[t] \in Nat /\ now <= outdated[t] + IDTokenTTL
    BY DEF A
  <2> DEFINE t == req[r].about
  <2>0. /\ t \in Req /\ token[t] # NoClaims /\ token[t].iat \in Nat
        /\ {now, IDTokenTTL} \subseteq Nat /\ outdated[t] \in Nat \cup {Never, Late}
    BY FlowAssumption
       DEF At, TypeOK, TablesOK, RequestsOK, WellFormed, Claims, FlowAssumption
  <2>1. VerifyToken(r)
    BY VerifiedByOneself
  <2>2. Accepts(t)
    BY <2>1, ForgottenIsWellFormed DEF VerifyToken, Fail, TypeOK, RequestsOK
  <2>3. Signer(t)
    BY <2>1 DEF VerifyToken, At, ClaimsInv, OthersPresent
  <2>4. outdated[t] = Never => ~Disagrees(token[t], token[t].sub, users)
    BY <2>0, <2>3 DEF Signer, ClaimsInv, SaysWhatWasRead, Disagrees
  <2> QED
    BY <2>0, <2>2, <2>4 DEF OutdatedAfter, Accepts
<1>2. Init => ClaimsInv
  BY IdleIsRequest DEF Init, ClaimsInv, SaysWhatWasRead, AnsweredCopied, OthersPresent, At, Copied
<1>3. TypeOK /\ TypeOK' /\ SignedOnce /\ ClaimsInv /\ [Next]_vars => ClaimsInv'
  BY FInvSays, FInvCopied, FInvPresent, FlowNames, FlowClaims, FlowDatabases DEF ClaimsInv
<1> QED
  BY <1>1, <1>2, <1>3, AlwaysTimed, PTL DEF Spec, OutdatedClaimsFade

(***************************************************************************)
(* Codes.  TakenIsGone is the strengthening: whoever took a code took it   *)
(* out of the table, and no code is born twice.                            *)
(***************************************************************************)
TakenIsGone == \A r, c \in Req : Took(r, c) => codes[c] = Gone

LEMMA TokenKindAt ==
  ASSUME RequestsOK, NEW r \in Req,
         req[r].pc \in {"idle", "session", "validate", "lookup", "sign", "create", "verify"}
  PROVE req[r].kind # "token"
  BY DEF RequestsOK, Request, WellFormed, Sections, Ended

LEMMA FailTook ==
  ASSUME RequestsOK, NEW r \in Req, Fail(r), req[r].pc # "answer"
  PROVE req'[r].kind # "token"
  BY DEF RequestsOK, Fail, Forgotten, Idle

LEMMA TookSame ==
  ASSUME TypeOK, FlowNames, FlowClaims, FlowDatabases, [Next]_vars,
         ~(\E r \in Req : Redeem(r)), NEW r \in Req, NEW c \in Req
  PROVE Took(r, c)' <=> Took(r, c)
<1> USE DEF At
<1>0. RequestsOK /\ NoReq \notin Req
  BY DEF TypeOK, FlowNames, Id
<1>1. RequestsOK'
  BY RequestsStep
<1>2. req'[r].pc \in {"session", "validate", "lookup", "sign", "create", "verify"} =>
        req'[r].kind # "token"
  BY <1>1 DEF RequestsOK, Request, WellFormed, Sections, Ended
<1>3. CASE AuthWithSession(r) \/ AuthWithLogin(r) \/ OpenSession(r)
  <2>1. req[r].kind # "token"
    BY <1>0, <1>3, TokenKindAt DEF AuthWithSession, AuthWithLogin, OpenSession
  <2>2. req'[r].pc \in {"session", "validate", "lookup"}
    <3>1. CASE AuthWithSession(r)
      BY <1>0, <3>1 DEF AuthWithSession, Idle, RequestsOK
    <3>2. CASE AuthWithLogin(r)
      BY <1>0, <3>2 DEF AuthWithLogin, Idle, RequestsOK
    <3>3. CASE OpenSession(r)
      BY <1>0, <3>3 DEF OpenSession, Go, RequestsOK, Request
    <3> QED
      BY <1>3, <3>1, <3>2, <3>3
  <2> QED
    BY <1>2, <2>1, <2>2 DEF Took
<1>4. CASE Validate(r) \/ LookUp(r) \/ SignFail(r)
  <2>1. req[r].kind # "token" /\ req[r].pc # "answer"
    BY <1>0, <1>4, TokenKindAt DEF Validate, LookUp, SignFail
  <2>2. Fail(r) \/ req'[r].pc = "sign"
    <3>1. ASSUME Validate(r) PROVE Fail(r) \/ req'[r].pc = "sign"
      BY <1>0, <3>1 DEF Validate, RequestsOK, Request
    <3>2. ASSUME LookUp(r) PROVE Fail(r) \/ req'[r].pc = "sign"
      BY <1>0, <3>2 DEF LookUp, RequestsOK, Request
    <3> QED
      BY <1>4, <3>1, <3>2 DEF SignFail
  <2> QED
    BY <1>0, <1>2, <2>1, <2>2, FailTook DEF Took
<1>5. CASE Sign(r) \/ CreateCode(r) \/ Answer(r)
  <2>1. req'[r].kind = req[r].kind /\ req'[r].about = req[r].about
    BY <1>0, <1>5 DEF Sign, CreateCode, Answer, Go, RequestsOK, Request
  <2> QED
    BY <2>1 DEF Took
<1>6. CASE RedeemFail(r) \/ Revoke(r) \/ CheckRevoked(r)
  <2>1. req[r].kind # "token"
    BY <1>0, <1>6, TokenKindAt DEF RedeemFail, Revoke, CheckRevoked
  <2>2. req'[r].kind \in {"revoke", "userinfo"} \/ req'[r].about = NoReq
    <3>1. CASE RedeemFail(r)
      BY <1>0, <3>1 DEF RedeemFail, Idle, RequestsOK
    <3>2. CASE Revoke(r)
      BY <1>0, <3>2 DEF Revoke, Idle, RequestsOK
    <3>3. CASE CheckRevoked(r)
      BY <1>0, <3>3 DEF CheckRevoked, Idle, RequestsOK
    <3> QED
      BY <1>6, <3>1, <3>2, <3>3
  <2> QED
    BY <1>0, <2>1, <2>2 DEF Took
<1>7. CASE VerifyToken(r)
  <2>1. req[r].kind # "token" /\ req[r].pc # "answer"
    BY <1>0, <1>7, TokenKindAt DEF VerifyToken
  <2>2. Fail(r) \/ req'[r].kind = req[r].kind
    BY <1>0, <1>7 DEF VerifyToken, Go, RequestsOK, Request
  <2> QED
    BY <1>0, <2>1, <2>2, FailTook DEF Took
<1>8. CASE Crash
  <2>1. \/ req'[r] = req[r]
        \/ req'[r] = Forgotten(req[r], "lost") /\ InFlight(r)
    BY <1>8 DEF Crash
  <2>2. ASSUME InFlight(r), req[r].pc # "answer" PROVE req[r].kind # "token"
    BY <1>0, <2>2 DEF InFlight, RequestsOK, Request, WellFormed, Sections, Ended
  <2>3. ASSUME req[r].pc = "answer" PROVE req[r].kind = "token"
    BY <1>0, <2>3 DEF RequestsOK, Request, WellFormed, Sections, Ended
  <2>4. CASE req[r].pc = "answer" /\ req'[r] = Forgotten(req[r], "lost")
    <3>1. req'[r].kind = "token" /\ req'[r].about = req[r].about
      BY <2>4 DEF Forgotten, Idle
    <3> QED
      BY <2>3, <2>4, <3>1 DEF Took
  <2>5. CASE req[r].pc # "answer" /\ req'[r] = Forgotten(req[r], "lost") /\ InFlight(r)
    <3>1. req'[r].kind = "none"
      BY <2>5 DEF Forgotten, Idle
    <3> QED
      BY <2>2, <2>5, <3>1 DEF Took
  <2> QED
    BY <2>1, <2>4, <2>5 DEF Took
<1>9. CASE req'[r] = req[r]
  BY <1>9 DEF Took
<1>10. ASSUME NEW p \in Req, Serve(p), p # r PROVE req'[r] = req[r]
  BY <1>0, <1>10, OthersStay
<1> QED
  BY <1>3, <1>4, <1>5, <1>6, <1>7, <1>8, <1>9, <1>10
     DEF Next, Serve, Administer, CleanUp, Tick, vars

\* What the four operations of the store do to a code.
LEMMA CodeSteps ==
  ASSUME [Next]_vars, codes' # codes
  PROVE \/ \E r \in Req : CreateCode(r) \/ Redeem(r)
        \/ CleanUp /\ Codes!CleanUp
        \/ Crash
  BY DEF Next, Serve, AuthWithSession, AuthWithLogin, OpenSession, Validate, LookUp, Sign,
         SignFail, RedeemFail, Answer, Revoke, CheckRevoked, VerifyToken, Administer, CleanUp,
         Tick, vars

\* What is gone stays gone.
LEMMA GoneStays ==
  ASSUME TypeOK, FlowNames, [Next]_vars, NEW c \in Req, codes[c] = Gone
  PROVE codes'[c] = Gone
<1>0. codes \in [Req -> Codes!Entry \cup {Unborn, Gone}] /\ Unborn # Gone
  BY DEF TypeOK, TablesOK, Codes!TypeOK, FlowNames
<1>1. ASSUME NEW r \in Req, CreateCode(r) PROVE codes'[c] = Gone
  BY <1>0, <1>1 DEF CreateCode, Codes!Create, Codes!StaleSets, Codes!Stored
<1>2. ASSUME NEW r \in Req, Redeem(r) PROVE codes'[c] = Gone
  BY <1>0, <1>2 DEF Redeem, Codes!Pop
<1>3. CASE Codes!CleanUp
  BY <1>0, <1>3 DEF Codes!CleanUp
<1>4. CASE Crash
  BY <1>0, <1>4 DEF Crash, Codes!Forget
<1>5. CASE codes' = codes
  BY <1>5
<1> QED
  BY <1>1, <1>2, <1>3, <1>4, <1>5, CodeSteps

LEMMA InitCodes == Init /\ FlowNames => TakenIsGone /\ Promise!OInit
<1> SUFFICES ASSUME Init, FlowNames PROVE TakenIsGone /\ Promise!OInit
  OBVIOUS
<1>1. \A r, c \in Req : ~Took(r, c)
  BY IdleIsRequest DEF Init, Took
<1>2. \A c \in Req : codes[c] = Unborn /\ ~Codes!Stored(c)
  BY DEF Init, Codes!Stored
<1> QED
  BY <1>1, <1>2 DEF TakenIsGone, Promise!OInit, Issued, LiveCodes, Born, Init

Takes == {p \in Req \X Req : Took(p[1], p[2])}

\* The step of the abstract specification that each step of the handlers makes.
LEMMA StepCodes ==
  ASSUME FlowAssumption, FlowNames, FlowClaims, FlowDatabases, FlowEntries,
         TypeOK, TakenIsGone, [Next]_vars
  PROVE TakenIsGone' /\ [Promise!ONext]_Promise!ovars
<1>0. /\ codes \in [Req -> Codes!Entry \cup {Unborn, Gone}] /\ now \in Nat
      /\ Unborn # Gone /\ Unborn \notin Codes!Entry /\ Gone \notin Codes!Entry
      /\ CodeTTL \in Nat \ {0} /\ RequestsOK
  BY DEF TypeOK, TablesOK, Codes!TypeOK, FlowNames, FlowEntries, FlowAssumption
<1>1. \A c \in Req : Codes!Stored(c) <=> codes[c] \in Codes!Entry
  BY <1>0 DEF Codes!Stored
<1>2. \A c \in Req : codes[c] \in Codes!Entry => codes[c].at \in Nat
  BY DEF Codes!Entry
<1>3. ASSUME NEW r \in Req, CreateCode(r)
      PROVE TakenIsGone' /\ Promise!Issue(r)
  <2> DEFINE x == [token |-> r, at |-> now]
  <2>1. PICK D \in Codes!StaleSets :
          codes' = [c \in Req |-> IF c = r THEN x ELSE IF c \in D THEN Gone ELSE codes[c]]
    BY <1>3 DEF CreateCode, Codes!Create
  <2>2. codes[r] = Unborn /\ now' = now
    BY <1>3 DEF CreateCode, Codes!Create, clock
  <2>3. x \in Codes!Entry /\ x.at = now
    BY <1>0 DEF Codes!Entry
  <2>4. /\ D \subseteq LiveCodes
        /\ \A c \in D : now - Born[c] >= CodeTTL
        /\ \A c \in LiveCodes \ D : now - Born[c] <= CodeTTL
    BY <1>0, <1>1, <1>2, <2>1 DEF Codes!StaleSets, Codes!Age, LiveCodes, Born
  <2>5. r \notin D
    BY <1>0, <1>1, <2>2, <2>4 DEF LiveCodes
  <2> HIDE DEF x
  <2>6. \A c \in Req :
          Codes!Stored(c)' <=> c = r \/ (c \notin D /\ Codes!Stored(c))
    BY <1>0, <2>1, <2>3 DEF Codes!Stored
  <2>7. Issued' = Issued \cup {r} /\ r \notin Issued
    BY <1>0, <2>1, <2>2, <2>3, <2>4, <1>1 DEF Issued, LiveCodes
  <2>8. LiveCodes' = (LiveCodes \ D) \cup {r}
    BY <2>5, <2>6 DEF LiveCodes
  <2>9. Born' = [Promise!Forgotten(D) EXCEPT ![r] = now]
    BY <2>1, <2>3, <2>4, <2>5, <2>6 DEF Born, Promise!Forgotten
  <2>10. ~(\E p \in Req : Redeem(p))
    <3> SUFFICES ASSUME NEW p \in Req, Redeem(p) PROVE FALSE
      OBVIOUS
    <3>1. \E c \in Req : codes'[c] = Gone /\ Codes!Stored(c) /\ c # r /\ codes'[r] = Unborn
      BY <1>0, <1>1, <2>2, HandedSigned DEF Redeem, Codes!Pop
    <3> QED
      BY <1>0, <2>1, <2>3, <3>1
  <2>11. \A p, c \in Req : Took(p, c)' <=> Took(p, c)
    BY <2>10, TookSame
  <2>12. TakenIsGone'
    BY <2>11, GoneStays DEF TakenIsGone
  <2>13. Takes' = Takes
    BY <2>11 DEF Takes
  <2> QED
    BY <1>0, <2>2, <2>4, <2>7, <2>8, <2>9, <2>12, <2>13
       DEF Promise!Issue, Promise!Lapsed, Takes
<1>4. ASSUME NEW r \in Req, Redeem(r)
      PROVE TakenIsGone' /\ \E c \in Req : Promise!Take(r, c)
  <2>1. PICK c \in Req :
          /\ Codes!Stored(c) /\ codes' = [codes EXCEPT ![c] = Gone]
          /\ req' = [req EXCEPT ![r] = [Idle EXCEPT !.pc = "answer", !.kind = "token", !.about = c]]
    BY <1>0, <1>4, HandedSigned DEF Redeem, Codes!Pop
  <2> DEFINE q == [Idle EXCEPT !.pc = "answer", !.kind = "token", !.about = c]
  <2>2. q.kind = "token" /\ q.about = c
    BY DEF Idle
  <2>3. req[r].kind # "token" /\ now' = now
    BY <1>0, <1>4, TokenKindAt DEF Redeem, At, clock
  <2>4. codes[c] # Gone /\ codes[c] # Unborn /\ codes'[c] = Gone /\ ~Codes!Stored(c)'
    BY <1>0, <2>1 DEF Codes!Stored
  <2>5. \A d \in Req : d # c => codes'[d] = codes[d] /\ (Codes!Stored(d)' <=> Codes!Stored(d))
    BY <1>0, <2>1 DEF Codes!Stored
  <2> HIDE DEF q
  <2>6. req'[r] = q /\ \A p \in Req : p # r => req'[p] = req[p]
    BY <1>0, <2>1 DEF RequestsOK, q
  <2>7. \A p, d \in Req : Took(p, d)' <=> Took(p, d) \/ (p = r /\ d = c)
    BY <2>2, <2>3, <2>6 DEF Took
  <2>8. (\A p \in Req : ~Took(p, c)) /\ (\A d \in Req : ~Took(r, d))
    BY <2>3, <2>4 DEF TakenIsGone, Took
  <2>9. TakenIsGone'
    BY <2>4, <2>5, <2>7 DEF TakenIsGone
  <2>10. Takes' = Takes \cup {<<r, c>>}
    BY <2>7 DEF Takes
  <2>11. /\ \A p \in Req : <<p, c>> \notin Takes
         /\ \A d \in Req : <<r, d>> \notin Takes
    BY <2>8 DEF Takes
  <2>12. Issued' = Issued
    BY <1>0, <2>4, <2>5 DEF Issued
  <2>13. c \in LiveCodes /\ LiveCodes' = LiveCodes \ {c}
    BY <2>1, <2>4, <2>5 DEF LiveCodes
  <2>14. Born' = Promise!Forgotten({c})
    BY <2>4, <2>5 DEF Born, Promise!Forgotten
  <2> QED
    BY <2>3, <2>9, <2>10, <2>11, <2>12, <2>13, <2>14 DEF Promise!Take, Takes
<1>5. ASSUME ~(\E r \in Req : CreateCode(r) \/ Redeem(r))
      PROVE TakenIsGone' /\ (Promise!Lapse \/ Promise!Reset \/ Promise!Advance
                              \/ UNCHANGED Promise!ovars)
  <2>1. \A p, c \in Req : Took(p, c)' <=> Took(p, c)
    BY <1>5, TookSame
  <2>2. TakenIsGone' /\ Takes' = Takes
    BY <2>1, GoneStays DEF TakenIsGone, Takes
  <2>3. CASE Codes!CleanUp /\ now' = now
    <3>1. PICK D \in Codes!StaleSets :
            codes' = [c \in Req |-> IF c \in D THEN Gone ELSE codes[c]]
      BY <2>3 DEF Codes!CleanUp
    <3>2. D \subseteq LiveCodes /\ \A c \in D : now - Born[c] >= CodeTTL
      BY <1>0, <1>1, <1>2, <3>1 DEF Codes!StaleSets, Codes!Age, LiveCodes, Born
    <3>3. \A c \in Req : Codes!Stored(c)' <=> c \notin D /\ Codes!Stored(c)
      BY <3>1 DEF Codes!Stored
    <3>4. Issued' = Issued
      BY <1>0, <1>1, <3>1, <3>2 DEF Issued, LiveCodes
    <3>5. LiveCodes' = LiveCodes \ D /\ Born' = Promise!Forgotten(D)
      BY <3>1, <3>2, <3>3 DEF LiveCodes, Born, Promise!Forgotten
    <3> QED
      BY <2>2, <2>3, <3>2, <3>4, <3>5 DEF Promise!Lapse, Promise!Lapsed, Takes
  <2>4. CASE Crash
    <3>1. codes' = [c \in Req |-> IF Codes!Stored(c) THEN Gone ELSE codes[c]] /\ now' = now
      BY <2>4 DEF Crash, Codes!Forget
    <3>2. \A c \in Req : ~Codes!Stored(c)' /\ (codes'[c] = Unborn <=> codes[c] = Unborn)
      BY <1>0, <3>1 DEF Codes!Stored
    <3>3. Issued' = Issued /\ LiveCodes' = {}
      BY <3>2 DEF Issued, LiveCodes
    <3>4. Born' = Promise!Forgotten(LiveCodes)
      BY <3>2 DEF Born, Promise!Forgotten, LiveCodes
    <3> QED
      BY <2>2, <3>1, <3>3, <3>4 DEF Promise!Reset, Takes
  <2>5. CASE codes' = codes
    <3>1. Issued' = Issued /\ LiveCodes' = LiveCodes /\ Born' = Born
      BY <2>5 DEF Issued, LiveCodes, Born, Codes!Stored
    <3>2. now' = now \/ now' = now + 1
      BY DEF Next, Serve, AuthWithSession, AuthWithLogin, OpenSession, Validate, LookUp, Sign,
             SignFail, CreateCode, Redeem, RedeemFail, Answer, Revoke, CheckRevoked, VerifyToken,
             Administer, CleanUp, Tick, Crash, vars, clock
    <3> QED
      BY <2>2, <3>1, <3>2 DEF Promise!Advance, Promise!ovars, Takes
  <2>6. CleanUp => now' = now
    BY DEF CleanUp, clock
  <2> QED
    BY <1>5, <2>2, <2>3, <2>4, <2>5, <2>6, CodeSteps
<1> QED
  BY <1>3, <1>4, <1>5 DEF Promise!ONext

\* Codes keep the promise of OneTimeCodes for any number of requests: one use
\* for good, a lifetime, and no expired code after the next one is created
\* (codestore.go:56 and 76, routes/oidc.go:198).
THEOREM FlowImplementsOneTimeCodes == Spec => ImplementsOneTimeCodes
<1>1. Init => TakenIsGone /\ Promise!OInit
  BY InitCodes, FlowNames
<1>2. TypeOK /\ TakenIsGone /\ [Next]_vars => TakenIsGone' /\ [Promise!ONext]_Promise!ovars
  BY StepCodes, FlowAssumption, FlowNames, FlowClaims, FlowDatabases, FlowEntries
<1> QED
  BY <1>1, <1>2, FlowTypes, PTL DEF Spec, ImplementsOneTimeCodes, Promise!OSpec
=============================================================================
