----------------------------- MODULE MCOidcFlow ------------------------------
(***************************************************************************)
(* An instance of the OpenID Connect endpoints for TLC.                    *)
(***************************************************************************)
EXTENDS OidcSafety, TLC

CONSTANTS bob, app, shop, appUri, homeUri, shopUri, appSecret, otherSecret

\* Two clients; the second registers another redirect URI alongside the first.
TwoClients ==
  <<[id |-> app, redirectUri |-> appUri, redirectUris |-> <<>>, clientSecret |-> appSecret],
    [id |-> shop, redirectUri |-> homeUri, redirectUris |-> <<shopUri>>,
     clientSecret |-> otherSecret]>>

\* The server starts with one user, an admin.
OneAdmin ==
  {[i \in Id |-> IF i = bob THEN [name |-> bob, email |-> NoEmail, pw |-> bob,
                                  groups |-> {UserAdminGroup}]
                 ELSE NoUser]}

Auth(client, uri, scope, responseType) ==
  [client |-> client, uri |-> uri, scope |-> scope, responseType |-> responseType]

\* Accepted requests of both response types, and requests that fail each rule.
SomeAuthForms ==
  {Auth(app, appUri, {"openid"}, "code"), Auth(shop, shopUri, {"openid"}, "id_token"),
   Auth(app, shopUri, {"openid"}, "code"), Auth(bob, appUri, {"openid"}, "code"),
   Auth(app, appUri, {}, "code"), Auth(app, appUri, {"openid"}, "token")}

Exchange(grantType, client, secret, uri) ==
  [grantType |-> grantType, client |-> client, secret |-> secret, uri |-> uri]

SomeTokenForms ==
  {Exchange("authorization_code", app, appSecret, appUri),
   Exchange("authorization_code", app, otherSecret, appUri),
   Exchange("authorization_code", app, appSecret, shopUri),
   Exchange("password", app, appSecret, appUri)}

Revocation(client, secret, sent) == [client |-> client, secret |-> secret, token |-> sent]

SomeRevokeForms ==
  {Revocation(shop, otherSecret, "sent"), Revocation(shop, appSecret, "sent"),
   Revocation(shop, otherSecret, NoTokenSent)}

RequestSymmetry == Permutations(Req)
=============================================================================
