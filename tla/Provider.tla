------------------------------ MODULE Provider -------------------------------
(***************************************************************************)
(* The rules of pkg/oidc that say which requests the provider accepts.     *)
(* They read the configured clients and nothing else.  Client ids,         *)
(* redirect URIs, secrets, scopes, response and grant types are abstract   *)
(* values that are only compared, as in the code.  A rule returns Accepted *)
(* or the error the code returns.                                          *)
(***************************************************************************)
EXTENDS Naturals, Sequences

CONSTANTS
  Clients,     \* the list of configured clients
  NoUri,       \* the empty redirectUri
  NoTokenSent  \* the empty token parameter

Accepted == "accepted"

Client(Id, Uri, Secret) ==
  [id : Id, redirectUri : Uri \cup {NoUri}, redirectUris : Seq(Uri), clientSecret : Secret]

\* The set that allowsRedirect searches: redirectUri, if set, and redirectUris.
Registered(c) ==
  {u \in {c.redirectUri} : u # NoUri} \cup {c.redirectUris[i] : i \in DOMAIN c.redirectUris}

AllowsRedirect(c, uri) == uri \in Registered(c)

Known(id) == \E i \in DOMAIN Clients : Clients[i].id = id

\* getClient: the first client of the list that has the id.
GetClient(id) ==
  Clients[CHOOSE i \in DOMAIN Clients :
            /\ Clients[i].id = id
            /\ \A j \in DOMAIN Clients : Clients[j].id = id => i <= j]

ValidateRedirect(id, uri) ==
  CASE ~Known(id) -> "access_denied"
    [] Known(id) /\ ~AllowsRedirect(GetClient(id), uri) -> "invalid_redirect_uri"
    [] OTHER -> Accepted

\* req.scope is the set of the scopes asked for.
ValidateAuthenticationRequest(req) ==
  CASE "openid" \notin req.scope -> "invalid_scope"
    [] "openid" \in req.scope /\ req.responseType \notin {"id_token", "code"} ->
         "unsupported_response_type"
    [] OTHER -> ValidateRedirect(req.client, req.uri)

Authenticates(id, secret) == Known(id) /\ GetClient(id).clientSecret = secret

ValidateTokenRequest(req) ==
  CASE req.grantType # "authorization_code" -> "unsupported_grant_type"
    [] req.grantType = "authorization_code" /\ ~Authenticates(req.client, req.secret) ->
         "invalid_client"
    [] OTHER -> IF AllowsRedirect(GetClient(req.client), req.uri)
                  THEN Accepted ELSE "invalid_grant"

ValidateRevocationRequest(req) ==
  CASE ~Authenticates(req.client, req.secret) -> "invalid_client"
    [] Authenticates(req.client, req.secret) /\ req.token = NoTokenSent -> "invalid_request"
    [] OTHER -> Accepted
=============================================================================
