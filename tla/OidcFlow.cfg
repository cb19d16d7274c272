SPECIFICATION Spec
CONSTANTS
  Req = {r1, r2, r3}
  Seed = {bob}
  Group = {admins}
  UserAdminGroup = admins
  NoGroup = NoGroup
  Name = {bob}
  Email = {mail}
  NoEmail = NoEmail
  Locked = Locked
  NoUser = NoUser
  NoReq = NoReq
  Unborn = Unborn
  Gone = Gone
  NotRevoked = NotRevoked
  NoClaims = NoClaims
  Never = Never
  Late = Late
  Databases <- OneAdmin
  Clients <- TwoClients
  NoUri = NoUri
  NoTokenSent = NoTokenSent
  AuthForms <- SomeAuthForms
  TokenForms <- SomeTokenForms
  RevokeForms <- SomeRevokeForms
  CodeTTL = 1
  IDTokenTTL = 1
  RevokedTTL = 2
  KeyKept = {TRUE}
  CallsCleanUp = TRUE
  MaxNow = 2
  MaxCrashes = 1
  MaxAuths = 2
  bob = bob
  app = app
  shop = shop
  appUri = appUri
  homeUri = homeUri
  shopUri = shopUri
  appSecret = appSecret
  otherSecret = otherSecret
SYMMETRY RequestSymmetry
INVARIANTS
  TypeOK
  RevocationHolds
  RevokedMeansRefused
PROPERTIES
  ImplementsOneTimeCodes
  OutdatedClaimsFade
CHECK_DEADLOCK FALSE
