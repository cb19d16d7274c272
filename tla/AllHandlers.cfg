SPECIFICATION FairSpec
CONSTANTS
  Req = {r1, r2}
  Seed = {alice, bob}
  Name = {alice, bob, fresh, broken}
  Email = {mailA, mailB}
  NoEmail = NoEmail
  InFile <- BrokenIsFresh
  Group = {admins}
  UserAdminGroup = admins
  NoGroup = NoGroup
  Locked = Locked
  PresetNames = {}
  Preset = Preset
  NoUser = NoUser
  NoToken = NoToken
  NoReq = NoReq
  Unborn = Unborn
  Gone = Gone
  Consumed = Consumed
  SelfRegistration = FALSE
  AllowBootstrap = TRUE
  Static = FALSE
  Persistent = TRUE
  TTL = 0
  MaxNow = 1
  MaxCrashes = 1
  FormGroups <- AnyGroups
  alice = alice
  bob = bob
  fresh = fresh
  broken = broken
  mailA = mailA
  mailB = mailB
  Databases <- LockedOrNobody
  Kinds = {"login", "logout", "register", "change", "setpw", "areset", "adelete", "agroups", "aregister", "reglocked", "alink"}
INVARIANTS
  TypeOK
  OnlyGarbledNamesClash
  SavesNest
  BootstrapAdmitsOne
  FreshDeploymentManageable
PROPERTIES
  EveryRequestAnswered
CHECK_DEADLOCK FALSE
