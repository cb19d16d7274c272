SPECIFICATION Spec
CONSTANTS
  Req = {r1, r2, r3}
  Seed = {alice, bob}
  Name = {alice, bob, fresh}
  Email = {mailA, mailB}
  NoEmail = NoEmail
  InFile <- BrokenIsFresh
  Group = {admins}
  UserAdminGroup = admins
  NoGroup = NoGroup
  Locked = Locked
  PresetNames = {}
  Preset = Preset
  NoUser = NoUser
  NoToken = NoToken
  NoReq = NoReq
  Unborn = Unborn
  Gone = Gone
  Consumed = Consumed
  SelfRegistration = TRUE
  AllowBootstrap = FALSE
  Static = FALSE
  Persistent = FALSE
  TTL = 0
  MaxNow = 0
  MaxCrashes = 1
  FormGroups <- AnyGroups
  alice = alice
  bob = bob
  fresh = fresh
  broken = broken
  mailA = mailA
  mailB = mailB
  Databases <- Nobody
  Kinds = {"register", "login", "logout", "change"}
SYMMETRY RequestSymmetry
INVARIANTS
  StaleSessionsExplained
CHECK_DEADLOCK FALSE
