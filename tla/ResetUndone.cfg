SPECIFICATION Spec
CONSTANTS
  Req = {r1, r2}
  Seed = {alice, bob}
  Name = {alice, bob, fresh}
  Email = {mailA, mailB}
  NoEmail = NoEmail
  InFile <- BrokenIsFresh
  Group = {admins}
  UserAdminGroup = admins
  NoGroup = NoGroup
  Locked = Locked
  PresetNames = {}
  Preset = Preset
  NoUser = NoUser
  NoToken = NoToken
  NoReq = NoReq
  Unborn = Unborn
  Gone = Gone
  Consumed = Consumed
  SelfRegistration = FALSE
  AllowBootstrap = FALSE
  Static = FALSE
  Persistent = TRUE
  TTL = 0
  MaxNow = 0
  MaxCrashes = 0
  FormGroups <- AnyGroups
  alice = alice
  bob = bob
  fresh = fresh
  broken = broken
  mailA = mailA
  mailB = mailB
  Databases <- AdminAndUser
  Kinds = {"change", "areset"}
SYMMETRY RequestSymmetry
PROPERTIES
  ResetLocksOut
CHECK_DEADLOCK FALSE
