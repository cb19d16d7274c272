SPECIFICATION Spec
CONSTANTS
  Req = {r1, r2, r3, r4}
  Seed = {alice, bob}
  Name = {alice, bob, fresh}
  Email = {mailA, mailB}
  NoEmail = NoEmail
  InFile <- BrokenIsFresh
  Group = {admins}
  UserAdminGroup = admins
  NoGroup = NoGroup
  Locked = Locked
  PresetNames = {}
  Preset = Preset
  NoUser = NoUser
  NoToken = NoToken
  NoReq = NoReq
  Unborn = Unborn
  Gone = Gone
  Consumed = Consumed
  SelfRegistration = FALSE
  AllowBootstrap = TRUE
  Static = FALSE
  Persistent = TRUE
  TTL = 0
  MaxNow = 1
  MaxCrashes = 1
  FormGroups <- AnyGroups
  alice = alice
  bob = bob
  fresh = fresh
  broken = broken
  mailA = mailA
  mailB = mailB
  Databases <- UserOrLocked
  Kinds = {"alink", "setpw", "login", "adelete"}
SYMMETRY RequestSymmetry
INVARIANTS
  PasswordsAccountedFor
  LinkSpentWhenDone
  StaleSessionsExplained
PROPERTIES
  LinkBurnedOnlyWhenDurable
CHECK_DEADLOCK FALSE
