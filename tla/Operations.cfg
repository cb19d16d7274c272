SPECIFICATION Spec
CONSTANTS
  Req = {r1, r2, r3}
  Seed = {alice, bob}
  Name = {alice, bob, fresh}
  Email = {mailA, mailB}
  NoEmail = NoEmail
  InFile <- BrokenIsFresh
  Group = {admins}
  UserAdminGroup = admins
  NoGroup = NoGroup
  Locked = Locked
  PresetNames = {alice}
  Preset = Preset
  NoUser = NoUser
  NoToken = NoToken
  NoReq = NoReq
  Unborn = Unborn
  Gone = Gone
  Consumed = Consumed
  SelfRegistration = TRUE
  AllowBootstrap = FALSE
  Static = FALSE
  Persistent = TRUE
  TTL = 0
  MaxNow = 0
  MaxCrashes = 1
  FormGroups <- AnyGroups
  alice = alice
  bob = bob
  fresh = fresh
  broken = broken
  mailA = mailA
  mailB = mailB
  Databases <- UserOrNobody
  Kinds = {"adelete","agroups","aregister","register","areset","change","login","logout","alink","setpw"}
SYMMETRY RequestSymmetry
INVARIANTS
  AckedDeleteIsFinal
  DeletesStick
  EmailsUnique
  ChangesAreAuthorized
  AckedDurable
  OldPasswordRetired
  StaleSessionsExplained
PROPERTIES
  LastAdminFallsToStaleCaller
  ImplementsDurableLog
CHECK_DEADLOCK FALSE
