SPECIFICATION FairSpec
CONSTANTS
  Configs <- SomeConfigs
  Key = {k1, k2, k3}
  NoKey = NoKey
  Path = {signingKeyJson, otherPath}
  DefaultPath = signingKeyJson
  otherPath = otherPath
  NoPath = NoPath
  Missing = Missing
  Torn = Torn
  UserId = {u1, u2}
  u1 = u1
  Name = {ann, ben, broken}
  InFile <- BrokenIsBen
  ann = ann
  ben = ben
  broken = broken
  Hash = {pwd}
  pwd = pwd
  NoHash = NoHash
  Locked = Locked
  NoUser = NoUser
  NoEmail = NoEmail
  NoGroup = NoGroup
  admins = admins
  NoId = NoId
  NoUri = NoUri
  HttpUri = {appUri}
  appUri = appUri
  app = app
  Absent = Absent
  NoConfig = NoConfig
  UserFiles <- SomeUserFiles
  MaxFaults = 3
INVARIANTS
  TypeOK
  SignsWithTheKeyOnFile
PROPERTIES
  KeysAreKept
  NeverReseeded
  ServesTheFile
  StaticNeverWrites
  ComesUpAgain
  ServesAgain
CHECK_DEADLOCK FALSE
