SPECIFICATION Spec
CONSTANTS
  Token = {t1, t2, t3, t4}
  UserId = {u1, u2}
  TTL = 1
  MaxNow = 3
  NoToken = NoToken
  Unborn = Unborn
  Gone = Gone
  Consumed = Consumed
SYMMETRY TokenSymmetry
INVARIANTS
  MapsAgree
PROPERTIES
  ImplementsResetLinks
CHECK_DEADLOCK FALSE
