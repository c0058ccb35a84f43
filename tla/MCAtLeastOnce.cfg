SPECIFICATION LiveSpec
CONSTANTS
  Tenants = {t1}
  p1 = p1
  p2 = p2
  Phones = {p1, p2}
  u1 = u1
  u2 = u2
  Users = {u1, u2}
  Payloads = {batch}
  First <- MCFirst
  Messages <- MCMessages
  NoPhone = NoPhone
  NoSession = NoSession
  MaxRetries = 5
  MaxPosts = 2
  MaxMoves = 0
  MaxMishaps = 0
PROPERTIES
  AtLeastOnce
CHECK_DEADLOCK FALSE
