SPECIFICATION LiveSpec
CONSTANTS
  Workers = {w1, w2}
  Tenants = {t1, t2}
  Phones = {p1, p2}
  Burst = 1
  Rate = 1
  MaxTicks = 1
  MaxMoves = 2
  MaxRestarts = 1
INVARIANTS
  TypeOK
  OneLimiterPerKey
  PhoneRateIsBounded
PROPERTIES
  AllowReturns
CHECK_DEADLOCK FALSE
