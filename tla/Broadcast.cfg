\* Three sockets of two users, one alert.  With all of them used up, the instance stops.
CONSTANTS
  Sockets = {s1, s2, s3}
  Users = {guest, u1}
  Alerts = {a1}
  MaxLists = 3
SPECIFICATION FairSpec
INVARIANTS
  TableConsistent
  NobodyToldTwice
  CalmReachesAll
PROPERTY OnlyStalledHoldsUp
CHECK_DEADLOCK FALSE
