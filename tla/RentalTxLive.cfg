\* Visits, signatures and move-outs, overlapping with bookings; every request ends.
CONSTANTS
  w1 = w1  w2 = w2  w3 = w3
  NoSeat = NoSeat
  NoRow = NoRow
  Tenants = {t1}
  Rooms = {r1}
  Seats = {s1}
  Bookings = {b1}
  FirstVisit = {"SKIPPED"}
  Workers = {w1, w2, w3}
  RoomOf <- MCRoomOf
  total_capacity <- MCCapacity
  Allowed <- AllowPaperwork
SPECIFICATION TxFairSpec
PROPERTIES
  Spec
  EveryRequestEnds
