\* Every operation on inventory overlapping with every other, two at a time.
CONSTANTS
  w1 = w1  w2 = w2  w3 = w3
  NoSeat = NoSeat
  NoRow = NoRow
  Tenants = {t1, t2}
  Rooms = {r1}
  Seats = {s1}
  Bookings = {b1, b2}
  FirstVisit = {"SKIPPED"}
  Workers = {w1, w2}
  RoomOf <- MCRoomOf
  total_capacity <- MCCapacity
  Allowed <- AllowInventory
SPECIFICATION TxSpec
SYMMETRY WorkerSymmetry
INVARIANTS
  TxTypeOK
  OneOpenRequest
PROPERTIES
  SeatGrantedWhileFree
  DecidedWhileOpen
