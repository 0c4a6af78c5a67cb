\* Booking handlers overlapping with themselves and with one move-out at a time.
CONSTANTS
  w1 = w1  w2 = w2  w3 = w3
  NoSeat = NoSeat
  NoRow = NoRow
  Tenants = {t1, t2}
  Rooms = {r1}
  Seats = {s1}
  Bookings = {b1, b2}
  FirstVisit = {"SKIPPED"}
  Workers = {w1, w2, w3}
  RoomOf <- MCRoomOf
  total_capacity <- MCCapacity
  Allowed <- AllowOneTerminator
SPECIFICATION TxSpec
SYMMETRY Symmetry
PROPERTY Spec
