\* Two tenants, one room with a seat, two requests at a time.
CONSTANTS
  NoSeat = NoSeat
  NoRow = NoRow
  Tenants = {t1, t2}
  Rooms = {r1}
  Seats = {s1}
  Bookings = {b1, b2}
  FirstVisit = {"SKIPPED"}
  RoomOf <- MCRoomOf
  total_capacity <- MCCapacity
SPECIFICATION ClaimSpec
SYMMETRY Symmetry
INVARIANTS
  LiveSeatOccupied
  OccupancyCoversTenancies
  TenancyIffGranted
  ClaimsEndTenancies
PROPERTIES
  EndedStaysEnded
  FreedByMoveOut
  SeatsAreLet
