\* A tenant with two bookings of one room, a notice and a complaint.
CONSTANTS
  NoSeat = NoSeat
  NoRow = NoRow
  w1 = w1
  w2 = w2
  Tenants = {t1}
  Rooms = {r1}
  Seats = {}
  Bookings = {b1, b2}
  FirstVisit = {"SKIPPED"}
  RoomOf <- MCRoomOf
  total_capacity <- MCCapacity
  Notices = {n1}
  Complaints = {c1}
  Verdicts = {"IN_PROGRESS", "RESOLVED", "CLOSED"}
  Workers = {w1, w2}
  Allowed <- AllowNoticesAndComplaints
SPECIFICATION CommunitySpec
SYMMETRY Symmetry
INVARIANTS
  CommunityTypeOK
  ComplaintOfTenant
  ResolvedStamped
PROPERTIES
  ResidentsNotified
  NoLateReceipt
