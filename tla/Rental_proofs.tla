---------------------------- MODULE Rental_proofs ----------------------------
(***************************************************************************)
(* Theorems about Rental, for every number of tenants, rooms, seats and    *)
(* requests.                                                               *)
(***************************************************************************)
EXTENDS Rental, FiniteSetTheorems, TLAPS

-----------------------------------------------------------------------------
(* Type correctness.                                                       *)

\* The row of a room that takes in or loses an occupant is a row of a room.
LEMMA RoomRowType ==
  ASSUME NEW r \in Rooms, NEW row \in RoomRow
  PROVE  OneMore(r, row) \in RoomRow /\ OneLess(row) \in RoomRow
BY RentalAssumption DEF OneMore, OneLess, RoomRow

\* Counting an occupant in or out, and marking the seat, keeps the rooms and the
\* seats well typed.
LEMMA PlaceType ==
  ASSUME TypeOK, NEW r \in Rooms, NEW s \in Seats \cup {NoSeat},
         NEW row \in RoomRow, TakePlace(r, s, row) \/ LeavePlace(r, s, row)
  PROVE  /\ room' \in [Rooms -> RoomRow \cup {NoRow}]
         /\ is_occupied' \in [Seats -> BOOLEAN \cup {NoRow}]
BY RoomRowType DEF TypeOK, TakePlace, LeavePlace

\* The row that approve and pay-advance insert is a row of a tenancy.
LEMMA NewTenancyType == NewTenancy \in TenancyRow
BY DEF NewTenancy, TenancyRow, TenancyStatus, AgreementStatus, Party

\* The operations on the property keep every row well typed.
LEMMA PropertyNextType == TypeOK /\ PropertyNext => TypeOK'
BY DEF TypeOK, PropertyNext, CreateProperty, SetPublishStatus, DeleteProperty

\* The operations on rooms and seats keep every row well typed.
LEMMA RoomNextType == TypeOK /\ RoomNext => TypeOK'
<1> SUFFICES ASSUME TypeOK, RoomNext PROVE TypeOK'
  OBVIOUS
<1>1. ASSUME NEW r \in Rooms, CreateRoom(r) PROVE TypeOK'
  BY <1>1 DEF TypeOK, CreateRoom, EmptyRoom, RoomRow
<1>2. ASSUME NEW r \in Rooms, NEW v \in BOOLEAN, UpdateRoom(r, v) PROVE TypeOK'
  BY <1>2 DEF TypeOK, UpdateRoom, RoomRow
<1>3. ASSUME NEW r \in Rooms, DeleteRoom(r) PROVE TypeOK'
  BY <1>3 DEF TypeOK, DeleteRoom, RemoveRoom
<1>4. ASSUME NEW s \in Seats, CreateSeat(s) PROVE TypeOK'
  BY <1>4 DEF TypeOK, CreateSeat
<1>5. ASSUME NEW s \in Seats, DeleteSeat(s) PROVE TypeOK'
  BY <1>5 DEF TypeOK, DeleteSeat, BookingRow
<1> QED
  BY <1>1, <1>2, <1>3, <1>4, <1>5 DEF RoomNext

\* The operations on booking requests keep every row well typed.
LEMMA BookingNextType == TypeOK /\ BookingNext => TypeOK'
<1> SUFFICES ASSUME TypeOK, BookingNext PROVE TypeOK'
  OBVIOUS
<1>1. ASSUME NEW b \in Bookings, NEW t \in Tenants, NEW r \in Rooms,
             NEW s \in Seats \cup {NoSeat}, NEW v \in FirstVisit,
             CreateBookingRequest(b, t, r, s, v)
      PROVE  TypeOK'
  BY <1>1, RentalAssumption
     DEF TypeOK, CreateBookingRequest, InsertBooking, BookingRow, BookingStatus, VisitStatus
<1>2. ASSUME NEW b \in Bookings, CancelBooking(b) PROVE TypeOK'
  BY <1>2 DEF TypeOK, CancelBooking, WriteCancelled, HasStatus, BookingRow, BookingStatus
<1>3. ASSUME NEW b \in Bookings, OwnerReject(b) PROVE TypeOK'
  BY <1>3 DEF TypeOK, OwnerReject, WriteRejected, HasStatus, BookingRow, BookingStatus
<1>4. ASSUME NEW b \in Bookings, ConfirmVisit(b) \/ MarkVisited(b) PROVE TypeOK'
  BY <1>4 DEF TypeOK, ConfirmVisit, MarkVisited, WriteVisit, BookingRow, VisitStatus
<1>5. ASSUME NEW b \in Bookings, OwnerApprove(b) PROVE TypeOK'
  <2>1. booking[b] \in BookingRow /\ room[booking[b].room] \in RoomRow
    BY <1>5 DEF TypeOK, OwnerApprove, HasStatus, BookingRow
  <2>2. TakePlace(booking[b].room, booking[b].seat, room[booking[b].room])
    BY <1>5 DEF OwnerApprove, WriteApproved
  <2>3. /\ room' \in [Rooms -> RoomRow \cup {NoRow}]
        /\ is_occupied' \in [Seats -> BOOLEAN \cup {NoRow}]
    BY <2>1, <2>2, PlaceType DEF BookingRow
  <2> QED
    BY <1>5, <2>1, <2>3, NewTenancyType
       DEF OwnerApprove, WriteApproved, TypeOK, BookingRow, BookingStatus
<1>6. ASSUME NEW b \in Bookings, PayAdvance(b) PROVE TypeOK'
  <2>1. booking[b] \in BookingRow /\ room[booking[b].room] \in RoomRow
    BY <1>6 DEF TypeOK, PayAdvance, CanPay, HasStatus, BookingRow
  <2>2. TakePlace(booking[b].room, booking[b].seat, room[booking[b].room])
    BY <1>6 DEF PayAdvance, WritePaid
  <2>3. /\ room' \in [Rooms -> RoomRow \cup {NoRow}]
        /\ is_occupied' \in [Seats -> BOOLEAN \cup {NoRow}]
    BY <2>1, <2>2, PlaceType DEF BookingRow
  <2> QED
    BY <1>6, <2>1, <2>3, NewTenancyType
       DEF PayAdvance, WritePaid, TypeOK, BookingRow, BookingStatus, VisitStatus
<1> QED
  BY <1>1, <1>2, <1>3, <1>4, <1>5, <1>6 DEF BookingNext

\* Notice, move-out and signature keep every row well typed.
LEMMA TenancyNextType ==
  TypeOK /\ ForeignKeys /\ TenancyIffGranted /\ TenancyNext => TypeOK'
<1> SUFFICES ASSUME TypeOK, ForeignKeys, TenancyIffGranted, TenancyNext PROVE TypeOK'
  OBVIOUS
<1>1. ASSUME NEW b \in Bookings, ServeNotice(b) PROVE TypeOK'
  BY <1>1 DEF TypeOK, ServeNotice, WriteNotice, TenancyIn, TenancyRow, TenancyStatus
<1>2. ASSUME NEW b \in Bookings, TerminateTenancy(b) PROVE TypeOK'
  <2>1. tenancy[b] \in TenancyRow /\ booking[b] \in BookingRow
    BY <1>2 DEF TypeOK, TerminateTenancy, Live, TenancyIn, TenancyIffGranted, HasStatus
  <2>2. room[booking[b].room] \in RoomRow
    BY <2>1, RentalAssumption DEF TypeOK, ForeignKeys, BookingRow
  <2>3. /\ room' \in [Rooms -> RoomRow \cup {NoRow}]
        /\ is_occupied' \in [Seats -> BOOLEAN \cup {NoRow}]
    BY <1>2, <2>1, <2>2, PlaceType DEF TerminateTenancy, WriteTerminated, BookingRow
  <2> QED
    BY <1>2, <2>1, <2>3
       DEF TerminateTenancy, WriteTerminated, TypeOK, TenancyRow, TenancyStatus, AgreementStatus
<1>3. ASSUME NEW b \in Bookings, NEW p \in Party, SignDigitalAgreement(b, p)
      PROVE  TypeOK'
  <2>1. tenancy[b] \in TenancyRow
    BY <1>3 DEF TypeOK, SignDigitalAgreement
  <2> QED
    BY <1>3, <2>1
       DEF SignDigitalAgreement, WriteSigned, TypeOK, TenancyRow, AgreementStatus
<1> QED
  BY <1>1, <1>2, <1>3 DEF TenancyNext

-----------------------------------------------------------------------------
(* Foreign keys, and tenancies exactly for granted requests.               *)

\* The operations on the property keep the foreign keys, and tenancies exactly
\* for granted requests: its deletion takes everything with it.
LEMMA PropertyNextRows ==
  TypeOK /\ ForeignKeys /\ TenancyIffGranted /\ PropertyNext
    => ForeignKeys' /\ TenancyIffGranted'
BY DEF TypeOK, ForeignKeys, TenancyIffGranted, HasStatus, PropertyNext,
       CreateProperty, SetPublishStatus, DeleteProperty

\* The operations on rooms and seats keep both: a room goes with its requests
\* and tenancies, a seat leaves no reference behind.
LEMMA RoomNextRows ==
  TypeOK /\ ForeignKeys /\ TenancyIffGranted /\ RoomNext
    => ForeignKeys' /\ TenancyIffGranted'
<1> SUFFICES ASSUME TypeOK, ForeignKeys, TenancyIffGranted, RoomNext
             PROVE  ForeignKeys' /\ TenancyIffGranted'
  OBVIOUS
<1>1. ASSUME NEW r \in Rooms, CreateRoom(r) PROVE ForeignKeys' /\ TenancyIffGranted'
  BY <1>1, RentalAssumption
     DEF TypeOK, ForeignKeys, TenancyIffGranted, HasStatus, CreateRoom, EmptyRoom,
         BookingRow, RoomRow
<1>2. ASSUME NEW r \in Rooms, NEW v \in BOOLEAN, UpdateRoom(r, v)
      PROVE  ForeignKeys' /\ TenancyIffGranted'
  <2>1. room'[r] # NoRow
    BY <1>2, RentalAssumption DEF TypeOK, UpdateRoom, RoomRow
  <2> QED
    BY <1>2, <2>1 DEF TypeOK, ForeignKeys, TenancyIffGranted, HasStatus, UpdateRoom, BookingRow
<1>3. ASSUME NEW r \in Rooms, DeleteRoom(r) PROVE ForeignKeys' /\ TenancyIffGranted'
  BY <1>3 DEF TypeOK, ForeignKeys, TenancyIffGranted, HasStatus, DeleteRoom, RemoveRoom,
              InRoom, BookingRow
<1>4. ASSUME NEW s \in Seats, CreateSeat(s) PROVE ForeignKeys' /\ TenancyIffGranted'
  BY <1>4, RentalAssumption
     DEF TypeOK, ForeignKeys, TenancyIffGranted, HasStatus, CreateSeat, BookingRow
<1>5. ASSUME NEW s \in Seats, DeleteSeat(s) PROVE ForeignKeys' /\ TenancyIffGranted'
  BY <1>5, RentalAssumption
     DEF TypeOK, ForeignKeys, TenancyIffGranted, HasStatus, DeleteSeat, BookingRow
<1> QED
  BY <1>1, <1>2, <1>3, <1>4, <1>5 DEF RoomNext

\* Taking or leaving a place keeps every room and every seat row.
LEMMA PlaceKeepsRows ==
  ASSUME TypeOK, NEW r \in Rooms, NEW s \in Seats \cup {NoSeat},
         NEW row \in RoomRow, TakePlace(r, s, row) \/ LeavePlace(r, s, row)
  PROVE  /\ \A x \in Rooms : room[x] # NoRow => room'[x] # NoRow
         /\ \A x \in Seats : is_occupied[x] # NoRow => is_occupied'[x] # NoRow
<1>1. OneMore(r, row) # NoRow /\ OneLess(row) # NoRow
  BY RoomRowType, RentalAssumption
<1> QED
  BY <1>1, RentalAssumption DEF TypeOK, TakePlace, LeavePlace

\* Updates of a request leave its tenant, room and seat; it remains a row.
LEMMA BookingUpdate ==
  ASSUME TypeOK, NEW b \in Bookings, booking[b] # NoRow,
         \/ CancelBooking(b) \/ OwnerReject(b) \/ ConfirmVisit(b) \/ MarkVisited(b)
         \/ OwnerApprove(b) \/ PayAdvance(b)
  PROVE  /\ booking'[b] # NoRow
         /\ booking'[b].tenant = booking[b].tenant
         /\ booking'[b].room = booking[b].room
         /\ booking'[b].seat = booking[b].seat
         /\ \A c \in Bookings \ {b} : booking'[c] = booking[c]
<1>1. booking[b] \in BookingRow /\ booking \in [Bookings -> BookingRow \cup {NoRow}]
  BY DEF TypeOK
<1> DEFINE Same(row) == /\ row \in BookingRow
                        /\ row.tenant = booking[b].tenant
                        /\ row.room = booking[b].room
                        /\ row.seat = booking[b].seat
<1>2. \A x \in BookingStatus : Same([booking[b] EXCEPT !.booking_status = x])
  BY <1>1 DEF BookingRow
<1>3. \A v \in VisitStatus : Same([booking[b] EXCEPT !.visit_status = v])
  BY <1>1 DEF BookingRow
<1>4. \A x \in BookingStatus, v \in VisitStatus :
        Same([booking[b] EXCEPT !.booking_status = x, !.visit_status = v])
  BY <1>1 DEF BookingRow
<1>5. Same(booking'[b]) /\ \A c \in Bookings \ {b} : booking'[c] = booking[c]
  <2>1. CASE CancelBooking(b) \/ OwnerReject(b)
    BY <2>1, <1>1, <1>2 DEF CancelBooking, WriteCancelled, OwnerReject, WriteRejected, BookingStatus
  <2>2. CASE ConfirmVisit(b) \/ MarkVisited(b)
    BY <2>2, <1>1, <1>3 DEF ConfirmVisit, MarkVisited, WriteVisit, VisitStatus
  <2>3. CASE OwnerApprove(b)
    BY <2>3, <1>1, <1>2 DEF OwnerApprove, WriteApproved, BookingStatus
  <2>4. CASE PayAdvance(b)
    BY <2>4, <1>1, <1>4 DEF PayAdvance, WritePaid, BookingStatus, VisitStatus
  <2> QED
    BY <2>1, <2>2, <2>3, <2>4
<1> QED
  BY <1>5, RentalAssumption

\* The operations on booking requests keep both: a tenancy is inserted by
\* exactly the steps that grant the request.
LEMMA BookingNextRows ==
  TypeOK /\ ForeignKeys /\ TenancyIffGranted /\ BookingNext
    => ForeignKeys' /\ TenancyIffGranted'
<1> SUFFICES ASSUME TypeOK, ForeignKeys, TenancyIffGranted, BookingNext
             PROVE  ForeignKeys' /\ TenancyIffGranted'
  OBVIOUS
<1> USE DEF HasStatus
<1>1. ASSUME NEW b \in Bookings, NEW t \in Tenants, NEW r \in Rooms,
             NEW s \in Seats \cup {NoSeat}, NEW v \in FirstVisit,
             CreateBookingRequest(b, t, r, s, v)
      PROVE  ForeignKeys' /\ TenancyIffGranted'
  BY <1>1, RentalAssumption
     DEF TypeOK, ForeignKeys, TenancyIffGranted, CreateBookingRequest, InsertBooking,
         RoomOpen, SeatOpen, BookingRow
<1>2. ASSUME NEW b \in Bookings,
             \/ CancelBooking(b) \/ OwnerReject(b) \/ ConfirmVisit(b) \/ MarkVisited(b)
      PROVE  ForeignKeys' /\ TenancyIffGranted'
  <2>1. booking[b] \in BookingRow
    BY <1>2 DEF TypeOK, CancelBooking, OwnerReject, ConfirmVisit, MarkVisited
  <2>2. UNCHANGED <<room, is_occupied, tenancy>>
    BY <1>2 DEF CancelBooking, WriteCancelled, OwnerReject, WriteRejected, ConfirmVisit,
                MarkVisited, WriteVisit
  <2>3. ForeignKeys'
    BY <1>2, <2>1, <2>2, BookingUpdate, RentalAssumption DEF ForeignKeys
  <2>4. HasStatus(b, {"APPROVED_BY_OWNER", "DEPOSIT_PAID"})'
          <=> HasStatus(b, {"APPROVED_BY_OWNER", "DEPOSIT_PAID"})
    <3>1. CASE CancelBooking(b) \/ OwnerReject(b)
      BY <3>1, <2>1
         DEF TypeOK, CancelBooking, WriteCancelled, OwnerReject, WriteRejected, BookingRow
    <3>2. CASE ConfirmVisit(b) \/ MarkVisited(b)
      <4>1. booking'[b].booking_status = booking[b].booking_status
        BY <3>2, <2>1 DEF TypeOK, ConfirmVisit, MarkVisited, WriteVisit, BookingRow
      <4>2. booking'[b] # NoRow
        BY <3>2, <2>1, BookingUpdate, RentalAssumption
      <4> QED
        BY <4>1, <4>2, <2>1, RentalAssumption
    <3> QED
      BY <1>2, <3>1, <3>2
  <2>5. TenancyIffGranted'
    BY <1>2, <2>1, <2>2, <2>4, BookingUpdate, RentalAssumption DEF TenancyIffGranted
  <2> QED
    BY <2>3, <2>5
<1>3. ASSUME NEW b \in Bookings, OwnerApprove(b) \/ PayAdvance(b)
      PROVE  ForeignKeys' /\ TenancyIffGranted'
  <2>1. booking[b] \in BookingRow /\ room[booking[b].room] \in RoomRow
    BY <1>3 DEF TypeOK, OwnerApprove, PayAdvance, CanPay, BookingRow
  <2>2. TakePlace(booking[b].room, booking[b].seat, room[booking[b].room])
    BY <1>3 DEF OwnerApprove, WriteApproved, PayAdvance, WritePaid
  <2>3. /\ \A x \in Rooms : room[x] # NoRow => room'[x] # NoRow
        /\ \A x \in Seats : is_occupied[x] # NoRow => is_occupied'[x] # NoRow
    BY <2>1, <2>2, PlaceKeepsRows DEF BookingRow
  <2>4. ASSUME NEW c \in Bookings
        PROVE  /\ booking'[c] = NoRow <=> booking[c] = NoRow
               /\ booking[c] # NoRow => /\ booking'[c].room = booking[c].room
                                        /\ booking'[c].seat = booking[c].seat
    BY <1>3, <2>1, BookingUpdate, RentalAssumption
  <2>5. ForeignKeys'
    BY <2>3, <2>4 DEF ForeignKeys, TypeOK, BookingRow
  <2>6. NewTenancy # NoRow
    BY NewTenancyType, RentalAssumption
  <2>7. tenancy'[b] # NoRow /\ \A c \in Bookings \ {b} : tenancy'[c] = tenancy[c]
    BY <1>3, <2>6 DEF TypeOK, OwnerApprove, WriteApproved, PayAdvance, WritePaid
  <2>8. booking'[b].booking_status \in {"APPROVED_BY_OWNER", "DEPOSIT_PAID"}
    BY <1>3, <2>1 DEF TypeOK, OwnerApprove, WriteApproved, PayAdvance, WritePaid, BookingRow
  <2>9. TenancyIffGranted'
    BY <1>3, <2>1, <2>7, <2>8, BookingUpdate, RentalAssumption DEF TenancyIffGranted
  <2> QED
    BY <2>5, <2>9
<1> QED
  BY <1>1, <1>2, <1>3 DEF BookingNext

\* Notice, move-out and signature keep both.
LEMMA TenancyNextRows ==
  TypeOK /\ ForeignKeys /\ TenancyIffGranted /\ TenancyNext
    => ForeignKeys' /\ TenancyIffGranted'
<1> SUFFICES ASSUME TypeOK, ForeignKeys, TenancyIffGranted, TenancyNext
             PROVE  ForeignKeys' /\ TenancyIffGranted'
  OBVIOUS
<1>1. TypeOK'
  BY TenancyNextType
<1>2. ASSUME NEW b \in Bookings, NEW p \in Party,
             ServeNotice(b) \/ SignDigitalAgreement(b, p)
      PROVE  ForeignKeys' /\ TenancyIffGranted'
  <2>1. tenancy[b] \in TenancyRow /\ tenancy[b] # NoRow
    BY <1>2 DEF TypeOK, ServeNotice, SignDigitalAgreement, TenancyIn
  <2>2. UNCHANGED <<room, is_occupied, booking>>
    BY <1>2 DEF ServeNotice, WriteNotice, SignDigitalAgreement, WriteSigned
  <2>3. tenancy'[b] \in TenancyRow /\ \A c \in Bookings \ {b} : tenancy'[c] = tenancy[c]
    <3>1. CASE ServeNotice(b)
      BY <3>1, <2>1 DEF TypeOK, ServeNotice, WriteNotice, TenancyRow, TenancyStatus
    <3>2. CASE SignDigitalAgreement(b, p)
      BY <3>2, <2>1 DEF TypeOK, SignDigitalAgreement, WriteSigned, TenancyRow, AgreementStatus
    <3> QED
      BY <1>2, <3>1, <3>2
  <2> QED
    BY <2>1, <2>2, <2>3, RentalAssumption DEF ForeignKeys, TenancyIffGranted, HasStatus
<1>3. ASSUME NEW b \in Bookings, TerminateTenancy(b)
      PROVE  ForeignKeys' /\ TenancyIffGranted'
  <2>1. booking[b] \in BookingRow /\ tenancy[b] \in TenancyRow
    BY <1>3 DEF TypeOK, TerminateTenancy, Live, TenancyIn, TenancyIffGranted, HasStatus
  <2>2. room[booking[b].room] \in RoomRow
    BY <2>1, RentalAssumption DEF TypeOK, ForeignKeys, BookingRow
  <2>3. /\ \A x \in Rooms : room[x] # NoRow => room'[x] # NoRow
        /\ \A x \in Seats : is_occupied[x] # NoRow => is_occupied'[x] # NoRow
    BY <1>3, <2>1, <2>2, PlaceKeepsRows DEF TerminateTenancy, WriteTerminated, BookingRow
  <2>4. booking' = booking
    BY <1>3 DEF TerminateTenancy, WriteTerminated
  <2>5. ForeignKeys'
    BY <2>3, <2>4 DEF ForeignKeys, TypeOK, BookingRow
  <2>6. \A c \in Bookings : tenancy'[c] = NoRow <=> tenancy[c] = NoRow
    BY <1>3, <2>1, RentalAssumption
       DEF TypeOK, TerminateTenancy, WriteTerminated, TenancyRow, TenancyStatus, AgreementStatus
  <2> QED
    BY <2>4, <2>5, <2>6 DEF TenancyIffGranted, HasStatus
<1> QED
  BY <1>2, <1>3 DEF TenancyNext, Party

-----------------------------------------------------------------------------
(* Seats.                                                                  *)

\* A step after which everybody with a seat had that seat before, and the seat
\* is still marked, gives no seat to a second tenancy.
LEMMA QuietSeats ==
  ASSUME LiveSeatOccupied, SeatExclusive,
         \A b \in Bookings :
           Live(b)' /\ booking'[b].seat # NoSeat =>
             /\ Live(b)
             /\ booking'[b].seat = booking[b].seat
             /\ is_occupied'[booking[b].seat] = TRUE
  PROVE  LiveSeatOccupied' /\ SeatExclusive'
<1>1. LiveSeatOccupied'
  BY DEF LiveSeatOccupied
<1>2. SeatExclusive'
  <2> SUFFICES ASSUME NEW b \in Bookings, NEW c \in Bookings, b # c, Live(b)', Live(c)',
                      booking'[b].seat # NoSeat
               PROVE  booking'[b].seat # booking'[c].seat
    BY DEF SeatExclusive
  <2> QED
    BY DEF SeatExclusive
<1> QED
  BY <1>1, <1>2

\* The operations on the property give no seat to a second tenancy.
LEMMA PropertyNextSeats ==
  SeatInv /\ PropertyNext => LiveSeatOccupied' /\ SeatExclusive'
<1> SUFFICES ASSUME SeatInv, PropertyNext PROVE LiveSeatOccupied' /\ SeatExclusive'
  OBVIOUS
<1>1. CASE CreateProperty \/ \E v \in BOOLEAN : SetPublishStatus(v)
  BY <1>1, QuietSeats
     DEF SeatInv, CreateProperty, SetPublishStatus, Live, TenancyIn, LiveSeatOccupied
<1>2. CASE DeleteProperty
  BY <1>2, QuietSeats DEF SeatInv, DeleteProperty, Live, TenancyIn
<1> QED
  BY <1>1, <1>2 DEF PropertyNext

\* The operations on rooms and seats give no seat to a second tenancy, and mark
\* no seat free that somebody lives in.
LEMMA RoomNextSeats ==
  SeatInv /\ RoomNext => LiveSeatOccupied' /\ SeatExclusive'
<1> SUFFICES ASSUME SeatInv, RoomNext PROVE LiveSeatOccupied' /\ SeatExclusive'
  OBVIOUS
<1> USE DEF Live, TenancyIn
\* Somebody who lives in a room has a request for that room and its seat.
<1>1. \A b \in Bookings : Live(b) => booking[b] \in BookingRow
  BY DEF SeatInv, TypeOK, TenancyIffGranted, HasStatus
<1>2. CASE \E r \in Rooms : CreateRoom(r) \/ \E v \in BOOLEAN : UpdateRoom(r, v)
  BY <1>2, QuietSeats DEF SeatInv, CreateRoom, UpdateRoom, LiveSeatOccupied
<1>3. ASSUME NEW r \in Rooms, DeleteRoom(r)
      PROVE  LiveSeatOccupied' /\ SeatExclusive'
  <2>1. ASSUME NEW b \in Bookings, Live(b)', booking'[b].seat # NoSeat
        PROVE  /\ Live(b) /\ booking'[b].seat = booking[b].seat
               /\ is_occupied'[booking[b].seat] = TRUE
    <3>1. ~InRoom(b, r) /\ tenancy'[b] = tenancy[b] /\ booking'[b] = booking[b]
      BY <1>3, <2>1 DEF DeleteRoom, RemoveRoom, SeatInv, TypeOK
    <3>2. Live(b) /\ booking[b] \in BookingRow
      BY <2>1, <3>1, <1>1
    <3>3. booking[b].seat \in Seats /\ RoomOf[booking[b].seat] # r
      BY <2>1, <3>1, <3>2, RentalAssumption DEF SeatInv, ForeignKeys, InRoom, BookingRow
    <3>4. is_occupied'[booking[b].seat] = is_occupied[booking[b].seat]
      BY <1>3, <3>3 DEF DeleteRoom, RemoveRoom
    <3> QED
      BY <2>1, <3>1, <3>2, <3>4 DEF SeatInv, LiveSeatOccupied
  <2> QED
    BY <2>1, QuietSeats DEF SeatInv
<1>4. ASSUME NEW s \in Seats, CreateSeat(s)
      PROVE  LiveSeatOccupied' /\ SeatExclusive'
  <2>1. ASSUME NEW b \in Bookings, Live(b)', booking'[b].seat # NoSeat
        PROVE  /\ Live(b) /\ booking'[b].seat = booking[b].seat
               /\ is_occupied'[booking[b].seat] = TRUE
    <3>1. Live(b) /\ booking'[b] = booking[b]
      BY <1>4, <2>1 DEF CreateSeat
    <3>2. booking[b].seat \in Seats \ {s} /\ is_occupied[booking[b].seat] = TRUE
      BY <1>4, <2>1, <3>1, <1>1, RentalAssumption
         DEF CreateSeat, SeatInv, LiveSeatOccupied, BookingRow
    <3> QED
      BY <1>4, <3>1, <3>2 DEF CreateSeat, SeatInv, TypeOK
  <2> QED
    BY <2>1, QuietSeats DEF SeatInv
<1>5. ASSUME NEW s \in Seats, DeleteSeat(s)
      PROVE  LiveSeatOccupied' /\ SeatExclusive'
  <2>1. ASSUME NEW b \in Bookings, Live(b)', booking'[b].seat # NoSeat
        PROVE  /\ Live(b) /\ booking'[b].seat = booking[b].seat
               /\ is_occupied'[booking[b].seat] = TRUE
    <3>1. Live(b) /\ booking[b] \in BookingRow
      BY <1>5, <2>1, <1>1 DEF DeleteSeat
    <3>2. booking[b].seat # s
      BY <1>5, <2>1, <3>1, RentalAssumption DEF DeleteSeat, SeatInv, TypeOK, BookingRow
    <3>3. booking'[b] = booking[b]
      BY <1>5, <3>2 DEF DeleteSeat
    <3>4. booking[b].seat \in Seats \ {s} /\ is_occupied[booking[b].seat] = TRUE
      BY <2>1, <3>1, <3>2, <3>3 DEF SeatInv, LiveSeatOccupied, BookingRow
    <3> QED
      BY <1>5, <3>1, <3>3, <3>4 DEF DeleteSeat, SeatInv, TypeOK
  <2> QED
    BY <2>1, QuietSeats DEF SeatInv
<1> QED
  BY <1>2, <1>3, <1>4, <1>5 DEF RoomNext

\* An approval or a payment gives the seat of b, which was free and therefore
\* nobody's, to b alone.
LEMMA GrantSeats ==
  ASSUME SeatInv, NEW b \in Bookings, OwnerApprove(b) \/ PayAdvance(b)
  PROVE  LiveSeatOccupied' /\ SeatExclusive'
<1>1. booking[b] \in BookingRow /\ SeatFree(booking[b].seat)
  BY DEF SeatInv, TypeOK, OwnerApprove, PayAdvance, CanPay, HasStatus
<1>2. /\ booking'[b].seat = booking[b].seat
      /\ \A c \in Bookings \ {b} : booking'[c] = booking[c]
  BY <1>1, BookingUpdate, RentalAssumption DEF SeatInv
<1>3. \A c \in Bookings \ {b} : tenancy'[c] = tenancy[c]
  BY DEF SeatInv, TypeOK, OwnerApprove, WriteApproved, PayAdvance, WritePaid
<1>4. is_occupied' = IF booking[b].seat = NoSeat THEN is_occupied
                     ELSE [is_occupied EXCEPT ![booking[b].seat] = TRUE]
  BY DEF OwnerApprove, WriteApproved, PayAdvance, WritePaid, TakePlace
<1>5. \A s \in Seats : is_occupied[s] = TRUE => is_occupied'[s] = TRUE
  BY <1>1, <1>4 DEF SeatInv, TypeOK, BookingRow
<1>6. booking[b].seat # NoSeat => is_occupied'[booking[b].seat] = TRUE
  BY <1>1, <1>4 DEF SeatInv, TypeOK, BookingRow
<1>7. ASSUME NEW c \in Bookings, Live(c), booking[c].seat # NoSeat
      PROVE  booking[c].seat \in Seats /\ is_occupied[booking[c].seat] = TRUE
  BY <1>7 DEF SeatInv, TypeOK, LiveSeatOccupied, TenancyIffGranted, HasStatus, Live,
              TenancyIn, BookingRow
<1>8. LiveSeatOccupied'
  <2> SUFFICES ASSUME NEW c \in Bookings, Live(c)', booking'[c].seat # NoSeat
               PROVE  is_occupied'[booking'[c].seat] = TRUE
    BY DEF LiveSeatOccupied
  <2>1. CASE c = b
    BY <2>1, <1>2, <1>6
  <2>2. CASE c # b
    BY <2>2, <1>2, <1>3, <1>5, <1>7 DEF Live, TenancyIn
  <2> QED
    BY <2>1, <2>2
<1>9. SeatExclusive'
  <2> SUFFICES ASSUME NEW c \in Bookings, NEW d \in Bookings, c # d, Live(c)', Live(d)',
                      booking'[c].seat # NoSeat
               PROVE  booking'[c].seat # booking'[d].seat
    BY DEF SeatExclusive
  <2>1. CASE c # b /\ d # b
    BY <2>1, <1>2, <1>3 DEF Live, TenancyIn, SeatInv, SeatExclusive
  <2>2. CASE c = b
    BY <2>2, <1>1, <1>2, <1>3, <1>7 DEF Live, TenancyIn, SeatFree
  <2>3. CASE d = b
    BY <2>3, <1>1, <1>2, <1>3, <1>7 DEF Live, TenancyIn, SeatFree
  <2> QED
    BY <2>1, <2>2, <2>3
<1> QED
  BY <1>8, <1>9

\* The operations on booking requests keep the two seat invariants; approval
\* and payment by GrantSeats, the others because they grant nothing.
LEMMA BookingNextSeats ==
  SeatInv /\ BookingNext => LiveSeatOccupied' /\ SeatExclusive'
<1> SUFFICES ASSUME SeatInv, BookingNext PROVE LiveSeatOccupied' /\ SeatExclusive'
  OBVIOUS
<1>1. ASSUME NEW b \in Bookings, NEW t \in Tenants, NEW r \in Rooms,
             NEW s \in Seats \cup {NoSeat}, NEW v \in FirstVisit,
             CreateBookingRequest(b, t, r, s, v)
      PROVE  LiveSeatOccupied' /\ SeatExclusive'
  <2>1. ~Live(b) /\ UNCHANGED <<is_occupied, tenancy>>
    BY <1>1 DEF SeatInv, TenancyIffGranted, HasStatus, Live, TenancyIn,
                CreateBookingRequest, InsertBooking
  <2>2. \A c \in Bookings \ {b} : booking'[c] = booking[c]
    BY <1>1 DEF CreateBookingRequest, InsertBooking, SeatInv, TypeOK
  <2> QED
    BY <2>1, <2>2, QuietSeats DEF SeatInv, LiveSeatOccupied, Live, TenancyIn
<1>2. ASSUME NEW b \in Bookings,
             \/ CancelBooking(b) \/ OwnerReject(b) \/ ConfirmVisit(b) \/ MarkVisited(b)
      PROVE  LiveSeatOccupied' /\ SeatExclusive'
  <2>1. booking[b] # NoRow /\ UNCHANGED <<is_occupied, tenancy>>
    BY <1>2 DEF CancelBooking, WriteCancelled, OwnerReject, WriteRejected, ConfirmVisit,
                MarkVisited, WriteVisit, HasStatus
  <2>2. \A c \in Bookings : booking'[c].seat = booking[c].seat
    BY <1>2, <2>1, BookingUpdate, RentalAssumption DEF SeatInv
  <2> QED
    BY <2>1, <2>2, QuietSeats DEF SeatInv, LiveSeatOccupied, Live, TenancyIn
<1>3. ASSUME NEW b \in Bookings, OwnerApprove(b) \/ PayAdvance(b)
      PROVE  LiveSeatOccupied' /\ SeatExclusive'
  BY <1>3, GrantSeats
<1> QED
  BY <1>1, <1>2, <1>3 DEF BookingNext

\* Notice, move-out and signature keep the two seat invariants.
LEMMA TenancyNextSeats ==
  SeatInv /\ TenancyNext => LiveSeatOccupied' /\ SeatExclusive'
<1> SUFFICES ASSUME SeatInv, TenancyNext PROVE LiveSeatOccupied' /\ SeatExclusive'
  OBVIOUS
<1>1. ASSUME NEW b \in Bookings, NEW p \in Party,
             ServeNotice(b) \/ SignDigitalAgreement(b, p)
      PROVE  LiveSeatOccupied' /\ SeatExclusive'
  <2>1. UNCHANGED <<is_occupied, booking>>
    BY <1>1 DEF ServeNotice, WriteNotice, SignDigitalAgreement, WriteSigned
  <2>2. \A c \in Bookings : Live(c)' => Live(c)
    <3>1. CASE ServeNotice(b)
      BY <3>1, RentalAssumption
         DEF SeatInv, TypeOK, ServeNotice, WriteNotice, Live, TenancyIn, TenancyRow
    <3>2. CASE SignDigitalAgreement(b, p)
      BY <3>2, RentalAssumption
         DEF SeatInv, TypeOK, SignDigitalAgreement, WriteSigned, Live, TenancyIn, TenancyRow
    <3> QED
      BY <1>1, <3>1, <3>2
  <2> QED
    BY <2>1, <2>2, QuietSeats DEF SeatInv, LiveSeatOccupied
\* A move-out frees the seat of b, which by SeatExclusive nobody else has.
<1>2. ASSUME NEW b \in Bookings, TerminateTenancy(b)
      PROVE  LiveSeatOccupied' /\ SeatExclusive'
  <2>1. booking' = booking /\ \A c \in Bookings \ {b} : tenancy'[c] = tenancy[c]
    BY <1>2 DEF SeatInv, TypeOK, TerminateTenancy, WriteTerminated
  <2>2. ~Live(b)'
    BY <1>2 DEF SeatInv, TypeOK, TerminateTenancy, WriteTerminated, Live, TenancyIn, TenancyRow
  <2>3. ASSUME NEW c \in Bookings, Live(c)', booking'[c].seat # NoSeat
        PROVE  /\ Live(c) /\ booking'[c].seat = booking[c].seat
               /\ is_occupied'[booking[c].seat] = TRUE
    <3>1. c # b /\ Live(c)
      BY <2>1, <2>2, <2>3 DEF Live, TenancyIn
    <3>2. Live(b) /\ booking[c].seat # booking[b].seat
      BY <1>2, <2>1, <2>3, <3>1 DEF SeatInv, SeatExclusive, TerminateTenancy
    <3>3. booking[c].seat \in Seats /\ is_occupied[booking[c].seat] = TRUE
      BY <2>1, <2>3, <3>1
         DEF SeatInv, TypeOK, LiveSeatOccupied, TenancyIffGranted, HasStatus, Live,
             TenancyIn, BookingRow
    <3>4. is_occupied'[booking[c].seat] = is_occupied[booking[c].seat]
      BY <1>2, <3>2, <3>3 DEF TerminateTenancy, WriteTerminated, LeavePlace, SeatInv, TypeOK
    <3> QED
      BY <2>1, <3>1, <3>3, <3>4
  <2> QED
    BY <2>3, QuietSeats DEF SeatInv
<1> QED
  BY <1>1, <1>2 DEF TenancyNext, Party

-----------------------------------------------------------------------------
\* An empty or a freshly seeded database satisfies the invariant.
LEMMA InitSeatInv == Init => SeatInv
<1> SUFFICES ASSUME Init PROVE SeatInv
  OBVIOUS
<1>1. EmptyRoom \in RoomRow
  BY DEF EmptyRoom, RoomRow
<1>2. TypeOK
  BY <1>1 DEF Init, TypeOK
<1>3. \A b \in Bookings : booking[b] = NoRow /\ tenancy[b] = NoRow
  BY DEF Init
<1> QED
  BY <1>2, <1>3 DEF SeatInv, ForeignKeys, TenancyIffGranted, HasStatus, LiveSeatOccupied,
                    SeatExclusive, Live, TenancyIn

\* Every operation keeps the invariant.
LEMMA NextSeatInv == SeatInv /\ [Next]_vars => SeatInv'
<1> SUFFICES ASSUME SeatInv, [Next]_vars PROVE SeatInv'
  OBVIOUS
<1>1. CASE PropertyNext
  BY <1>1, PropertyNextType, PropertyNextRows, PropertyNextSeats DEF SeatInv
<1>2. CASE RoomNext
  BY <1>2, RoomNextType, RoomNextRows, RoomNextSeats DEF SeatInv
<1>3. CASE BookingNext
  BY <1>3, BookingNextType, BookingNextRows, BookingNextSeats DEF SeatInv
<1>4. CASE TenancyNext
  BY <1>4, TenancyNextType, TenancyNextRows, TenancyNextSeats DEF SeatInv
<1>5. CASE UNCHANGED vars
  BY <1>5 DEF vars, SeatInv, TypeOK, ForeignKeys, TenancyIffGranted, HasStatus,
              LiveSeatOccupied, SeatExclusive, Live, TenancyIn
<1> QED
  BY <1>1, <1>2, <1>3, <1>4, <1>5 DEF Next

\* Types, foreign keys, granted tenancies, marked seats and exclusive seats
\* together are an invariant of the handlers run one after the other.
THEOREM SeatInvariant == Spec => []SeatInv
BY InitSeatInv, NextSeatInv, PTL DEF Spec

\* Every row keeps its type.
THEOREM TypeCorrect == Spec => []TypeOK
BY SeatInvariant, PTL DEF SeatInv

\* Two live tenancies never have the same seat, however many tenants, rooms,
\* seats and requests there are and whatever is deleted in between.
THEOREM SeatsAreExclusive == Spec => []SeatExclusive
BY SeatInvariant, PTL DEF SeatInv

\* A tenancy exists exactly for the requests that were approved or paid.
THEOREM TenanciesAreGranted == Spec => []TenancyIffGranted
BY SeatInvariant, PTL DEF SeatInv

\* The seat of a live tenancy is marked occupied.
THEOREM LiveSeatsAreMarked == Spec => []LiveSeatOccupied
BY SeatInvariant, PTL DEF SeatInv

-----------------------------------------------------------------------------
(* Rental implements Lease.                                                *)

\* A step after which everybody with a seat had that seat before is, for the
\* lease, a release or a stutter.
LEMMA QuietReleases ==
  ASSUME \A b \in Bookings :
           Live(b)' /\ booking'[b].seat # NoSeat =>
             Live(b) /\ booking'[b].seat = booking[b].seat
  PROVE  SeatLease!Release
<1>1. SeatHolders' \in [Seats -> SUBSET Bookings]
  BY DEF SeatHolders
<1>2. \A s \in Seats : SeatHolders'[s] \subseteq SeatHolders[s]
  BY RentalAssumption DEF SeatHolders
<1> QED BY <1>1, <1>2 DEF SeatLease!Release

\* An approval or payment takes the seat of b, which nobody has, or no seat.
LEMMA GrantTakes ==
  ASSUME SeatInv, NEW b \in Bookings, OwnerApprove(b) \/ PayAdvance(b)
  PROVE  SeatLease!Next
<1>1. booking[b] \in BookingRow /\ SeatFree(booking[b].seat)
  BY DEF SeatInv, TypeOK, OwnerApprove, PayAdvance, CanPay, HasStatus
<1>2. /\ booking'[b].seat = booking[b].seat
      /\ \A c \in Bookings \ {b} : booking'[c] = booking[c]
  BY <1>1, BookingUpdate, RentalAssumption DEF SeatInv
<1>3. \A c \in Bookings \ {b} : tenancy'[c] = tenancy[c]
  BY DEF SeatInv, TypeOK, OwnerApprove, WriteApproved, PayAdvance, WritePaid
<1> DEFINE s == booking[b].seat
<1>4. CASE Live(b)' /\ s # NoSeat /\ ~Live(b)
  <2>1. s \in Seats /\ is_occupied[s] = FALSE
    BY <1>1, <1>4 DEF SeatFree, BookingRow
  <2>2. SeatHolders[s] = {}
    BY <2>1, <1>4 DEF SeatHolders, SeatInv, LiveSeatOccupied
  <2>3. \A x \in Seats : SeatHolders'[x] = IF x = s THEN {b} ELSE SeatHolders[x]
    <3> SUFFICES ASSUME NEW x \in Seats
                 PROVE  SeatHolders'[x] = IF x = s THEN {b} ELSE SeatHolders[x]
      OBVIOUS
    <3>1. \A c \in Bookings \ {b} : Live(c)' <=> Live(c)
      BY <1>3 DEF Live, TenancyIn
    <3>2. SeatHolders'[x] = {c \in Bookings : Live(c)' /\ booking'[c].seat = x}
      BY DEF SeatHolders
    <3>3. SeatHolders[x] = {c \in Bookings : Live(c) /\ booking[c].seat = x}
      BY DEF SeatHolders
    <3> QED BY <1>2, <1>4, <2>2, <3>1, <3>2, <3>3
  <2>4. SeatHolders' = [SeatHolders EXCEPT ![s] = {b}]
    BY <2>3 DEF SeatHolders
  <2> QED BY <2>1, <2>2, <2>4 DEF SeatLease!Next, SeatLease!Take
<1>5. CASE ~(Live(b)' /\ s # NoSeat /\ ~Live(b))
  <2>1. \A c \in Bookings : Live(c)' /\ booking'[c].seat # NoSeat =>
                              Live(c) /\ booking'[c].seat = booking[c].seat
    BY <1>2, <1>3, <1>5 DEF Live, TenancyIn
  <2> QED BY <2>1, QuietReleases DEF SeatLease!Next
<1> QED BY <1>4, <1>5

\* Every other operation gives no seat to anybody.
LEMMA OthersRelease ==
  ASSUME SeatInv, PropertyNext \/ RoomNext \/ TenancyNext
  PROVE  SeatLease!Release
<1>1. CASE PropertyNext
  BY <1>1, QuietReleases DEF PropertyNext, CreateProperty, SetPublishStatus, DeleteProperty,
                             Live, TenancyIn
<1>2. CASE RoomNext
  <2>1. CASE \E r \in Rooms : CreateRoom(r) \/ \E v \in BOOLEAN : UpdateRoom(r, v)
    BY <2>1, QuietReleases DEF CreateRoom, UpdateRoom, Live, TenancyIn
  <2>2. CASE \E x \in Seats : CreateSeat(x)
    BY <2>2, QuietReleases DEF CreateSeat, Live, TenancyIn
  <2>3. ASSUME NEW r \in Rooms, DeleteRoom(r) PROVE SeatLease!Release
    <3>1. \A b \in Bookings : /\ tenancy'[b] \in {tenancy[b], NoRow}
                              /\ tenancy'[b] # NoRow => booking'[b] = booking[b]
      BY <2>3 DEF DeleteRoom, RemoveRoom
    <3> QED BY <3>1, QuietReleases DEF Live, TenancyIn
  <2>4. ASSUME NEW x \in Seats, DeleteSeat(x) PROVE SeatLease!Release
    <3>1. tenancy' = tenancy /\ \A b \in Bookings : Live(b)' <=> Live(b)
      BY <2>4 DEF DeleteSeat, Live, TenancyIn
    <3>2. \A b \in Bookings : Live(b) => booking[b] \in BookingRow
      BY DEF SeatInv, TypeOK, TenancyIffGranted, HasStatus, Live, TenancyIn
    <3>3. \A b \in Bookings : Live(b) /\ booking'[b].seat # NoSeat
                                => booking'[b].seat = booking[b].seat
      BY <2>4, <3>2 DEF DeleteSeat, BookingRow
    <3> QED BY <3>1, <3>3, QuietReleases
  <2> QED BY <1>2, <2>1, <2>2, <2>3, <2>4 DEF RoomNext
<1>3. CASE TenancyNext
  <2>1. UNCHANGED booking /\ \A b \in Bookings : Live(b)' => Live(b)
    <3>1. ASSUME NEW b \in Bookings, ServeNotice(b) \/ TerminateTenancy(b)
          PROVE  \A c \in Bookings : Live(c)' => Live(c)
      BY <3>1 DEF SeatInv, TypeOK, ServeNotice, WriteNotice, TerminateTenancy,
                  WriteTerminated, Live, TenancyIn
    <3>2. ASSUME NEW b \in Bookings, NEW p \in Party, SignDigitalAgreement(b, p)
          PROVE  \A c \in Bookings : Live(c)' => Live(c)
      BY <3>2, RentalAssumption
         DEF SeatInv, TypeOK, SignDigitalAgreement, WriteSigned, Live, TenancyIn, TenancyRow
    <3> QED
      BY <1>3, <3>1, <3>2 DEF TenancyNext, ServeNotice, WriteNotice, TerminateTenancy,
                              WriteTerminated, SignDigitalAgreement, WriteSigned
  <2> QED BY <2>1, QuietReleases
<1> QED BY <1>1, <1>2, <1>3

\* Every step takes or gives back at most one seat as Lease allows.
LEMMA NextLeases == SeatInv /\ [Next]_vars => [SeatLease!Next]_SeatHolders
<1> SUFFICES ASSUME SeatInv, [Next]_vars PROVE [SeatLease!Next]_SeatHolders
  OBVIOUS
<1>1. CASE PropertyNext \/ RoomNext \/ TenancyNext
  BY <1>1, OthersRelease DEF SeatLease!Next
<1>2. CASE BookingNext
  <2>1. ASSUME NEW b \in Bookings, OwnerApprove(b) \/ PayAdvance(b) PROVE SeatLease!Next
    BY <2>1, GrantTakes
  <2>2. ASSUME UNCHANGED tenancy,
               \A b \in Bookings : tenancy[b] # NoRow => booking'[b].seat = booking[b].seat
        PROVE  SeatLease!Next
    BY <2>2, QuietReleases DEF Live, TenancyIn, SeatLease!Next
  <2>3. ASSUME NEW b \in Bookings, NEW t \in Tenants, NEW r \in Rooms,
               NEW s \in Seats \cup {NoSeat}, NEW v \in FirstVisit,
               CreateBookingRequest(b, t, r, s, v)
        PROVE  SeatLease!Next
    <3>1. tenancy[b] = NoRow
      BY <2>3 DEF CreateBookingRequest, InsertBooking, SeatInv, TenancyIffGranted, HasStatus
    <3> QED BY <2>2, <2>3, <3>1 DEF CreateBookingRequest, InsertBooking, SeatInv, TypeOK
  <2>4. ASSUME NEW b \in Bookings,
               CancelBooking(b) \/ OwnerReject(b) \/ ConfirmVisit(b) \/ MarkVisited(b)
        PROVE  SeatLease!Next
    <3>1. booking[b] \in BookingRow
      BY <2>4 DEF SeatInv, TypeOK, CancelBooking, OwnerReject, ConfirmVisit, MarkVisited,
                  HasStatus
    <3>2. UNCHANGED tenancy /\ \A c \in Bookings : booking'[c].seat = booking[c].seat
      BY <2>4, <3>1 DEF SeatInv, TypeOK, BookingRow, CancelBooking, WriteCancelled,
                OwnerReject, WriteRejected, ConfirmVisit, MarkVisited, WriteVisit
    <3> QED BY <2>2, <3>2
  <2> QED BY <1>2, <2>1, <2>3, <2>4 DEF BookingNext
<1>3. CASE UNCHANGED vars
  BY <1>3 DEF vars, SeatHolders, Live, TenancyIn
<1> QED BY <1>1, <1>2, <1>3 DEF Next

\* Rooms, seats, requests and tenancies together let seats as Lease says, for
\* every number of them: the handlers implement the abstract lease.
THEOREM RentalImplementsLease == Spec => SeatsAreLet
<1>1. Init => SeatLease!Init
  BY DEF Init, SeatLease!Init, SeatHolders, Live, TenancyIn
<1> QED
  BY <1>1, NextLeases, SeatInvariant, PTL DEF Spec, SeatsAreLet, SeatLease!Spec

-----------------------------------------------------------------------------
(* One open request per tenant and room.                                   *)

\* Every operation keeps at most one open request per tenant and room.
LEMMA NextOneOpen == SeatInv /\ OneOpenRequest /\ [Next]_vars => OneOpenRequest'
<1> SUFFICES ASSUME SeatInv, OneOpenRequest, [Next]_vars PROVE OneOpenRequest'
  OBVIOUS
<1> DEFINE Open(b) == HasStatus(b, {"REQUESTED"})
<1>1. TypeOK
  BY DEF SeatInv
\* It is kept by a step that opens no request and changes no tenant or room.
<1>2. ASSUME \A b \in Bookings : Open(b)' => /\ Open(b)
                                            /\ booking'[b].tenant = booking[b].tenant
                                            /\ booking'[b].room = booking[b].room
      PROVE  OneOpenRequest'
  BY <1>2 DEF OneOpenRequest
<1>3. CASE UNCHANGED booking
  BY <1>2, <1>3 DEF HasStatus
<1>4. CASE PropertyNext \/ TenancyNext \/ UNCHANGED vars
  <2>1. UNCHANGED booking \/ booking' = [b \in Bookings |-> NoRow]
    BY <1>4 DEF PropertyNext, CreateProperty, SetPublishStatus, DeleteProperty, TenancyNext,
                ServeNotice, WriteNotice, TerminateTenancy, WriteTerminated,
                SignDigitalAgreement, WriteSigned, vars
  <2> QED
    BY <2>1, <1>2, <1>3 DEF HasStatus
<1>5. CASE RoomNext
  <2>1. CASE \E r \in Rooms : CreateRoom(r) \/ \E v \in BOOLEAN : UpdateRoom(r, v)
    BY <2>1, <1>3 DEF CreateRoom, UpdateRoom
  <2>2. CASE \E s \in Seats : CreateSeat(s)
    BY <2>2, <1>3 DEF CreateSeat
  <2>3. CASE \E r \in Rooms : DeleteRoom(r)
    BY <2>3, <1>1, <1>2 DEF DeleteRoom, RemoveRoom, HasStatus, TypeOK
  <2>4. CASE \E s \in Seats : DeleteSeat(s)
    BY <2>4, <1>1, <1>2 DEF DeleteSeat, HasStatus, TypeOK, BookingRow
  <2> QED
    BY <1>5, <2>1, <2>2, <2>3, <2>4 DEF RoomNext
<1>6. CASE BookingNext
  <2>1. ASSUME NEW b \in Bookings, NEW t \in Tenants, NEW r \in Rooms,
               NEW s \in Seats \cup {NoSeat}, NEW v \in FirstVisit,
               CreateBookingRequest(b, t, r, s, v)
        PROVE  OneOpenRequest'
    <3>1. /\ booking'[b].tenant = t /\ booking'[b].room = r
          /\ \A c \in Bookings \ {b} : booking'[c] = booking[c]
      BY <2>1, <1>1 DEF CreateBookingRequest, InsertBooking, TypeOK
    <3>2. \A c \in Bookings : Open(c) => booking[c].tenant # t \/ booking[c].room # r
      BY <2>1 DEF CreateBookingRequest, HasOpenRequest
    <3> SUFFICES ASSUME NEW c \in Bookings, NEW d \in Bookings, Open(c)', Open(d)',
                        booking'[c].tenant = booking'[d].tenant,
                        booking'[c].room = booking'[d].room
                 PROVE  c = d
      BY DEF OneOpenRequest
    <3>3. CASE c # b /\ d # b
      BY <3>1, <3>3 DEF OneOpenRequest, HasStatus
    <3>4. CASE c = b \/ d = b
      BY <3>1, <3>2, <3>4 DEF HasStatus
    <3> QED
      BY <3>3, <3>4
  <2>2. ASSUME NEW b \in Bookings,
               \/ CancelBooking(b) \/ OwnerReject(b) \/ ConfirmVisit(b) \/ MarkVisited(b)
               \/ OwnerApprove(b) \/ PayAdvance(b)
        PROVE  OneOpenRequest'
    <3>1. booking[b] \in BookingRow /\ booking[b] # NoRow
      BY <2>2, <1>1 DEF TypeOK, CancelBooking, OwnerReject, ConfirmVisit, MarkVisited,
                        OwnerApprove, PayAdvance, CanPay, HasStatus
    <3>2. Open(b)' => Open(b)
      <4>1. CASE ConfirmVisit(b) \/ MarkVisited(b)
        BY <4>1, <3>1, <1>1
           DEF TypeOK, ConfirmVisit, MarkVisited, WriteVisit, HasStatus, BookingRow
      <4>2. CASE CancelBooking(b) \/ OwnerReject(b)
        BY <4>2, <3>1, <1>1
           DEF TypeOK, CancelBooking, WriteCancelled, OwnerReject, WriteRejected, HasStatus,
               BookingRow
      <4>3. CASE OwnerApprove(b) \/ PayAdvance(b)
        BY <4>3, <3>1, <1>1
           DEF TypeOK, OwnerApprove, WriteApproved, PayAdvance, WritePaid, HasStatus, BookingRow
      <4> QED
        BY <2>2, <4>1, <4>2, <4>3
    <3> QED
      BY <2>2, <3>1, <3>2, <1>1, <1>2, BookingUpdate DEF HasStatus
  <2> QED
    BY <1>6, <2>1, <2>2 DEF BookingNext
<1> QED
  BY <1>4, <1>5, <1>6 DEF Next

\* A tenant never has two open requests for the same room.
THEOREM OpenRequestsAreUnique == Spec => []OneOpenRequest
<1>1. Init => OneOpenRequest
  BY DEF Init, OneOpenRequest, HasStatus
<1> QED
  BY <1>1, NextOneOpen, SeatInvariant, PTL DEF Spec

-----------------------------------------------------------------------------
(* A tenancy that has ended stays ended.                                   *)

\* The only ways a tenancy's status changes.
LEMMA NextStatus ==
  ASSUME SeatInv, [Next]_vars, NEW b \in Bookings, tenancy[b] # NoRow, tenancy'[b] # NoRow
  PROVE  \/ tenancy'[b].status = tenancy[b].status
         \/ tenancy[b].status = "ACTIVE" /\ tenancy'[b].status = "NOTICE_SERVED"
         \/ tenancy'[b].status = "TERMINATED"
<1>1. TypeOK /\ tenancy[b] \in TenancyRow
  BY DEF SeatInv, TypeOK
<1>2. CASE tenancy'[b] = tenancy[b]
  BY <1>2
<1>3. CASE PropertyNext \/ RoomNext \/ UNCHANGED vars
  <2>1. tenancy' = tenancy \/ tenancy'[b] \in {NoRow, tenancy[b]}
    BY <1>3 DEF PropertyNext, CreateProperty, SetPublishStatus, DeleteProperty, RoomNext,
                CreateRoom, UpdateRoom, DeleteRoom, RemoveRoom, CreateSeat, DeleteSeat, vars
  <2> QED
    BY <2>1, <1>2
<1>4. CASE BookingNext
  <2>1. ASSUME NEW c \in Bookings, OwnerApprove(c) PROVE tenancy'[b] = tenancy[b]
    <3>1. tenancy[c] = NoRow
      BY <2>1 DEF SeatInv, TenancyIffGranted, OwnerApprove, HasStatus
    <3> QED
      BY <2>1, <3>1, <1>1 DEF OwnerApprove, WriteApproved, TypeOK
  <2>2. ASSUME NEW c \in Bookings, PayAdvance(c) PROVE tenancy'[b] = tenancy[b]
    BY <2>2, <1>1 DEF PayAdvance, WritePaid, TypeOK
  <2> QED
    BY <1>2, <1>4, <2>1, <2>2
       DEF BookingNext, CreateBookingRequest, InsertBooking, CancelBooking, WriteCancelled,
           OwnerReject, WriteRejected, ConfirmVisit, MarkVisited, WriteVisit
<1>5. CASE TenancyNext
  <2>1. ASSUME NEW c \in Bookings, ServeNotice(c)
        PROVE  \/ tenancy'[b] = tenancy[b]
               \/ tenancy[b].status = "ACTIVE" /\ tenancy'[b].status = "NOTICE_SERVED"
    BY <2>1, <1>1 DEF ServeNotice, WriteNotice, TenancyIn, TypeOK, TenancyRow
  <2>2. ASSUME NEW c \in Bookings, TerminateTenancy(c)
        PROVE  tenancy'[b] = tenancy[b] \/ tenancy'[b].status = "TERMINATED"
    BY <2>2, <1>1 DEF TerminateTenancy, WriteTerminated, TypeOK, TenancyRow
  <2>3. ASSUME NEW c \in Bookings, NEW p \in Party, SignDigitalAgreement(c, p)
        PROVE  tenancy'[b].status = tenancy[b].status
    BY <2>3, <1>1 DEF SignDigitalAgreement, WriteSigned, TypeOK, TenancyRow
  <2> QED
    BY <1>2, <1>5, <2>1, <2>2, <2>3 DEF TenancyNext
<1> QED
  BY <1>3, <1>4, <1>5 DEF Next

\* No operation makes an ended tenancy live again.
LEMMA NextEnded ==
  SeatInv /\ [Next]_vars =>
    \A b \in Bookings : TenancyIn(b, {"TERMINATED"}) /\ tenancy'[b] # NoRow
                          => tenancy'[b].status = "TERMINATED"
BY NextStatus DEF TenancyIn

\* No operation makes an ended tenancy live again, when requests do not overlap.
THEOREM EndedTenanciesStayEnded == Spec => EndedStaysEnded
<1>1. SeatInv /\ [Next]_vars =>
        [\A b \in Bookings : TenancyIn(b, {"TERMINATED"}) /\ tenancy'[b] # NoRow
                               => tenancy'[b].status = "TERMINATED"]_vars
  BY NextEnded
<1> QED
  BY <1>1, SeatInvariant, PTL DEF Spec, EndedStaysEnded

-----------------------------------------------------------------------------
(* The occupancy of a room covers the tenancies in it.                     *)

\* Whoever lives in a room has a request for it, and there are finitely many.
LEMMA LiveInRoom ==
  ASSUME SeatInv, NEW r \in Rooms
  PROVE  /\ LiveIn(r) = {b \in Bookings : Live(b) /\ booking[b].room = r}
         /\ IsFiniteSet(LiveIn(r)) /\ Cardinality(LiveIn(r)) \in Nat
         /\ room[r] = NoRow => LiveIn(r) = {}
<1>1. \A b \in Bookings : Live(b) => booking[b] # NoRow
  BY DEF SeatInv, TenancyIffGranted, HasStatus, Live, TenancyIn
<1>2. LiveIn(r) = {b \in Bookings : Live(b) /\ booking[b].room = r}
  BY <1>1 DEF LiveIn, InRoom
<1>3. IsFiniteSet(LiveIn(r))
  <2>1. LiveIn(r) \subseteq Bookings
    BY DEF LiveIn
  <2> QED BY <2>1, FS_Subset, RentalAssumption
<1>4. room[r] = NoRow => LiveIn(r) = {}
  BY <1>1, <1>2 DEF SeatInv, ForeignKeys
<1> QED BY <1>2, <1>3, <1>4, FS_CardinalityType

\* The same after a step.
LEMMA LiveInRoomNext ==
  ASSUME SeatInv', NEW r \in Rooms
  PROVE  LiveIn(r)' = {b \in Bookings : Live(b)' /\ booking'[b].room = r}
<1>1. \A b \in Bookings : Live(b)' => booking'[b] # NoRow
  BY DEF SeatInv, TenancyIffGranted, HasStatus, Live, TenancyIn
<1> QED BY <1>1 DEF LiveIn, InRoom

Covers(r) == room[r] # NoRow => Cardinality(LiveIn(r)) <= room[r].current_occupancy

\* A room whose occupancy stays covers what it covered, and less.
LEMMA RoomCovers ==
  ASSUME SeatInv, SeatInv', NEW r \in Rooms, Covers(r),
         LiveIn(r)' \subseteq LiveIn(r),
         room[r] # NoRow /\ room'[r] # NoRow
           => room'[r].current_occupancy = room[r].current_occupancy
  PROVE  Covers(r)'
<1> SUFFICES ASSUME room'[r] # NoRow
             PROVE  Cardinality(LiveIn(r)') <= room'[r].current_occupancy
  BY DEF Covers
<1>1. room'[r].current_occupancy \in Nat
  BY DEF SeatInv, TypeOK, RoomRow
<1>2. CASE room[r] = NoRow
  <2>1. LiveIn(r)' = {}
    BY <1>2, LiveInRoom
  <2> QED BY <1>1, <2>1, FS_EmptySet
<1>3. CASE room[r] # NoRow
  <2>1. Cardinality(LiveIn(r)') <= Cardinality(LiveIn(r)) /\ Cardinality(LiveIn(r)') \in Nat
        /\ Cardinality(LiveIn(r)) \in Nat
    BY LiveInRoom, FS_Subset, FS_CardinalityType
  <2>2. Cardinality(LiveIn(r)) <= room[r].current_occupancy
    BY <1>3 DEF Covers
  <2> QED BY <1>1, <1>3, <2>1, <2>2
<1> QED BY <1>2, <1>3

\* A step after which everybody lives where he lived before, and nobody is
\* counted in or out, leaves every room covered.
LEMMA QuietCovers ==
  ASSUME SeatInv, SeatInv', OccupancyCoversTenancies,
         \A b \in Bookings : Live(b)' => Live(b) /\ booking'[b].room = booking[b].room,
         \A r \in Rooms : room[r] # NoRow /\ room'[r] # NoRow
                         => room'[r].current_occupancy = room[r].current_occupancy
  PROVE  OccupancyCoversTenancies'
<1> SUFFICES ASSUME NEW r \in Rooms
             PROVE  Covers(r)'
  BY DEF Covers, OccupancyCoversTenancies
<1>1. LiveIn(r)' = {b \in Bookings : Live(b)' /\ booking'[b].room = r}
  BY LiveInRoomNext
<1>2. LiveIn(r)' \subseteq LiveIn(r)
  BY <1>1, LiveInRoom
<1> QED BY <1>2, RoomCovers DEF Covers, OccupancyCoversTenancies

\* An approval or a payment lets at most one more live in the room, and counts him.
LEMMA GrantCovers ==
  ASSUME SeatInv, SeatInv', OccupancyCoversTenancies,
         NEW b \in Bookings, OwnerApprove(b) \/ PayAdvance(b)
  PROVE  OccupancyCoversTenancies'
<1> SUFFICES ASSUME NEW r \in Rooms
             PROVE  Covers(r)'
  BY DEF Covers, OccupancyCoversTenancies
<1> DEFINE q == booking[b].room
<1>1. booking[b] \in BookingRow /\ room[q] \in RoomRow /\ room[q] # NoRow
  BY DEF SeatInv, TypeOK, BookingRow, OwnerApprove, PayAdvance, CanPay, HasStatus
<1>2. /\ booking'[b].room = q
      /\ \A c \in Bookings \ {b} : booking'[c] = booking[c] /\ tenancy'[c] = tenancy[c]
  <2>1. \A c \in Bookings \ {b} : tenancy'[c] = tenancy[c]
    BY DEF SeatInv, TypeOK, OwnerApprove, WriteApproved, PayAdvance, WritePaid
  <2> QED BY <1>1, <2>1, BookingUpdate, RentalAssumption DEF SeatInv
<1>3. room' = [room EXCEPT ![q] = OneMore(q, room[q])]
  BY DEF OwnerApprove, WriteApproved, PayAdvance, WritePaid, TakePlace
<1>4. OneMore(q, room[q]).current_occupancy = room[q].current_occupancy + 1
  BY DEF OneMore
<1>5. LiveIn(r)' = {c \in Bookings : Live(c)' /\ booking'[c].room = r}
  BY LiveInRoomNext
<1>6. LiveIn(r) = {c \in Bookings : Live(c) /\ booking[c].room = r}
  BY LiveInRoom
<1>7. CASE r # q
  <2>1. LiveIn(r)' \subseteq LiveIn(r)
    BY <1>2, <1>5, <1>6, <1>7 DEF Live, TenancyIn
  <2>2. room'[r] = room[r]
    BY <1>3, <1>7 DEF SeatInv, TypeOK
  <2> QED BY <2>1, <2>2, RoomCovers DEF Covers, OccupancyCoversTenancies
<1>8. CASE r = q
  <2>1. LiveIn(r)' \subseteq LiveIn(r) \cup {b}
    BY <1>2, <1>5, <1>6 DEF Live, TenancyIn
  <2>2. /\ IsFiniteSet(LiveIn(r) \cup {b})
        /\ Cardinality(LiveIn(r) \cup {b}) <= Cardinality(LiveIn(r)) + 1
    <3>1. IsFiniteSet(LiveIn(r)) /\ Cardinality(LiveIn(r)) \in Nat
      BY LiveInRoom
    <3> QED BY <3>1, FS_AddElement
  <2>3. Cardinality(LiveIn(r)') <= Cardinality(LiveIn(r)) + 1
    <3>1. Cardinality(LiveIn(r)') <= Cardinality(LiveIn(r) \cup {b})
      BY <2>1, <2>2, FS_Subset
    <3>2. /\ Cardinality(LiveIn(r)) \in Nat /\ Cardinality(LiveIn(r)') \in Nat
          /\ Cardinality(LiveIn(r) \cup {b}) \in Nat
      <4>1. IsFiniteSet(LiveIn(r)')
        BY <2>1, <2>2, FS_Subset
      <4> QED BY <2>2, <4>1, LiveInRoom, FS_CardinalityType
    <3> QED BY <2>2, <3>1, <3>2
  <2>4. room'[r].current_occupancy = room[r].current_occupancy + 1
    BY <1>1, <1>3, <1>4, <1>8 DEF SeatInv, TypeOK
  <2>5. Cardinality(LiveIn(r)) <= room[r].current_occupancy /\ Cardinality(LiveIn(r)) \in Nat
    BY <1>1, <1>8, LiveInRoom DEF OccupancyCoversTenancies
  <2>6. Cardinality(LiveIn(r)') \in Nat /\ room[r].current_occupancy \in Nat
    <3>1. IsFiniteSet(LiveIn(r)')
      BY <2>1, <2>2, FS_Subset
    <3> QED BY <1>1, <1>8, <3>1, FS_CardinalityType DEF RoomRow
  <2> QED BY <2>3, <2>4, <2>5, <2>6 DEF Covers
<1> QED BY <1>7, <1>8

\* A move-out takes one of those who are counted.
LEMMA MoveOutCovers ==
  ASSUME SeatInv, SeatInv', OccupancyCoversTenancies,
         NEW b \in Bookings, TerminateTenancy(b)
  PROVE  OccupancyCoversTenancies'
<1> SUFFICES ASSUME NEW r \in Rooms
             PROVE  Covers(r)'
  BY DEF Covers, OccupancyCoversTenancies
<1> DEFINE q == booking[b].room
<1>1. Live(b) /\ booking[b] \in BookingRow
  BY DEF TerminateTenancy, SeatInv, TypeOK, TenancyIffGranted, HasStatus, Live, TenancyIn
<1>2. q \in Rooms /\ room[q] \in RoomRow /\ room[q] # NoRow
  BY <1>1, RentalAssumption DEF SeatInv, TypeOK, ForeignKeys, BookingRow
<1>3. booking' = booking /\ \A c \in Bookings \ {b} : tenancy'[c] = tenancy[c]
  BY DEF SeatInv, TypeOK, TerminateTenancy, WriteTerminated
<1>4. ~Live(b)'
  BY <1>1 DEF SeatInv, TypeOK, TerminateTenancy, WriteTerminated, Live, TenancyIn, TenancyRow
<1>5. room' = [room EXCEPT ![q] = OneLess(room[q])]
  BY DEF TerminateTenancy, WriteTerminated, LeavePlace
<1>6. LiveIn(r)' = {c \in Bookings : Live(c)' /\ booking[c].room = r}
  BY <1>3, LiveInRoomNext
<1>7. LiveIn(r) = {c \in Bookings : Live(c) /\ booking[c].room = r}
  BY LiveInRoom
<1>8. LiveIn(r)' \subseteq LiveIn(r) \ {b}
  BY <1>3, <1>4, <1>6, <1>7 DEF Live, TenancyIn
<1>9. CASE r # q
  <2>1. room'[r] = room[r] /\ LiveIn(r)' \subseteq LiveIn(r)
    BY <1>5, <1>8, <1>9 DEF SeatInv, TypeOK
  <2> QED BY <2>1, RoomCovers DEF Covers, OccupancyCoversTenancies
<1>10. CASE r = q
  <2>1. b \in LiveIn(r) /\ IsFiniteSet(LiveIn(r)) /\ Cardinality(LiveIn(r)) \in Nat
    BY <1>1, <1>7, <1>10, LiveInRoom
  <2>2. /\ IsFiniteSet(LiveIn(r) \ {b})
        /\ Cardinality(LiveIn(r) \ {b}) = Cardinality(LiveIn(r)) - 1
    BY <2>1, FS_RemoveElement
  <2>3. /\ Cardinality(LiveIn(r)') <= Cardinality(LiveIn(r)) - 1
        /\ Cardinality(LiveIn(r)') \in Nat
    BY <1>8, <2>2, FS_Subset, FS_CardinalityType
  <2>4. Cardinality(LiveIn(r)) <= room[r].current_occupancy
    BY <1>2, <1>10 DEF OccupancyCoversTenancies
  <2>5. room[r].current_occupancy \in Nat /\ room[r].current_occupancy - 1 >= 0
    <3>1. room[r].current_occupancy \in Nat
      BY <1>2, <1>10 DEF RoomRow
    <3> QED BY <2>1, <2>3, <2>4, <3>1
  <2>6. room'[r].current_occupancy = room[r].current_occupancy - 1
    BY <1>2, <1>5, <1>10, <2>5 DEF OneLess, SeatInv, TypeOK
  <2> QED BY <2>1, <2>3, <2>4, <2>5, <2>6 DEF Covers
<1> QED BY <1>9, <1>10

\* Every operation leaves the rooms covered.
LEMMA NextCovers == SeatInv /\ OccupancyCoversTenancies /\ [Next]_vars => OccupancyCoversTenancies'
<1> SUFFICES ASSUME SeatInv, OccupancyCoversTenancies, [Next]_vars
             PROVE  OccupancyCoversTenancies'
  OBVIOUS
<1> SeatInv'
  BY NextSeatInv
<1>1. \A b \in Bookings : Live(b) => booking[b] \in BookingRow
  BY DEF SeatInv, TypeOK, TenancyIffGranted, HasStatus, Live, TenancyIn
<1>2. CASE PropertyNext
  <2>1. \/ UNCHANGED <<room, booking, tenancy>>
        \/ tenancy' = [b \in Bookings |-> NoRow] /\ room' = [r \in Rooms |-> NoRow]
    BY <1>2 DEF PropertyNext, CreateProperty, SetPublishStatus, DeleteProperty
  <2> QED BY <2>1, QuietCovers DEF Live, TenancyIn
<1>3. CASE RoomNext
  <2>1. CASE \E r \in Rooms : CreateRoom(r) \/ \E v \in BOOLEAN : UpdateRoom(r, v)
    <3>1. UNCHANGED <<booking, tenancy>>
      BY <2>1 DEF CreateRoom, UpdateRoom
    <3>2. \A r \in Rooms : room[r] # NoRow
            => room'[r].current_occupancy = room[r].current_occupancy
      BY <2>1 DEF CreateRoom, UpdateRoom, SeatInv, TypeOK, RoomRow
    <3> QED BY <3>1, <3>2, QuietCovers DEF Live, TenancyIn
  <2>2. ASSUME NEW r \in Rooms, DeleteRoom(r) PROVE OccupancyCoversTenancies'
    <3>1. \A b \in Bookings : /\ tenancy'[b] \in {tenancy[b], NoRow}
                              /\ tenancy'[b] # NoRow => booking'[b] = booking[b]
      BY <2>2 DEF DeleteRoom, RemoveRoom
    <3>2. \A x \in Rooms : room'[x] \in {room[x], NoRow}
      BY <2>2 DEF DeleteRoom, RemoveRoom, SeatInv, TypeOK
    <3> QED BY <3>1, <3>2, QuietCovers DEF Live, TenancyIn
  <2>3. ASSUME NEW s \in Seats, CreateSeat(s) PROVE OccupancyCoversTenancies'
    BY <2>3, QuietCovers DEF CreateSeat, Live, TenancyIn
  <2>4. ASSUME NEW s \in Seats, DeleteSeat(s) PROVE OccupancyCoversTenancies'
    <3>1. UNCHANGED <<room, tenancy>> /\ \A b \in Bookings : Live(b)' <=> Live(b)
      BY <2>4 DEF DeleteSeat, Live, TenancyIn
    <3>2. \A b \in Bookings : Live(b) => booking'[b].room = booking[b].room
      BY <2>4, <1>1 DEF DeleteSeat, BookingRow
    <3> QED BY <3>1, <3>2, QuietCovers
  <2> QED BY <1>3, <2>1, <2>2, <2>3, <2>4 DEF RoomNext
<1>4. CASE BookingNext
  <2>1. ASSUME NEW b \in Bookings, NEW t \in Tenants, NEW r \in Rooms,
               NEW s \in Seats \cup {NoSeat}, NEW v \in FirstVisit,
               CreateBookingRequest(b, t, r, s, v)
        PROVE  OccupancyCoversTenancies'
    <3>1. ~Live(b) /\ UNCHANGED <<room, tenancy>>
      BY <2>1 DEF SeatInv, TenancyIffGranted, HasStatus, Live, TenancyIn,
                  CreateBookingRequest, InsertBooking
    <3>2. \A c \in Bookings \ {b} : booking'[c] = booking[c]
      BY <2>1 DEF CreateBookingRequest, InsertBooking, SeatInv, TypeOK
    <3> QED BY <3>1, <3>2, QuietCovers DEF Live, TenancyIn
  <2>2. ASSUME NEW b \in Bookings,
               CancelBooking(b) \/ OwnerReject(b) \/ ConfirmVisit(b) \/ MarkVisited(b)
        PROVE  OccupancyCoversTenancies'
    <3>1. booking[b] # NoRow /\ UNCHANGED <<room, tenancy>>
      BY <2>2 DEF CancelBooking, WriteCancelled, OwnerReject, WriteRejected, ConfirmVisit,
                  MarkVisited, WriteVisit, HasStatus
    <3>2. \A c \in Bookings : booking'[c].room = booking[c].room
      BY <2>2, <3>1, BookingUpdate DEF SeatInv
    <3> QED BY <3>1, <3>2, QuietCovers DEF Live, TenancyIn
  <2>3. ASSUME NEW b \in Bookings, OwnerApprove(b) \/ PayAdvance(b)
        PROVE  OccupancyCoversTenancies'
    BY <2>3, GrantCovers
  <2> QED BY <1>4, <2>1, <2>2, <2>3 DEF BookingNext
<1>5. CASE TenancyNext
  <2>1. ASSUME NEW b \in Bookings, TerminateTenancy(b) PROVE OccupancyCoversTenancies'
    BY <2>1, MoveOutCovers
  <2>2. ASSUME NEW b \in Bookings, NEW p \in Party, ServeNotice(b) \/ SignDigitalAgreement(b, p)
        PROVE  OccupancyCoversTenancies'
    <3>1. UNCHANGED <<room, booking>>
      BY <2>2 DEF ServeNotice, WriteNotice, SignDigitalAgreement, WriteSigned
    <3>2. \A c \in Bookings : Live(c)' => Live(c)
      BY <2>2, RentalAssumption
         DEF SeatInv, TypeOK, ServeNotice, WriteNotice, SignDigitalAgreement, WriteSigned,
             Live, TenancyIn, TenancyRow
    <3> QED BY <3>1, <3>2, QuietCovers
  <2> QED BY <1>5, <2>1, <2>2 DEF TenancyNext, Party
<1>6. CASE UNCHANGED vars
  BY <1>6, QuietCovers DEF vars, Live, TenancyIn
<1> QED BY <1>2, <1>3, <1>4, <1>5, <1>6 DEF Next

\* At first there are no tenancies to cover.
LEMMA InitCovers == Init => OccupancyCoversTenancies
<1> SUFFICES ASSUME Init, NEW r \in Rooms, room[r] # NoRow
             PROVE  Cardinality(LiveIn(r)) <= room[r].current_occupancy
  BY DEF OccupancyCoversTenancies
<1>1. LiveIn(r) = {} /\ room[r] = EmptyRoom
  BY DEF Init, LiveIn, Live, TenancyIn
<1> QED BY <1>1, FS_EmptySet DEF EmptyRoom

\* No room ever counts fewer occupants than live in it.
THEOREM OccupancyCovers == Spec => []OccupancyCoversTenancies
BY InitCovers, NextCovers, SeatInvariant, PTL DEF Spec
=============================================================================
