------------------------------- MODULE Rental -------------------------------
(***************************************************************************)
(* Rooms, seats, booking requests and tenancies of one property of the     *)
(* BachNest backend, with every request handler as ONE step: what the      *)
(* booking, tenancy, room and property services do to the database when    *)
(* requests do not overlap.  RentalTx runs the same handlers as            *)
(* overlapping transactions and is compared with this specification.       *)
(*                                                                         *)
(* A row that does not exist is NoRow.  Row identifiers are UUIDs; here an *)
(* unused member of Rooms, Seats or Bookings is taken for a new row.  A    *)
(* tenancy has a unique booking_id, and copies tenant, room and seat from  *)
(* its booking, so that tenancies are indexed by their booking.            *)
(*                                                                         *)
(* Tenants are the users who may book here: everyone but the owner of the  *)
(* property.  Every operation below has an actor the code permits (owner,  *)
(* requesting tenant or super admin), hence no guard on the actor.         *)
(***************************************************************************)
EXTENDS Integers, FiniteSets

CONSTANTS
  Tenants,        \* users who may request a booking of the property
  Rooms,          \* identifiers of rooms
  Seats,          \* identifiers of seats
  Bookings,       \* identifiers of booking requests
  RoomOf,         \* RoomOf[s]: the room that seat s is created in
  total_capacity, \* total_capacity[r]: set when r is created, never updated
  FirstVisit,     \* the visit_status values a new request may start with
  NoSeat,         \* seat_id = NULL: a request for the room as such
  NoRow           \* the row does not exist

BookingStatus   == {"REQUESTED", "APPROVED_BY_OWNER", "REJECTED",
                    "DEPOSIT_PAID", "CANCELLED"}
VisitStatus     == {"SCHEDULED", "SKIPPED", "CONFIRMED", "COMPLETED"}
TenancyStatus   == {"ACTIVE", "NOTICE_SERVED", "TERMINATED"}
AgreementStatus == {"PENDING_SIGNATURE", "SIGNED", "EXPIRED"}
Party           == {"TENANT", "LANDLORD"}

RoomRow    == [current_occupancy : Nat, is_available : BOOLEAN]
BookingRow == [tenant : Tenants, room : Rooms, seat : Seats \cup {NoSeat},
               booking_status : BookingStatus, visit_status : VisitStatus]
TenancyRow == [status : TenancyStatus, agreement_status : AgreementStatus,
               signed_by : SUBSET Party]

ASSUME RentalAssumption ==
  /\ IsFiniteSet(Bookings)
  /\ RoomOf \in [Seats -> Rooms]
  /\ total_capacity \in [Rooms -> Nat \ {0}]
  /\ FirstVisit \subseteq {"SCHEDULED", "SKIPPED"}
  /\ NoSeat \notin Seats
  /\ NoRow \notin BOOLEAN /\ NoRow \notin RoomRow
  /\ NoRow \notin BookingRow /\ NoRow \notin TenancyRow

VARIABLES
  is_published,   \* the property's flag, or NoRow
  room,           \* room[r]: the row of room r, or NoRow
  is_occupied,    \* is_occupied[s]: the flag of seat s, or NoRow
  booking,        \* booking[b]: the row of request b, or NoRow
  tenancy         \* tenancy[b]: the row of the tenancy of b, or NoRow

vars == <<is_published, room, is_occupied, booking, tenancy>>

TypeOK ==
  /\ is_published \in BOOLEAN \cup {NoRow}
  /\ room \in [Rooms -> RoomRow \cup {NoRow}]
  /\ is_occupied \in [Seats -> BOOLEAN \cup {NoRow}]
  /\ booking \in [Bookings -> BookingRow \cup {NoRow}]
  /\ tenancy \in [Bookings -> TenancyRow \cup {NoRow}]

EmptyRoom == [current_occupancy |-> 0, is_available |-> TRUE]

NewTenancy == [status |-> "ACTIVE", agreement_status |-> "PENDING_SIGNATURE",
               signed_by |-> {}]

\* Either an empty database or a seeded one: rooms and seats, no requests.
Init ==
  /\ \/ /\ is_published = NoRow
        /\ room = [r \in Rooms |-> NoRow]
        /\ is_occupied = [s \in Seats |-> NoRow]
     \/ /\ is_published = TRUE
        /\ room = [r \in Rooms |-> EmptyRoom]
        /\ is_occupied = [s \in Seats |-> FALSE]
  /\ booking = [b \in Bookings |-> NoRow]
  /\ tenancy = [b \in Bookings |-> NoRow]

HasStatus(b, S)  == booking[b] # NoRow /\ booking[b].booking_status \in S
TenancyIn(b, S)  == tenancy[b] # NoRow /\ tenancy[b].status \in S
Live(b)          == TenancyIn(b, {"ACTIVE", "NOTICE_SERVED"})
InRoom(b, r)     == booking[b] # NoRow /\ booking[b].room = r
LiveIn(r)        == {b \in Bookings : Live(b) /\ InRoom(b, r)}
SeatFree(s)      == s # NoSeat => is_occupied[s] = FALSE

-----------------------------------------------------------------------------
(* Property, rooms and seats.                                              *)

CreateProperty ==
  /\ is_published = NoRow
  /\ is_published' = FALSE
  /\ UNCHANGED <<room, is_occupied, booking, tenancy>>

SetPublishStatus(v) ==
  /\ is_published # NoRow
  /\ is_published' = v
  /\ UNCHANGED <<room, is_occupied, booking, tenancy>>

\* The foreign keys cascade: rooms of the property, their seats, the requests
\* for them and the tenancies in them go too.
DeleteProperty ==
  /\ is_published # NoRow
  /\ is_published' = NoRow
  /\ room' = [r \in Rooms |-> NoRow]
  /\ is_occupied' = [s \in Seats |-> NoRow]
  /\ booking' = [b \in Bookings |-> NoRow]
  /\ tenancy' = [b \in Bookings |-> NoRow]

CreateRoom(r) ==
  /\ is_published # NoRow /\ room[r] = NoRow
  /\ room' = [room EXCEPT ![r] = EmptyRoom]
  /\ UNCHANGED <<is_published, is_occupied, booking, tenancy>>

\* The owner may set is_available to anything, whatever the occupancy.
UpdateRoom(r, v) ==
  /\ room[r] # NoRow
  /\ room' = [room EXCEPT ![r].is_available = v]
  /\ UNCHANGED <<is_published, is_occupied, booking, tenancy>>

RemoveRoom(r) ==
  /\ room' = [room EXCEPT ![r] = NoRow]
  /\ is_occupied' = [s \in Seats |-> IF RoomOf[s] = r THEN NoRow
                                                      ELSE is_occupied[s]]
  /\ booking' = [b \in Bookings |-> IF InRoom(b, r) THEN NoRow ELSE booking[b]]
  /\ tenancy' = [b \in Bookings |-> IF InRoom(b, r) THEN NoRow ELSE tenancy[b]]
  /\ UNCHANGED is_published

DeleteRoom(r) ==
  /\ room[r] # NoRow
  /\ LiveIn(r) = {}
  /\ RemoveRoom(r)

CreateSeat(s) ==
  /\ room[RoomOf[s]] # NoRow /\ is_occupied[s] = NoRow
  /\ is_occupied' = [is_occupied EXCEPT ![s] = FALSE]
  /\ UNCHANGED <<is_published, room, booking, tenancy>>

\* No check that the seat is free: requests and tenancies lose their seat_id.
DeleteSeat(s) ==
  /\ is_occupied[s] # NoRow
  /\ is_occupied' = [is_occupied EXCEPT ![s] = NoRow]
  /\ booking' = [b \in Bookings |->
                   IF booking[b] # NoRow /\ booking[b].seat = s
                     THEN [booking[b] EXCEPT !.seat = NoSeat]
                     ELSE booking[b]]
  /\ UNCHANGED <<is_published, room, tenancy>>

-----------------------------------------------------------------------------
(* Booking requests.  A handler's checks (Can...) are separate from its    *)
(* writes, because RentalTx does them at different moments.                *)

RoomOpen(r) == room[r] # NoRow /\ room[r].is_available

SeatOpen(r, s) == s # NoSeat => RoomOf[s] = r /\ is_occupied[s] = FALSE

HasOpenRequest(t, r) ==
  \E b \in Bookings : /\ HasStatus(b, {"REQUESTED"})
                      /\ booking[b].tenant = t /\ booking[b].room = r

InsertBooking(b, t, r, s, v) ==
  /\ booking[b] = NoRow
  /\ booking' = [booking EXCEPT ![b] =
                   [tenant |-> t, room |-> r, seat |-> s,
                    booking_status |-> "REQUESTED", visit_status |-> v]]
  /\ UNCHANGED <<is_published, room, is_occupied, tenancy>>

CreateBookingRequest(b, t, r, s, v) ==
  /\ is_published = TRUE
  /\ RoomOpen(r) /\ SeatOpen(r, s)
  /\ ~HasOpenRequest(t, r)
  /\ InsertBooking(b, t, r, s, v)

WriteCancelled(b) ==
  /\ booking' = [booking EXCEPT ![b].booking_status = "CANCELLED"]
  /\ UNCHANGED <<is_published, room, is_occupied, tenancy>>

\* Mutant: an approved request can be cancelled as well.
MutCancelApproved(b) ==
  HasStatus(b, {"REQUESTED", "APPROVED_BY_OWNER"}) /\ WriteCancelled(b)

CancelBooking(b) == HasStatus(b, {"REQUESTED"}) /\ WriteCancelled(b)

\* Mutant: the occupant of a seat is not counted as an occupant of the room.
MutOneMoreUncounted(r, row) ==
  [row EXCEPT !.is_available =
     row.current_occupancy < total_capacity[r] /\ row.is_available]

\* One more occupant of r; row is the row of r as the handler has read it.  A
\* full room is not offered any more.
OneMore(r, row) ==
  LET n == row.current_occupancy + 1
  IN [current_occupancy |-> n,
      is_available |-> n < total_capacity[r] /\ row.is_available]

\* Mutant: the seat is not marked occupied.
MutTakePlaceNotSeat(r, s, row) ==
  /\ room' = [room EXCEPT ![r] = OneMore(r, row)]
  /\ UNCHANGED is_occupied

TakePlace(r, s, row) ==
  /\ room' = [room EXCEPT ![r] = OneMore(r, row)]
  /\ is_occupied' = IF s = NoSeat THEN is_occupied
                    ELSE [is_occupied EXCEPT ![s] = TRUE]

\* The approval checks that the seat is free, not that the room has a place.
WriteApproved(b, row) ==
  /\ TakePlace(booking[b].room, booking[b].seat, row)
  /\ booking' = [booking EXCEPT ![b].booking_status = "APPROVED_BY_OWNER"]
  /\ tenancy' = [tenancy EXCEPT ![b] = NewTenancy]
  /\ UNCHANGED is_published

\* Mutant: the approval trusts the check made when the request was created.
MutApproveTakenSeat(b) ==
  /\ HasStatus(b, {"REQUESTED"})
  /\ room[booking[b].room] # NoRow
  /\ WriteApproved(b, room[booking[b].room])

OwnerApprove(b) ==
  /\ HasStatus(b, {"REQUESTED"})
  /\ room[booking[b].room] # NoRow
  /\ SeatFree(booking[b].seat)
  /\ WriteApproved(b, room[booking[b].room])

WriteRejected(b) ==
  /\ booking' = [booking EXCEPT ![b].booking_status = "REJECTED"]
  /\ UNCHANGED <<is_published, room, is_occupied, tenancy>>

OwnerReject(b) == HasStatus(b, {"REQUESTED"}) /\ WriteRejected(b)

WriteVisit(b, v) ==
  /\ booking' = [booking EXCEPT ![b].visit_status = v]
  /\ UNCHANGED <<is_published, room, is_occupied, tenancy>>

ConfirmVisit(b) == booking[b] # NoRow /\ WriteVisit(b, "CONFIRMED")

MarkVisited(b) == booking[b] # NoRow /\ WriteVisit(b, "COMPLETED")

\* ACTIVE is refused as well; no code sets it.
CanPay(b) == HasStatus(b, BookingStatus \ {"DEPOSIT_PAID"})

WritePaid(b, row) ==
  /\ TakePlace(booking[b].room, booking[b].seat, row)
  /\ booking' = [booking EXCEPT ![b].booking_status = "DEPOSIT_PAID",
                                ![b].visit_status = "COMPLETED"]
  /\ tenancy' = IF tenancy[b] = NoRow
                  THEN [tenancy EXCEPT ![b] = NewTenancy] ELSE tenancy
  /\ UNCHANGED is_published

PayAdvance(b) ==
  /\ CanPay(b)
  /\ room[booking[b].room] # NoRow
  /\ SeatFree(booking[b].seat)
  /\ WritePaid(b, room[booking[b].room])

-----------------------------------------------------------------------------
(* Tenancies.                                                              *)

WriteNotice(b) ==
  /\ tenancy' = [tenancy EXCEPT ![b].status = "NOTICE_SERVED"]
  /\ UNCHANGED <<is_published, room, is_occupied, booking>>

ServeNotice(b) == TenancyIn(b, {"ACTIVE"}) /\ WriteNotice(b)

\* Mutant: one place is given back without max(0, ...).
MutOneLessNoFloor(row) ==
  [current_occupancy |-> row.current_occupancy - 1, is_available |-> TRUE]

\* One occupant of r less, never below zero; the room is offered again.
OneLess(row) ==
  LET n == row.current_occupancy - 1
  IN [current_occupancy |-> IF n < 0 THEN 0 ELSE n, is_available |-> TRUE]

LeavePlace(r, s, row) ==
  /\ room' = [room EXCEPT ![r] = OneLess(row)]
  /\ is_occupied' = IF s = NoSeat THEN is_occupied
                    ELSE [is_occupied EXCEPT ![s] = FALSE]

WriteTerminated(b, row) ==
  /\ LeavePlace(booking[b].room, booking[b].seat, row)
  /\ tenancy' = [tenancy EXCEPT ![b].status = "TERMINATED",
                                ![b].agreement_status = "EXPIRED"]
  /\ UNCHANGED <<is_published, booking>>

\* Mutant: a move-out may be repeated.
MutTerminateAgain(b) ==
  tenancy[b] # NoRow /\ WriteTerminated(b, room[booking[b].room])

\* EVICTED is refused as well; no code sets it.
TerminateTenancy(b) == Live(b) /\ WriteTerminated(b, room[booking[b].room])

\* A second signature is appended to the other party's; a party that signs
\* again replaces the whole list.  No status of the tenancy is refused.  A
\* column that row already has at the new value is not in the UPDATE.
WriteSigned(b, p, row) ==
  /\ tenancy' = [tenancy EXCEPT
                   ![b].signed_by = IF p \in row.signed_by THEN {p}
                                    ELSE row.signed_by \cup {p},
                   ![b].agreement_status = IF row.agreement_status = "SIGNED"
                                           THEN @ ELSE "SIGNED"]
  /\ UNCHANGED <<is_published, room, is_occupied, booking>>

SignDigitalAgreement(b, p) ==
  tenancy[b] # NoRow /\ WriteSigned(b, p, tenancy[b])

-----------------------------------------------------------------------------
PropertyNext ==
  \/ CreateProperty
  \/ \E v \in BOOLEAN : SetPublishStatus(v)
  \/ DeleteProperty

RoomNext ==
  \/ \E r \in Rooms : CreateRoom(r)
  \/ \E r \in Rooms, v \in BOOLEAN : UpdateRoom(r, v)
  \/ \E r \in Rooms : DeleteRoom(r)
  \/ \E s \in Seats : CreateSeat(s)
  \/ \E s \in Seats : DeleteSeat(s)

BookingNext ==
  \/ \E b \in Bookings, t \in Tenants, r \in Rooms, s \in Seats \cup {NoSeat},
        v \in FirstVisit : CreateBookingRequest(b, t, r, s, v)
  \/ \E b \in Bookings : CancelBooking(b)
  \/ \E b \in Bookings : OwnerApprove(b)
  \/ \E b \in Bookings : OwnerReject(b)
  \/ \E b \in Bookings : ConfirmVisit(b)
  \/ \E b \in Bookings : MarkVisited(b)
  \/ \E b \in Bookings : PayAdvance(b)

TenancyNext ==
  \/ \E b \in Bookings : ServeNotice(b)
  \/ \E b \in Bookings : TerminateTenancy(b)
  \/ \E b \in Bookings, p \in Party : SignDigitalAgreement(b, p)

Next == PropertyNext \/ RoomNext \/ BookingNext \/ TenancyNext

Spec == Init /\ [][Next]_vars

-----------------------------------------------------------------------------
(* Properties.                                                             *)

\* What the foreign keys guarantee: the room and the seat of a request exist,
\* and the seat is one of that room.  The handlers rely on it when they follow
\* room_id and seat_id.
ForeignKeys ==
  \A b \in Bookings :
    booking[b] # NoRow =>
      /\ room[booking[b].room] # NoRow
      /\ booking[b].seat # NoSeat =>
           /\ RoomOf[booking[b].seat] = booking[b].room
           /\ is_occupied[booking[b].seat] # NoRow

\* A tenancy exists exactly for the requests that were approved or paid: no
\* tenancy outlives a cancelled or rejected request, none is missing.
TenancyIffGranted ==
  \A b \in Bookings :
    tenancy[b] # NoRow <=> HasStatus(b, {"APPROVED_BY_OWNER", "DEPOSIT_PAID"})

\* Two live tenancies never have the same seat, whatever sequence of requests,
\* approvals, payments, move-outs and deletions led here (approval and
\* pay-advance both hand out seats, terminate gives them back).
SeatExclusive ==
  \A b, c \in Bookings :
    /\ b # c /\ Live(b) /\ Live(c)
    /\ booking[b].seat # NoSeat
    => booking[b].seat # booking[c].seat

\* A seat somebody lives in is marked occupied, so that no further request for
\* it is accepted or approved.
LiveSeatOccupied ==
  \A b \in Bookings :
    Live(b) /\ booking[b].seat # NoSeat => is_occupied[booking[b].seat] = TRUE

\* Seats are let as Lease promises: whoever gets a seat finds it empty, and it
\* never passes from one tenancy to the next in one step, although approval,
\* payment, move-out, settlement and deletion all write it on paths of their own.
SeatHolders == [s \in Seats |-> {b \in Bookings : Live(b) /\ booking[b].seat = s}]

SeatLease == INSTANCE Lease WITH Things <- Seats, Takers <- Bookings,
                                 holders <- SeatHolders

SeatsAreLet == SeatLease!Spec

\* The inductive invariant that SeatExclusive rests on.
SeatInv ==
  TypeOK /\ ForeignKeys /\ TenancyIffGranted /\ LiveSeatOccupied /\ SeatExclusive

\* current_occupancy never undercounts: it is at least the number of live
\* tenancies in the room, so max(0, ...) in terminate_tenancy never cuts in.
OccupancyCoversTenancies ==
  \A r \in Rooms :
    room[r] # NoRow => Cardinality(LiveIn(r)) <= room[r].current_occupancy

\* A tenant has at most one open request per room (the duplicate check of
\* create_booking_request, which raises if it ever finds two).
OneOpenRequest ==
  \A b, c \in Bookings :
    /\ HasStatus(b, {"REQUESTED"}) /\ HasStatus(c, {"REQUESTED"})
    /\ booking[b].tenant = booking[c].tenant /\ booking[b].room = booking[c].room
    => b = c

\* A tenancy that has ended stays ended: no later notice, payment or signature
\* on it makes it live again.
EndedStaysEnded ==
  [][\A b \in Bookings :
       TenancyIn(b, {"TERMINATED"}) /\ tenancy'[b] # NoRow
         => tenancy'[b].status = "TERMINATED"]_vars
=============================================================================
