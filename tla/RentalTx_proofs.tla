--------------------------- MODULE RentalTx_proofs ---------------------------
(***************************************************************************)
(* Theorems about RentalTx, for every number of workers, tenants, rooms,   *)
(* seats and requests.                                                     *)
(*                                                                         *)
(* The invariant says of every request in progress which rows it has       *)
(* locked and which of its checks still hold of them.  A commit writes     *)
(* only rows that it has locked, or that nobody else has (Writes), so that *)
(* what the others know of theirs stays true (OthersKeep).                 *)
(***************************************************************************)
EXTENDS RentalTx, Rental_proofs

-----------------------------------------------------------------------------
(* The invariant.                                                          *)

\* The statement s is done.
Past(q, s) == \E i \in 1..5 : i < q.at /\ Script[q.op][i] = s

\* The rows a request names: a booking that is yet to be inserted, or one whose
\* room and seat are those of the request as long as it exists.
Matches(q) ==
  /\ q.at \in DOMAIN Script[q.op]
  /\ q.op = "create" =>
       /\ q.b \in Bookings /\ q.tenant \in Tenants /\ q.arg \in FirstVisit
       /\ booking[q.b] = NoRow
       /\ q.seat # NoSeat => RoomOf[q.seat] = q.room
  /\ q.op \notin {"create", "delete"} =>
       /\ q.b \in Bookings
       /\ booking[q.b] # NoRow => booking[q.b].room = q.room /\ booking[q.b].seat = q.seat
  /\ q.op = "sign" => /\ q.arg \in Party
                      /\ Past(q, "read") => q.sawTenancy # NoRow

\* The rows it has locked.
Locks(q) ==
  /\ Past(q, "booking") => <<"booking", q.b>> \in q.held
  /\ Past(q, "room") => <<"room", q.room>> \in q.held
  /\ Past(q, "seat") /\ q.seat # NoSeat => <<"seat", q.seat>> \in q.held

\* What it has checked of them.
Knows(q) ==
  /\ Past(q, "booking") =>
       /\ q.op \in {"approve", "reject"} => HasStatus(q.b, {"REQUESTED"})
       /\ q.op = "pay" => CanPay(q.b)
       /\ booking[q.b] # NoRow
  /\ Past(q, "room") =>
       /\ q.sawRoom = room[q.room]
       /\ q.op = "create" => RoomOpen(q.room)
       /\ q.op \in {"approve", "pay"} => room[q.room] # NoRow
  /\ Past(q, "seat") /\ q.op \in {"create", "approve", "pay"} => SeatFree(q.seat)
  /\ Past(q, "dup") => ~HasOpenRequest(q.tenant, q.room)

Fine(q) == Matches(q) /\ Locks(q) /\ Knows(q)

\* Two requests have no locked row in common, and a new booking has a name of
\* its own.
Apart(q, p) ==
  /\ q.held \cap p.held = {}
  /\ q.op = "create" /\ p.op # "delete" => q.b # p.b

Requests ==
  /\ \A w \in Workers : Busy(w) => Fine(req[w]) /\ req[w].op \in Allowed[w]
  /\ \A v, w \in Workers : v # w /\ Busy(v) /\ Busy(w) => Apart(req[v], req[w])

\* What the foreign keys guarantee.
Rows == ForeignKeys /\ \A b \in Bookings : tenancy[b] # NoRow => booking[b] # NoRow

TxInv == TxTypeOK /\ Rows /\ Requests /\ is_published = TRUE

\* The rows that the transaction of w has to itself when it commits.
Own(w) == req[w].held \cup Needs(w)

\* What a commit of request p may write, W being its own rows: it updates or
\* deletes rows of W, and inserts the booking it names in a room of W.
Writes(p, W) ==
  /\ is_published' = is_published
  /\ \A r \in Rooms : room'[r] = room[r] \/ <<"room", r>> \in W
  /\ \A s \in Seats : is_occupied'[s] = is_occupied[s] \/ <<"seat", s>> \in W
  /\ \A b \in Bookings :
       \/ booking'[b] = booking[b]
       \/ booking'[b] = NoRow /\ <<"booking", b>> \in W
       \/ /\ booking[b] # NoRow /\ booking'[b] # NoRow /\ <<"booking", b>> \in W
          /\ booking'[b].tenant = booking[b].tenant
          /\ booking'[b].room = booking[b].room
          /\ booking'[b].seat = booking[b].seat
          /\ booking'[b].booking_status = "REQUESTED" => booking[b].booking_status = "REQUESTED"
       \/ /\ booking[b] = NoRow /\ booking'[b] # NoRow
          /\ p.op = "create" /\ b = p.b /\ booking'[b].room = p.room
          /\ <<"room", p.room>> \in W

-----------------------------------------------------------------------------
(* The scripts.                                                            *)

\* Every operation is one of these, with these statements.
LEMMA ScriptOf ==
  /\ Operation = {"create", "cancel", "approve", "reject", "confirm", "visited", "pay",
                  "notice", "terminate", "sign", "delete"}
  /\ Script["create"] = <<"read", "room", "seat", "dup", "write">>
  /\ \A op \in {"cancel", "notice", "sign", "delete"} : Script[op] = <<"read", "write">>
  /\ \A op \in {"approve", "pay"} : Script[op] = <<"booking", "room", "seat", "write">>
  /\ \A op \in {"reject", "confirm", "visited"} : Script[op] = <<"booking", "write">>
  /\ Script["terminate"] = <<"read", "seat", "room", "write">>
BY DEF Operation, Script

\* A request starts at its first statement, with none behind it.
LEMMA ScriptStart ==
  ASSUME NEW q, q.op \in Operation, q.at = 1
  PROVE  q.at \in DOMAIN Script[q.op] /\ \A s : ~Past(q, s)
BY ScriptOf DEF Past

\* A statement before the last is followed by another.
LEMMA ScriptNext ==
  ASSUME NEW q \in Request, q.at \in DOMAIN Script[q.op], Script[q.op][q.at] # "write"
  PROVE  q.at \in 1..4 /\ q.at + 1 \in DOMAIN Script[q.op]
BY ScriptOf DEF Request

\* What is behind a request that is about to commit.
LEMMA ScriptEnd ==
  ASSUME NEW q \in Request, q.at \in DOMAIN Script[q.op], Script[q.op][q.at] = "write"
  PROVE  /\ q.op \in {"approve", "reject", "confirm", "visited", "pay"} => Past(q, "booking")
         /\ q.op \in {"create", "approve", "pay", "terminate"}
              => Past(q, "room") /\ Past(q, "seat")
         /\ q.op = "create" => Past(q, "dup")
         /\ q.op \in {"create", "cancel", "notice", "terminate", "sign", "delete"}
              => Past(q, "read")
<1>1. q.op = "create" => q.at = 5
  BY ScriptOf DEF Request
<1>2. q.op \in {"approve", "pay", "terminate"} => q.at = 4
  BY ScriptOf DEF Request
<1>3. q.op \notin {"create", "approve", "pay", "terminate"} => q.at = 2
  BY ScriptOf DEF Request
<1> QED
  BY <1>1, <1>2, <1>3, ScriptOf DEF Past, Request

\* Which operations lock a booking or look for a duplicate, the latter with the
\* room locked.
LEMMA ScriptUses ==
  ASSUME NEW q \in Request, q.at \in DOMAIN Script[q.op]
  PROVE  /\ Past(q, "booking") \/ Script[q.op][q.at] = "booking"
              => q.op \in {"approve", "reject", "pay", "confirm", "visited"}
         /\ Past(q, "dup") \/ Script[q.op][q.at] = "dup" => q.op = "create"
         /\ Past(q, "dup") => Past(q, "room")
<1>1. q.op # "create" => \A i \in DOMAIN Script[q.op] : Script[q.op][i] # "dup"
  BY ScriptOf DEF Request
<1>2. q.op \notin {"approve", "reject", "pay", "confirm", "visited"}
        => \A i \in DOMAIN Script[q.op] : Script[q.op][i] # "booking"
  BY ScriptOf DEF Request
<1>3. \A i \in 1..5 : i < q.at => i \in DOMAIN Script[q.op]
  BY ScriptOf DEF Request
<1>4. q.op = "create" => \A i \in 1..5 : Script[q.op][i] = "dup" => i = 4
  BY ScriptOf
<1>5. q.op = "create" => Script[q.op][2] = "room"
  BY ScriptOf
<1>6. Past(q, "dup") => q.op = "create" /\ 4 < q.at
  BY <1>1, <1>3, <1>4 DEF Past
<1> QED
  BY <1>1, <1>2, <1>3, <1>5, <1>6 DEF Past, Request

\* A later statement: the ones behind it, and the one that is done.
LEMMA PastNext ==
  ASSUME NEW q \in Request, NEW p, q.at \in 1..4, p.op = q.op, p.at = q.at + 1
  PROVE  \A s : Past(p, s) => Past(q, s) \/ s = Script[q.op][q.at]
BY DEF Past, Request

-----------------------------------------------------------------------------
(* What a commit writes.                                                   *)

\* What is known of a request about to commit.
LEMMA AtCommit ==
  ASSUME TxInv, NEW w \in Workers, Commit(w)
  PROVE  /\ req[w] \in Request /\ req[w] # NoRow /\ req[w].op \in Operation
         /\ Fine(req[w]) /\ req[w].op \in Allowed[w]
         /\ Script[req[w].op][req[w].at] = "write"
         /\ Write(req[w]) /\ Passes(w)
         /\ req' = [req EXCEPT ![w] = NoRow]
BY DEF TxInv, TxTypeOK, Requests, Commit, Busy, Stmt, End, Request

\* The bookings of the booking service commit what they would have done in one
\* step: what they checked is still true.
LEMMA BookingCommits ==
  ASSUME TxInv, NEW w \in Workers, NEW q, q = req[w], Commit(w)
  PROVE  /\ q.op = "create" => CreateBookingRequest(q.b, q.tenant, q.room, q.seat, q.arg)
         /\ q.op = "approve" => OwnerApprove(q.b)
         /\ q.op = "reject" => OwnerReject(q.b)
         /\ q.op = "confirm" => ConfirmVisit(q.b)
         /\ q.op = "visited" => MarkVisited(q.b)
         /\ q.op = "pay" => PayAdvance(q.b)
<1>1. /\ q \in Request /\ Matches(q) /\ Knows(q) /\ Write(q)
      /\ q.at \in DOMAIN Script[q.op] /\ Script[q.op][q.at] = "write"
  BY AtCommit DEF Fine, Matches
<1>2. is_published = TRUE
  BY DEF TxInv
<1>3. ASSUME q.op = "create" PROVE CreateBookingRequest(q.b, q.tenant, q.room, q.seat, q.arg)
  <2>1. InsertBooking(q.b, q.tenant, q.room, q.seat, q.arg)
    BY <1>1, <1>3 DEF Write
  <2>2. RoomOpen(q.room) /\ SeatFree(q.seat) /\ ~HasOpenRequest(q.tenant, q.room)
    BY <1>1, <1>3, ScriptEnd DEF Knows
  <2>3. SeatOpen(q.room, q.seat)
    BY <2>2, <1>1, <1>3 DEF SeatOpen, SeatFree, Matches
  <2> QED
    BY <2>1, <2>2, <2>3, <1>2 DEF CreateBookingRequest
<1>4. ASSUME q.op \in {"approve", "pay"}
      PROVE  /\ booking[q.b] # NoRow /\ booking[q.b].room = q.room /\ booking[q.b].seat = q.seat
             /\ q.sawRoom = room[q.room] /\ room[q.room] # NoRow /\ SeatFree(q.seat)
             /\ q.op = "approve" => HasStatus(q.b, {"REQUESTED"})
             /\ q.op = "pay" => CanPay(q.b)
  <2>1. booking[q.b] # NoRow
    BY <1>1, <1>4, ScriptEnd DEF Knows
  <2> QED
    BY <2>1, <1>1, <1>4, ScriptEnd DEF Knows, Matches
<1>5. ASSUME q.op = "approve" PROVE OwnerApprove(q.b)
  BY <1>1, <1>4, <1>5 DEF OwnerApprove, Write
<1>6. ASSUME q.op = "pay" PROVE PayAdvance(q.b)
  BY <1>1, <1>4, <1>6 DEF PayAdvance, Write
<1>7. ASSUME q.op = "reject" PROVE OwnerReject(q.b)
  BY <1>1, <1>7, ScriptEnd DEF OwnerReject, Write, Knows
<1>8. ASSUME q.op \in {"confirm", "visited"}
      PROVE  /\ q.op = "confirm" => ConfirmVisit(q.b)
             /\ q.op = "visited" => MarkVisited(q.b)
  BY <1>1, <1>8, ScriptEnd DEF ConfirmVisit, MarkVisited, Write, Knows
<1> QED
  BY <1>3, <1>5, <1>6, <1>7, <1>8

\* What the others write of rows they may have read long ago.
LEMMA OtherCommits ==
  ASSUME TxInv, NEW w \in Workers, NEW q, q = req[w], Commit(w)
  PROVE  /\ q.op = "cancel" =>
              booking[q.b] # NoRow /\ <<"booking", q.b>> \in Own(w) /\ WriteCancelled(q.b)
         /\ q.op = "notice" => tenancy[q.b] # NoRow /\ WriteNotice(q.b)
         /\ q.op = "sign" => /\ tenancy[q.b] # NoRow /\ q.sawTenancy # NoRow /\ q.arg \in Party
                             /\ WriteSigned(q.b, q.arg, q.sawTenancy)
         /\ q.op = "terminate" =>
              /\ tenancy[q.b] # NoRow /\ booking[q.b] # NoRow
              /\ q.sawRoom = room[booking[q.b].room]
              /\ WriteTerminated(q.b, q.sawRoom)
         /\ q.op = "delete" => RemoveRoom(q.room)
<1>1. /\ q \in Request /\ Matches(q) /\ Knows(q) /\ Write(q) /\ Passes(w) /\ Stmt(w) = "write"
      /\ q.at \in DOMAIN Script[q.op] /\ Script[q.op][q.at] = "write"
  BY AtCommit DEF Fine, Matches, Stmt
<1>2. ASSUME q.op = "cancel"
      PROVE  booking[q.b] # NoRow /\ <<"booking", q.b>> \in Own(w) /\ WriteCancelled(q.b)
  BY <1>1, <1>2 DEF Write, Passes, Own, Needs
<1>3. ASSUME q.op \in {"notice", "sign", "terminate"} PROVE tenancy[q.b] # NoRow /\ q.b \in Bookings
  BY <1>1, <1>3 DEF Passes, Matches
<1>4. ASSUME q.op = "notice" PROVE WriteNotice(q.b)
  BY <1>1, <1>4 DEF Write
<1>5. ASSUME q.op = "sign"
      PROVE  q.sawTenancy # NoRow /\ q.arg \in Party /\ WriteSigned(q.b, q.arg, q.sawTenancy)
  BY <1>1, <1>5, ScriptEnd DEF Write, Matches
<1>6. ASSUME q.op = "terminate"
      PROVE  /\ booking[q.b] # NoRow
             /\ q.sawRoom = room[booking[q.b].room]
             /\ WriteTerminated(q.b, q.sawRoom)
  <2>1. booking[q.b] # NoRow
    BY <1>3, <1>6 DEF TxInv, Rows
  <2>2. booking[q.b].room = q.room
    BY <1>1, <1>6, <2>1 DEF Matches
  <2>3. q.sawRoom = room[q.room]
    BY <1>1, <1>6, ScriptEnd DEF Knows
  <2> QED
    BY <1>1, <1>6, <2>1, <2>2, <2>3 DEF Write
<1>7. ASSUME q.op = "delete" PROVE RemoveRoom(q.room)
  BY <1>1, <1>7 DEF Write
<1> QED
  BY <1>2, <1>3, <1>4, <1>5, <1>6, <1>7

\* The operations whose commit is the step of Rental.
BookingOps == {"create", "approve", "reject", "confirm", "visited", "pay"}

\* A commit of the booking service is a step of Rental.
LEMMA BookingCommitsNext ==
  ASSUME TxInv, NEW w \in Workers, Commit(w), req[w].op \in BookingOps
  PROVE  BookingNext
<1>1. PICK q : q = req[w]
  OBVIOUS
<1>2. q \in Request /\ Matches(q) /\ q.b \in Bookings
  BY <1>1, AtCommit DEF Fine, Matches, BookingOps
<1>3. CASE q.op = "create"
  <2>1. CreateBookingRequest(q.b, q.tenant, q.room, q.seat, q.arg)
    BY <1>1, <1>3, BookingCommits
  <2>2. q.tenant \in Tenants /\ q.room \in Rooms /\ q.seat \in Seats \cup {NoSeat}
        /\ q.arg \in FirstVisit
    BY <1>2, <1>3 DEF Matches, Request
  <2> QED
    BY <1>2, <2>1, <2>2 DEF BookingNext
<1>4. CASE q.op # "create"
  BY <1>1, <1>2, <1>4, BookingCommits DEF BookingNext, BookingOps
<1> QED
  BY <1>3, <1>4

\* A commit keeps every row well typed.
LEMMA CommitType ==
  ASSUME TxInv, NEW w \in Workers, Commit(w)
  PROVE  TypeOK'
<1>1. TypeOK /\ ForeignKeys
  BY DEF TxInv, TxTypeOK, Rows
<1>2. PICK q : q = req[w]
  OBVIOUS
<1>3. q \in Request /\ q.op \in Operation /\ (q.op # "delete" => q.b \in Bookings)
  BY <1>2, AtCommit DEF Fine, Matches
<1>4. CASE q.op \in BookingOps
  BY <1>1, <1>2, <1>4, BookingCommitsNext, BookingNextType
<1>5. CASE q.op = "cancel"
  <2>1. WriteCancelled(q.b) /\ booking[q.b] # NoRow /\ q.b \in Bookings
    BY <1>2, <1>3, <1>5, OtherCommits
  <2> QED
    BY <1>1, <2>1 DEF TypeOK, WriteCancelled, BookingRow, BookingStatus
<1>6. CASE q.op = "notice"
  <2>1. WriteNotice(q.b) /\ tenancy[q.b] # NoRow /\ q.b \in Bookings
    BY <1>2, <1>3, <1>6, OtherCommits
  <2> QED
    BY <1>1, <2>1 DEF TypeOK, WriteNotice, TenancyRow, TenancyStatus
<1>7. CASE q.op = "sign"
  <2>1. tenancy[q.b] \in TenancyRow /\ q.sawTenancy \in TenancyRow /\ q.arg \in Party
    BY <1>1, <1>2, <1>3, <1>7, OtherCommits DEF TypeOK, Request
  <2>2. WriteSigned(q.b, q.arg, q.sawTenancy) /\ q.b \in Bookings
    BY <1>2, <1>3, <1>7, OtherCommits
  <2> QED
    BY <1>1, <2>1, <2>2 DEF TypeOK, WriteSigned, TenancyRow, AgreementStatus
<1>8. CASE q.op = "terminate"
  <2>1. tenancy[q.b] \in TenancyRow /\ booking[q.b] \in BookingRow
    BY <1>1, <1>2, <1>3, <1>8, OtherCommits DEF TypeOK
  <2>2. room[booking[q.b].room] \in RoomRow
    BY <1>1, <1>3, <1>8, <2>1, RentalAssumption DEF TypeOK, ForeignKeys, BookingRow
  <2>3. LeavePlace(booking[q.b].room, booking[q.b].seat, room[booking[q.b].room])
    BY <1>2, <1>8, OtherCommits DEF WriteTerminated
  <2>4. /\ room' \in [Rooms -> RoomRow \cup {NoRow}]
        /\ is_occupied' \in [Seats -> BOOLEAN \cup {NoRow}]
    BY <1>1, <2>1, <2>2, <2>3, PlaceType DEF BookingRow
  <2>5. WriteTerminated(q.b, q.sawRoom) /\ q.b \in Bookings
    BY <1>2, <1>3, <1>8, OtherCommits
  <2> QED
    BY <1>1, <2>1, <2>4, <2>5
       DEF WriteTerminated, TypeOK, TenancyRow, TenancyStatus, AgreementStatus
<1>9. CASE q.op = "delete"
  <2>1. RemoveRoom(q.room)
    BY <1>2, <1>9, OtherCommits
  <2> QED
    BY <1>1, <2>1 DEF TypeOK, RemoveRoom
<1> QED
  BY <1>3, <1>4, <1>5, <1>6, <1>7, <1>8, <1>9, ScriptOf DEF BookingOps

\* A transaction has to itself the rows that it has locked.
LEMMA OwnRows ==
  ASSUME TxInv, NEW w \in Workers, NEW q, q = req[w], Commit(w)
  PROVE  /\ q.op \in {"approve", "reject", "confirm", "visited", "pay"}
              => <<"booking", q.b>> \in Own(w)
         /\ q.op \in {"create", "approve", "pay", "terminate"}
              => /\ <<"room", q.room>> \in Own(w)
                 /\ q.seat # NoSeat => <<"seat", q.seat>> \in Own(w)
BY AtCommit, ScriptEnd DEF Fine, Locks, Matches, Own

\* A commit that takes or leaves a place writes the room and the seat of the
\* request, and no other.
LEMMA PlaceWrites ==
  ASSUME TypeOK, NEW r \in Rooms, NEW s \in Seats \cup {NoSeat}, NEW row, NEW W,
         TakePlace(r, s, row) \/ LeavePlace(r, s, row),
         <<"room", r>> \in W, s # NoSeat => <<"seat", s>> \in W
  PROVE  /\ \A x \in Rooms : room'[x] = room[x] \/ <<"room", x>> \in W
         /\ \A x \in Seats : is_occupied'[x] = is_occupied[x] \/ <<"seat", x>> \in W
BY DEF TypeOK, TakePlace, LeavePlace

\* A commit writes only rows that the transaction has to itself.
LEMMA CommitWrites ==
  ASSUME TxInv, NEW w \in Workers, Commit(w)
  PROVE  Writes(req[w], Own(w))
<1>1. TypeOK /\ ForeignKeys
  BY DEF TxInv, TxTypeOK, Rows
<1>2. PICK q : q = req[w]
  OBVIOUS
<1>3. PICK W : W = Own(w)
  OBVIOUS
<1>4. /\ q \in Request /\ q.op \in Operation /\ (q.op # "delete" => q.b \in Bookings)
      /\ Matches(q)
  BY <1>2, AtCommit DEF Fine, Matches
<1>5. CASE q.op = "create"
  <2>1. /\ CreateBookingRequest(q.b, q.tenant, q.room, q.seat, q.arg)
        /\ <<"room", q.room>> \in W
    BY <1>2, <1>3, <1>5, BookingCommits, OwnRows
  <2>2. /\ UNCHANGED <<is_published, room, is_occupied>>
        /\ booking[q.b] = NoRow /\ booking'[q.b].room = q.room
        /\ \A b \in Bookings \ {q.b} : booking'[b] = booking[b]
    BY <2>1, <1>1, <1>4, <1>5 DEF TypeOK, CreateBookingRequest, InsertBooking
  <2> QED
    BY <1>2, <1>3, <1>5, <2>1, <2>2 DEF Writes
<1>6. ASSUME q.op \in {"cancel", "approve", "reject", "confirm", "visited", "pay"}
      PROVE  /\ <<"booking", q.b>> \in W
             /\ booking[q.b] # NoRow /\ booking'[q.b] # NoRow
             /\ booking'[q.b].tenant = booking[q.b].tenant
             /\ booking'[q.b].room = booking[q.b].room
             /\ booking'[q.b].seat = booking[q.b].seat
             /\ booking'[q.b].booking_status = "REQUESTED"
                  => booking[q.b].booking_status = "REQUESTED"
             /\ \A b \in Bookings \ {q.b} : booking'[b] = booking[b]
  <2>1. CASE q.op = "cancel"
    <3>1. <<"booking", q.b>> \in W /\ booking[q.b] \in BookingRow /\ WriteCancelled(q.b)
      BY <1>1, <1>2, <1>3, <1>4, <2>1, OtherCommits DEF TypeOK
    <3>2. booking'[q.b] = [booking[q.b] EXCEPT !.booking_status = "CANCELLED"]
      BY <1>1, <1>4, <2>1, <3>1 DEF TypeOK, WriteCancelled
    <3>3. booking'[q.b] \in BookingRow
      BY <3>1, <3>2 DEF BookingRow, BookingStatus
    <3> QED
      BY <1>1, <1>4, <2>1, <3>1, <3>2, <3>3, RentalAssumption
         DEF TypeOK, WriteCancelled, BookingRow
  <2>2. CASE q.op # "cancel"
    <3>1. <<"booking", q.b>> \in W /\ q.b \in Bookings
      BY <1>2, <1>3, <1>4, <1>6, <2>2, OwnRows
    <3>2. \/ OwnerReject(q.b) \/ ConfirmVisit(q.b) \/ MarkVisited(q.b)
          \/ OwnerApprove(q.b) \/ PayAdvance(q.b)
      BY <1>2, <1>6, <2>2, BookingCommits
    <3>3. booking[q.b] # NoRow /\ booking[q.b] \in BookingRow
      BY <1>1, <3>1, <3>2
         DEF OwnerReject, ConfirmVisit, MarkVisited, OwnerApprove, PayAdvance, CanPay,
             HasStatus, TypeOK
    <3>4. booking'[q.b].booking_status = "REQUESTED" => booking[q.b].booking_status = "REQUESTED"
      BY <1>1, <3>1, <3>2, <3>3
         DEF TypeOK, OwnerReject, WriteRejected, ConfirmVisit, MarkVisited, WriteVisit,
             OwnerApprove, WriteApproved, PayAdvance, WritePaid, BookingRow
    <3> QED
      BY <1>1, <3>1, <3>2, <3>3, <3>4, BookingUpdate
  <2> QED
    BY <2>1, <2>2
<1>7. CASE q.op \in {"cancel", "reject", "confirm", "visited"}
  <2>1. UNCHANGED <<is_published, room, is_occupied>>
    BY <1>2, <1>7, BookingCommits, OtherCommits
       DEF WriteCancelled, OwnerReject, WriteRejected, ConfirmVisit, MarkVisited, WriteVisit
  <2> QED
    BY <1>2, <1>3, <1>6, <1>7, <2>1 DEF Writes
<1>8. CASE q.op \in {"approve", "pay"}
  <2>1. OwnerApprove(q.b) \/ PayAdvance(q.b)
    BY <1>2, <1>8, BookingCommits
  <2>2. /\ is_published' = is_published
        /\ TakePlace(booking[q.b].room, booking[q.b].seat, room[booking[q.b].room])
    BY <2>1 DEF OwnerApprove, WriteApproved, PayAdvance, WritePaid
  <2>3. booking[q.b].room = q.room /\ booking[q.b].seat = q.seat
    BY <1>4, <1>6, <1>8 DEF Matches
  <2>4. /\ \A x \in Rooms : room'[x] = room[x] \/ <<"room", x>> \in W
        /\ \A x \in Seats : is_occupied'[x] = is_occupied[x] \/ <<"seat", x>> \in W
    BY <1>1, <1>2, <1>3, <1>4, <1>8, <2>2, <2>3, OwnRows, PlaceWrites DEF Request
  <2> QED
    BY <1>2, <1>3, <1>6, <1>8, <2>2, <2>4 DEF Writes
<1>9. CASE q.op = "terminate"
  <2>1. booking[q.b] # NoRow /\ WriteTerminated(q.b, q.sawRoom)
    BY <1>2, <1>9, OtherCommits
  <2>2. booking[q.b].room = q.room /\ booking[q.b].seat = q.seat
    BY <1>4, <1>9, <2>1 DEF Matches
  <2>3. UNCHANGED <<is_published, booking>> /\ LeavePlace(q.room, q.seat, q.sawRoom)
    BY <2>1, <2>2 DEF WriteTerminated
  <2>4. /\ \A x \in Rooms : room'[x] = room[x] \/ <<"room", x>> \in W
        /\ \A x \in Seats : is_occupied'[x] = is_occupied[x] \/ <<"seat", x>> \in W
    BY <1>1, <1>2, <1>3, <1>4, <1>9, <2>3, OwnRows, PlaceWrites DEF Request
  <2> QED
    BY <1>2, <1>3, <2>3, <2>4 DEF Writes
<1>10. CASE q.op \in {"notice", "sign"}
  <2>1. UNCHANGED <<is_published, room, is_occupied, booking>>
    BY <1>2, <1>10, OtherCommits DEF WriteNotice, WriteSigned
  <2> QED
    BY <1>2, <1>3, <2>1 DEF Writes
<1>11. CASE q.op = "delete"
  <2>1. RemoveRoom(q.room)
    BY <1>2, <1>11, OtherCommits
  <2>2. W = req[w].held \cup {<<"room", q.room>>}
              \cup {<<"seat", s>> : s \in {s \in Seats : RoomOf[s] = q.room}}
              \cup {<<"booking", b>> : b \in {b \in Bookings : InRoom(b, q.room)}}
    BY <1>2, <1>3, <1>11 DEF Own, Needs, Commit
  <2>3. is_published' = is_published
    BY <2>1 DEF RemoveRoom
  <2>4. \A r \in Rooms : room'[r] = room[r] \/ <<"room", r>> \in W
    BY <1>1, <2>1, <2>2 DEF TypeOK, RemoveRoom
  <2>5. \A s \in Seats : is_occupied'[s] = is_occupied[s] \/ <<"seat", s>> \in W
    BY <2>1, <2>2 DEF RemoveRoom
  <2>6. \A b \in Bookings :
          booking'[b] = booking[b] \/ (booking'[b] = NoRow /\ <<"booking", b>> \in W)
    BY <2>1, <2>2 DEF RemoveRoom
  <2> QED
    BY <1>2, <1>3, <2>3, <2>4, <2>5, <2>6 DEF Writes
<1> QED
  BY <1>4, <1>5, <1>7, <1>8, <1>9, <1>10, <1>11, ScriptOf

\* A commit that is not the deletion of a room keeps every room and seat row.
LEMMA CommitKeepsRows ==
  ASSUME TxInv, NEW w \in Workers, Commit(w), req[w].op # "delete"
  PROVE  /\ \A r \in Rooms : room[r] # NoRow => room'[r] # NoRow
         /\ \A s \in Seats : is_occupied[s] # NoRow => is_occupied'[s] # NoRow
<1>1. TypeOK /\ ForeignKeys
  BY DEF TxInv, TxTypeOK, Rows
<1>2. PICK q : q = req[w]
  OBVIOUS
<1>3. q.op \in Operation /\ q.b \in Bookings
  BY <1>2, AtCommit DEF Fine, Matches
<1>4. CASE q.op \in {"create", "cancel", "reject", "confirm", "visited", "notice", "sign"}
  <2>1. UNCHANGED <<room, is_occupied>>
    BY <1>2, <1>4, BookingCommits, OtherCommits
       DEF CreateBookingRequest, InsertBooking, WriteCancelled, OwnerReject, WriteRejected,
           ConfirmVisit, MarkVisited, WriteVisit, WriteNotice, WriteSigned
  <2> QED
    BY <2>1
<1>5. CASE q.op \in {"approve", "pay", "terminate"}
  <2>1. booking[q.b] # NoRow /\ booking[q.b] \in BookingRow
    BY <1>1, <1>2, <1>3, <1>5, BookingCommits, OtherCommits
       DEF TypeOK, OwnerApprove, PayAdvance, CanPay, HasStatus
  <2>2. PICK r, s, row : /\ r = booking[q.b].room /\ s = booking[q.b].seat /\ row = room[r]
                         /\ TakePlace(r, s, row) \/ LeavePlace(r, s, row)
    BY <1>2, <1>5, BookingCommits, OtherCommits
       DEF OwnerApprove, WriteApproved, PayAdvance, WritePaid, WriteTerminated
  <2>3. r \in Rooms /\ s \in Seats \cup {NoSeat} /\ row \in RoomRow
    BY <1>1, <1>3, <2>1, <2>2 DEF BookingRow, ForeignKeys, TypeOK
  <2> QED
    BY <1>1, <2>2, <2>3, PlaceKeepsRows
<1> QED
  BY <1>2, <1>3, <1>4, <1>5, ScriptOf

\* A commit keeps the foreign keys; a tenancy is inserted with, and deleted with,
\* its request.
LEMMA CommitRows ==
  ASSUME TxInv, NEW w \in Workers, Commit(w)
  PROVE  Rows'
<1>1. TypeOK /\ ForeignKeys /\ \A b \in Bookings : tenancy[b] # NoRow => booking[b] # NoRow
  BY DEF TxInv, TxTypeOK, Rows
<1>2. PICK q : q = req[w]
  OBVIOUS
<1>3. q \in Request /\ q.op \in Operation /\ (q.op # "delete" => q.b \in Bookings)
  BY <1>2, AtCommit DEF Fine, Matches
<1>4. CASE q.op = "delete"
  <2>1. RemoveRoom(q.room)
    BY <1>2, <1>4, OtherCommits
  <2> QED
    BY <1>1, <2>1 DEF Rows, ForeignKeys, RemoveRoom, InRoom, TypeOK, BookingRow
<1>5. CASE q.op = "create"
  <2>1. CreateBookingRequest(q.b, q.tenant, q.room, q.seat, q.arg) /\ q.b \in Bookings
    BY <1>2, <1>3, <1>5, BookingCommits
  <2>2. q.room \in Rooms /\ q.seat \in Seats \cup {NoSeat}
    BY <1>3 DEF Request
  <2>3. ForeignKeys'
    BY <1>1, <2>1, <2>2, RentalAssumption
       DEF TypeOK, ForeignKeys, CreateBookingRequest, InsertBooking, RoomOpen, SeatOpen
  <2>4. tenancy' = tenancy /\ \A b \in Bookings : booking[b] # NoRow => booking'[b] # NoRow
    BY <1>1, <2>1 DEF TypeOK, CreateBookingRequest, InsertBooking
  <2> QED
    BY <1>1, <2>3, <2>4 DEF Rows
<1>6. CASE q.op \notin {"create", "delete"}
  <2>1. Writes(q, Own(w)) /\ q.b \in Bookings
    BY <1>2, <1>3, <1>6, CommitWrites
  <2>2. /\ \A r \in Rooms : room[r] # NoRow => room'[r] # NoRow
        /\ \A s \in Seats : is_occupied[s] # NoRow => is_occupied'[s] # NoRow
    BY <1>2, <1>6, CommitKeepsRows
  <2>3. ASSUME NEW b \in Bookings, booking'[b] # NoRow
        PROVE  /\ booking[b] # NoRow
               /\ booking'[b].room = booking[b].room /\ booking'[b].seat = booking[b].seat
    BY <1>6, <2>1, <2>3 DEF Writes
  <2>4. ForeignKeys'
    <3>1. ASSUME NEW b \in Bookings, booking[b] # NoRow PROVE booking[b] \in BookingRow
      BY <1>1, <3>1 DEF TypeOK
    <3> QED
      BY <1>1, <2>2, <2>3, <3>1 DEF ForeignKeys, BookingRow
  <2>5. /\ booking[q.b] # NoRow
        /\ \A b \in Bookings : booking[b] # NoRow => booking'[b] # NoRow
        /\ \A b \in Bookings \ {q.b} : tenancy'[b] = tenancy[b]
    <3>1. CASE q.op = "cancel"
      <4>1. booking[q.b] # NoRow /\ WriteCancelled(q.b)
        BY <1>2, <3>1, OtherCommits
      <4>2. booking'[q.b] \in BookingRow
        BY <1>1, <2>1, <4>1 DEF TypeOK, WriteCancelled, BookingRow, BookingStatus
      <4> QED
        BY <1>1, <2>1, <4>1, <4>2, RentalAssumption DEF TypeOK, WriteCancelled
    <3>2. CASE q.op \in {"approve", "reject", "confirm", "visited", "pay"}
      <4>1. \/ OwnerReject(q.b) \/ ConfirmVisit(q.b) \/ MarkVisited(q.b)
            \/ OwnerApprove(q.b) \/ PayAdvance(q.b)
        BY <1>2, <3>2, BookingCommits
      <4>2. booking[q.b] # NoRow
        BY <4>1
           DEF OwnerReject, ConfirmVisit, MarkVisited, OwnerApprove, PayAdvance, CanPay, HasStatus
      <4>3. \A b \in Bookings \ {q.b} : tenancy'[b] = tenancy[b]
        BY <1>1, <4>1
           DEF TypeOK, OwnerReject, WriteRejected, ConfirmVisit, MarkVisited, WriteVisit,
               OwnerApprove, WriteApproved, PayAdvance, WritePaid
      <4>4. booking'[q.b] # NoRow /\ \A b \in Bookings \ {q.b} : booking'[b] = booking[b]
        BY <1>1, <2>1, <4>1, <4>2, BookingUpdate
      <4> QED
        BY <4>2, <4>3, <4>4
    <3>3. CASE q.op \in {"notice", "sign", "terminate"}
      <4>1. /\ tenancy[q.b] # NoRow
            /\ \/ WriteNotice(q.b) \/ WriteSigned(q.b, q.arg, q.sawTenancy)
               \/ WriteTerminated(q.b, q.sawRoom)
        BY <1>2, <3>3, OtherCommits
      <4>2. booking' = booking /\ \A b \in Bookings \ {q.b} : tenancy'[b] = tenancy[b]
        BY <1>1, <4>1 DEF TypeOK, WriteNotice, WriteSigned, WriteTerminated
      <4> QED
        BY <1>1, <2>1, <4>1, <4>2
    <3> QED
      BY <1>3, <1>6, <3>1, <3>2, <3>3, ScriptOf
  <2> QED
    BY <1>1, <2>1, <2>4, <2>5 DEF Rows
<1> QED
  BY <1>4, <1>5, <1>6

-----------------------------------------------------------------------------
(* What the other requests know.                                           *)

\* A commit disturbs no other request: what that one has read of the rows it
\* holds stays true, and the room it holds gets no new request.
LEMMA OthersKeep ==
  ASSUME TypeOK, NEW p, NEW q \in Request, NEW W, Writes(p, W), TypeOK',
         Fine(q), q.held \cap W = {}, p.op = "create" => q.op = "delete" \/ q.b # p.b
  PROVE  Fine(q)'
<1>1. Matches(q) /\ Locks(q) /\ Knows(q)
  BY DEF Fine
<1>2. Matches(q)'
  BY <1>1 DEF Matches, Writes, Past
<1>3. Locks(q)'
  BY <1>1 DEF Locks, Past
<1>4. Knows(q)'
  <2>1. q.room \in Rooms /\ q.seat \in Seats \cup {NoSeat}
    BY DEF Request
  <2>2. ASSUME Past(q, "booking")
        PROVE  /\ q.op \in {"approve", "reject"} => HasStatus(q.b, {"REQUESTED"})'
               /\ q.op = "pay" => CanPay(q.b)'
               /\ booking'[q.b] # NoRow
    <3>1. <<"booking", q.b>> \notin W /\ q.b \in Bookings
      BY <1>1, <2>2, ScriptUses DEF Locks, Matches
    <3>2. booking'[q.b] = booking[q.b]
      BY <1>1, <2>2, <3>1 DEF Knows, Writes
    <3> QED
      BY <1>1, <2>2, <3>2 DEF Knows, HasStatus, CanPay
  <2>3. ASSUME Past(q, "room")
        PROVE  /\ q.sawRoom = room'[q.room]
               /\ q.op = "create" => RoomOpen(q.room)'
               /\ q.op \in {"approve", "pay"} => room'[q.room] # NoRow
    <3>1. room'[q.room] = room[q.room]
      BY <1>1, <2>1, <2>3 DEF Locks, Writes
    <3> QED
      BY <1>1, <2>3, <3>1 DEF Knows, RoomOpen
  <2>4. ASSUME Past(q, "seat"), q.op \in {"create", "approve", "pay"} PROVE SeatFree(q.seat)'
    BY <1>1, <2>1, <2>4 DEF Knows, Locks, Writes, SeatFree
  <2>5. ASSUME Past(q, "dup") PROVE ~HasOpenRequest(q.tenant, q.room)'
    <3>1. <<"room", q.room>> \notin W /\ ~HasOpenRequest(q.tenant, q.room)
      BY <1>1, <2>5, ScriptUses DEF Locks, Matches, Knows
    <3>2. ASSUME NEW b \in Bookings, HasStatus(b, {"REQUESTED"})', booking'[b].tenant = q.tenant,
                 booking'[b].room = q.room
          PROVE  FALSE
      BY <3>1, <3>2 DEF Writes, HasStatus, HasOpenRequest
    <3> QED
      BY <3>2 DEF HasOpenRequest
  <2> QED
    BY <2>2, <2>3, <2>4, <2>5 DEF Knows, Past
<1> QED
  BY <1>2, <1>3, <1>4 DEF Fine

-----------------------------------------------------------------------------
(* The steps of a request before its commit.                               *)

\* What a statement that passes has found.
LEMMA Found ==
  ASSUME NEW w \in Workers, NEW q, q = req[w], Passes(w), NEW s, s = Stmt(w)
  PROVE  /\ s = "booking" =>
              /\ q.op \in {"approve", "reject"} => HasStatus(q.b, {"REQUESTED"})
              /\ q.op = "pay" => CanPay(q.b)
              /\ q.op \in {"approve", "reject", "pay", "confirm", "visited"} => booking[q.b] # NoRow
         /\ s = "room" => /\ q.op = "create" => RoomOpen(q.room)
                          /\ q.op \in {"approve", "pay"} => room[q.room] # NoRow
         /\ s = "seat" => /\ q.op = "create" => SeatOpen(q.room, q.seat)
                          /\ q.op \in {"approve", "pay"} => SeatFree(q.seat)
         /\ s = "dup" /\ q.op = "create" => ~HasOpenRequest(q.tenant, q.room)
         /\ s = "read" /\ q.op = "sign" => tenancy[q.b] # NoRow
         /\ s = "read" /\ q.op = "notice" => TenancyIn(q.b, {"ACTIVE"})
         /\ s = "read" /\ q.op = "terminate" => Live(q.b)
<1>1. CASE q.op = "create"
  BY <1>1 DEF Passes
<1>2. CASE q.op \in {"approve", "reject", "pay", "confirm", "visited"}
  BY <1>2 DEF Passes, CanPay, HasStatus
<1>3. CASE q.op \in {"notice", "terminate", "sign"}
  BY <1>3 DEF Passes
<1> QED
  BY <1>1, <1>2, <1>3

\* The rows a statement before the commit needs: the one it locks.
LEMMA Needed ==
  ASSUME NEW w \in Workers, NEW q, q = req[w], NEW s, s = Stmt(w), s # "write"
  PROVE  /\ s = "booking" => Needs(w) = {<<"booking", q.b>>}
         /\ s = "room" => Needs(w) = {<<"room", q.room>>}
         /\ s = "seat" => Needs(w) = IF q.seat = NoSeat THEN {} ELSE {<<"seat", q.seat>>}
         /\ s \notin {"booking", "room", "seat"} => Needs(w) = {}
BY DEF Needs

\* A request that goes on is right about the rows it has locked and read.
LEMMA StatementFine ==
  ASSUME TxInv, NEW w \in Workers, Statement(w), NEW q, q = req[w], NEW p, p = req'[w]
  PROVE  /\ p \in Request /\ p # NoRow /\ p.op = q.op /\ p.b = q.b
         /\ p.held = q.held \cup Needs(w)
         /\ Fine(p)
<1>1. /\ q \in Request /\ Fine(q) /\ Passes(w) /\ TypeOK
      /\ req \in [Workers -> Request \cup {NoRow}]
  BY DEF TxInv, TxTypeOK, Requests, Statement, Busy
<1>2. /\ q.at \in DOMAIN Script[q.op] /\ Stmt(w) = Script[q.op][q.at] /\ Stmt(w) # "write"
      /\ Matches(q) /\ Locks(q) /\ Knows(q)
  BY <1>1 DEF Fine, Matches, Statement, Stmt
<1>3. q.at \in 1..4 /\ q.at + 1 \in DOMAIN Script[q.op]
  BY <1>1, <1>2, ScriptNext
<1>4. PICK s : s = Stmt(w)
  OBVIOUS
<1>5. p = [q EXCEPT !.at = q.at + 1,
                    !.held = q.held \cup Needs(w),
                    !.sawRoom = IF s = "room" THEN room[q.room] ELSE q.sawRoom,
                    !.sawTenancy = IF q.op = "sign" THEN tenancy[q.b] ELSE q.sawTenancy]
  BY <1>1, <1>4 DEF Statement
<1>6. /\ p.op = q.op /\ p.b = q.b /\ p.tenant = q.tenant /\ p.room = q.room /\ p.seat = q.seat
      /\ p.arg = q.arg /\ p.at = q.at + 1 /\ p.held = q.held \cup Needs(w)
      /\ p.sawRoom = IF s = "room" THEN room[q.room] ELSE q.sawRoom
      /\ p.sawTenancy = IF q.op = "sign" THEN tenancy[q.b] ELSE q.sawTenancy
  BY <1>1, <1>5 DEF Request
<1>7. p \in Request
  <2>1. Needs(w) \subseteq Row
    <3>1. s = "booking" => q.b \in Bookings
      BY <1>1, <1>2, <1>4, ScriptUses DEF Matches
    <3>2. q.room \in Rooms /\ (q.seat # NoSeat => q.seat \in Seats)
      BY <1>1 DEF Request
    <3> QED
      BY <1>2, <1>4, <3>1, <3>2, Needed DEF Row
  <2>2. room[q.room] \in RoomRow \cup {NoRow}
    BY <1>1 DEF TypeOK, Request
  <2>3. q.op = "sign" => tenancy[q.b] \in TenancyRow \cup {NoRow}
    BY <1>1, <1>2 DEF TypeOK, Matches
  <2>4. /\ q.at + 1 \in 1..5 /\ q.held \cup Needs(w) \in SUBSET Row
        /\ (IF s = "room" THEN room[q.room] ELSE q.sawRoom) \in RoomRow \cup {NoRow}
        /\ (IF q.op = "sign" THEN tenancy[q.b] ELSE q.sawTenancy) \in TenancyRow \cup {NoRow}
    BY <1>1, <1>3, <2>1, <2>2, <2>3 DEF Request
  <2> QED
    BY <1>1, <1>5, <2>4 DEF Request
<1>8. \A x : Past(p, x) => Past(q, x) \/ x = s
  BY <1>1, <1>2, <1>3, <1>4, <1>6, PastNext
<1>9. Matches(p)
  <2>1. q.op = "sign" => s = "read" /\ tenancy[q.b] # NoRow
    BY <1>1, <1>2, <1>4, Found, ScriptOf DEF Request
  <2> QED
    BY <1>2, <1>3, <1>6, <2>1 DEF Matches
<1>10. Locks(p)
  BY <1>2, <1>4, <1>6, <1>8, Needed DEF Locks
<1>11. Knows(p)
  <2>1. s = "booking" => q.op \in {"approve", "reject", "pay", "confirm", "visited"}
    BY <1>1, <1>2, <1>4, ScriptUses
  <2>2. s = "dup" => q.op = "create"
    BY <1>1, <1>2, <1>4, ScriptUses
  <2>3. SeatOpen(q.room, q.seat) => SeatFree(q.seat)
    BY DEF SeatOpen, SeatFree
  <2> QED
    BY <1>1, <1>2, <1>4, <1>6, <1>8, <2>1, <2>2, <2>3, Found DEF Knows
<1> QED
  BY <1>6, <1>7, <1>9, <1>10, <1>11, TxAssumption DEF Fine

\* A request that comes in is right about the rows it names.
LEMMA BeginFine ==
  ASSUME TxInv, NEW w \in Workers, BeginSome(w), NEW q, q = req'[w]
  PROVE  /\ q \in Request /\ q # NoRow /\ q.held = {} /\ Fine(q) /\ q.op \in Allowed[w]
         /\ ~Past(q, "read")
         /\ q.op = "create" => q.b \notin Named(w)
         /\ q.op \notin {"create", "delete"} => booking[q.b] # NoRow
         /\ ~Busy(w) /\ req' = [req EXCEPT ![w] = q] /\ UNCHANGED vars
<1>1. req \in [Workers -> Request \cup {NoRow}] /\ TypeOK
  BY DEF TxInv, TxTypeOK
<1>2. ASSUME NEW n, Start(w, n)
      PROVE  /\ q = n /\ q.op \in Allowed[w] /\ ~Busy(w)
             /\ req' = [req EXCEPT ![w] = q] /\ UNCHANGED vars
  BY <1>1, <1>2 DEF Start
<1>3. ASSUME NEW op \in Operation, NEW b \in Bookings \cup {NoRow}, NEW t \in Tenants \cup {NoRow},
             NEW r \in Rooms, NEW s \in Seats \cup {NoSeat},
             NEW a \in FirstVisit \cup Party \cup {NoRow}, q = NewRequest(op, b, t, r, s, a)
      PROVE  /\ q \in Request /\ q # NoRow /\ q.at \in DOMAIN Script[q.op] /\ q.held = {}
             /\ q.op = op /\ q.b = b /\ q.tenant = t /\ q.room = r /\ q.seat = s /\ q.arg = a
             /\ Locks(q) /\ Knows(q) /\ ~Past(q, "read")
  <2>1. /\ q.op = op /\ q.at = 1 /\ q.b = b /\ q.tenant = t /\ q.room = r /\ q.seat = s
        /\ q.arg = a /\ q.held = {}
    BY <1>3 DEF NewRequest
  <2>2. q \in Request
    BY <1>3 DEF NewRequest, Request
  <2>3. q.at \in DOMAIN Script[q.op] /\ \A x : ~Past(q, x)
    BY <2>1, ScriptStart
  <2> QED
    BY <2>1, <2>2, <2>3, TxAssumption DEF Locks, Knows
<1>4. CASE \E b \in Bookings, t \in Tenants, r \in Rooms, s \in Seats \cup {NoSeat},
             v \in FirstVisit : BeginCreate(w, b, t, r, s, v)
  <2>1. PICK b \in Bookings, t \in Tenants, r \in Rooms, s \in Seats \cup {NoSeat},
             v \in FirstVisit : BeginCreate(w, b, t, r, s, v)
    BY <1>4
  <2>2. q = NewRequest("create", b, t, r, s, v)
    BY <2>1, <1>2 DEF BeginCreate
  <2>3. /\ q \in Request /\ q # NoRow /\ q.at \in DOMAIN Script[q.op] /\ q.held = {}
        /\ q.op = "create" /\ q.b = b /\ q.tenant = t /\ q.room = r /\ q.seat = s /\ q.arg = v
        /\ Locks(q) /\ Knows(q) /\ ~Past(q, "read")
    BY <1>3, <2>2, ScriptOf
  <2> QED
    BY <1>2, <2>1, <2>3 DEF BeginCreate, Fine, Matches
<1>5. CASE \E op \in Operation \ {"create", "delete"}, b \in Bookings,
             a \in Party \cup {NoRow} : Begin(w, op, b, a)
  <2>1. PICK op \in Operation \ {"create", "delete"}, b \in Bookings, a \in Party \cup {NoRow} :
          Begin(w, op, b, a)
    BY <1>5
  <2>2. q = NewRequest(op, b, booking[b].tenant, booking[b].room, booking[b].seat, a)
    BY <2>1, <1>2 DEF Begin
  <2>3. booking[b] # NoRow /\ booking[b] \in BookingRow /\ (op = "sign" => a \in Party)
    BY <1>1, <2>1 DEF Begin, TypeOK
  <2>4. /\ q \in Request /\ q # NoRow /\ q.at \in DOMAIN Script[q.op] /\ q.held = {}
        /\ q.op = op /\ q.b = b /\ q.room = booking[b].room /\ q.seat = booking[b].seat /\ q.arg = a
        /\ Locks(q) /\ Knows(q) /\ ~Past(q, "read")
    <3>1. booking[b].tenant \in Tenants /\ booking[b].room \in Rooms
            /\ booking[b].seat \in Seats \cup {NoSeat}
      BY <2>3 DEF BookingRow
    <3> QED
      BY <1>3, <2>2, <3>1
  <2> QED
    BY <1>2, <2>1, <2>3, <2>4 DEF Begin, Fine, Matches
<1>6. CASE \E r \in Rooms : BeginDelete(w, r)
  <2>1. PICK r \in Rooms : BeginDelete(w, r)
    BY <1>6
  <2>2. q = NewRequest("delete", NoRow, NoRow, r, NoSeat, NoRow)
    BY <2>1, <1>2 DEF BeginDelete
  <2>3. /\ q \in Request /\ q # NoRow /\ q.at \in DOMAIN Script[q.op] /\ q.held = {}
        /\ q.op = "delete" /\ Locks(q) /\ Knows(q) /\ ~Past(q, "read")
    BY <1>3, <2>2, ScriptOf
  <2> QED
    BY <1>2, <2>1, <2>3 DEF BeginDelete, Fine, Matches
<1> QED
  BY <1>4, <1>5, <1>6 DEF BeginSome

-----------------------------------------------------------------------------
(* The invariant is kept.                                                  *)

\* What a request knows stays true while nothing is written.
LEMMA Still ==
  ASSUME NEW q, Fine(q), UNCHANGED vars
  PROVE  Fine(q)'
BY DEF Fine, Matches, Locks, Knows, Past, vars, HasStatus, CanPay, RoomOpen, SeatFree,
       HasOpenRequest

\* The rows stay as they are while nothing is written.
LEMMA StillRows ==
  ASSUME TypeOK, Rows, is_published = TRUE, UNCHANGED vars
  PROVE  TypeOK' /\ Rows' /\ is_published' = TRUE
BY DEF TypeOK, Rows, ForeignKeys, vars

\* What the invariant says of two requests in progress.
LEMMA Pair ==
  ASSUME TxInv, NEW v \in Workers, Busy(v)
  PROVE  /\ req[v] \in Request /\ Fine(req[v]) /\ req[v].op \in Allowed[v]
         /\ \A x \in Workers \ {v} : Busy(x) => Apart(req[v], req[x]) /\ Apart(req[x], req[v])
BY DEF TxInv, TxTypeOK, Requests, Busy

\* A request that ends without a commit leaves the others as they are.
LEMMA EndTxInv ==
  ASSUME TxInv, NEW w \in Workers, End(w), UNCHANGED vars
  PROVE  TxInv'
<1>1. TypeOK /\ Rows /\ is_published = TRUE /\ req \in [Workers -> Request \cup {NoRow}]
  BY DEF TxInv, TxTypeOK
<1>2. TypeOK' /\ Rows' /\ is_published' = TRUE
  BY <1>1, StillRows
<1>3. req' \in [Workers -> Request \cup {NoRow}]
      /\ \A v \in Workers : Busy(v)' => v # w /\ Busy(v) /\ req'[v] = req[v]
  BY <1>1 DEF End, Busy
<1>4. ASSUME NEW v \in Workers, Busy(v)'
      PROVE  Fine(req[v])' /\ req'[v].op \in Allowed[v]
  <2>1. Busy(v) /\ req'[v] = req[v]
    BY <1>3, <1>4
  <2>2. PICK q : q = req[v]
    OBVIOUS
  <2>3. Fine(q)'
    BY <2>1, <2>2, Pair, Still
  <2> QED
    BY <2>1, <2>2, <2>3, Pair
<1>5. ASSUME NEW u \in Workers, NEW v \in Workers, u # v, Busy(u)', Busy(v)'
      PROVE  Apart(req[u], req[v])'
  <2>1. Busy(u) /\ Busy(v) /\ req'[u] = req[u] /\ req'[v] = req[v]
    BY <1>3, <1>5
  <2> QED
    BY <2>1, <1>5, Pair DEF Apart
<1> QED
  BY <1>2, <1>3, <1>4, <1>5 DEF TxInv, TxTypeOK, Requests

\* A new or advanced request q of w joins the others.
LEMMA JoinTxInv ==
  ASSUME TxInv, NEW w \in Workers, NEW q \in Request, req' = [req EXCEPT ![w] = q],
         UNCHANGED vars, Fine(q), q.op \in Allowed[w],
         \A v \in Workers \ {w} : Busy(v) => Apart(q, req[v]) /\ Apart(req[v], q)
  PROVE  TxInv'
<1>1. TypeOK /\ Rows /\ is_published = TRUE /\ req \in [Workers -> Request \cup {NoRow}]
  BY DEF TxInv, TxTypeOK
<1>2. TypeOK' /\ Rows' /\ is_published' = TRUE
  BY <1>1, StillRows
<1>3. /\ req' \in [Workers -> Request \cup {NoRow}] /\ req'[w] = q
      /\ \A v \in Workers \ {w} : req'[v] = req[v] /\ (Busy(v)' => Busy(v))
  BY <1>1 DEF Busy
<1>4. ASSUME NEW v \in Workers, Busy(v)'
      PROVE  Fine(req[v])' /\ req'[v].op \in Allowed[v]
  <2>1. PICK p : p = req'[v]
    OBVIOUS
  <2>2. Fine(p) /\ p.op \in Allowed[v]
    BY <2>1, <1>3, <1>4, Pair
  <2> QED
    BY <2>1, <2>2, Still
<1>5. ASSUME NEW u \in Workers, NEW v \in Workers, u # v, Busy(u)', Busy(v)'
      PROVE  Apart(req[u], req[v])'
  <2>1. Apart(req'[u], req'[v])
    BY <1>3, <1>5, Pair
  <2> QED
    BY <2>1 DEF Apart
<1> QED
  BY <1>2, <1>3, <1>4, <1>5 DEF TxInv, TxTypeOK, Requests

\* A commit leaves the others right about what they have read.
LEMMA CommitTxInv ==
  ASSUME TxInv, NEW w \in Workers, Commit(w)
  PROVE  TxInv'
<1>1. TypeOK /\ is_published = TRUE /\ req \in [Workers -> Request \cup {NoRow}]
  BY DEF TxInv, TxTypeOK
<1>2. TypeOK' /\ Rows' /\ Writes(req[w], Own(w))
  BY CommitType, CommitRows, CommitWrites
<1>3. is_published' = TRUE
  BY <1>1, <1>2 DEF Writes
<1>4. /\ Busy(w) /\ ~Blocked(w) /\ req' \in [Workers -> Request \cup {NoRow}]
      /\ \A v \in Workers : Busy(v)' => v # w /\ Busy(v) /\ req'[v] = req[v]
  BY <1>1 DEF Commit, End, Busy
<1>5. ASSUME NEW v \in Workers, Busy(v)'
      PROVE  Fine(req[v])' /\ req'[v].op \in Allowed[v]
  <2>1. v # w /\ Busy(v) /\ req'[v] = req[v]
    BY <1>4, <1>5
  <2>2. PICK q, p, W : q = req[v] /\ p = req[w] /\ W = Own(w)
    OBVIOUS
  <2>3. q \in Request /\ Fine(q) /\ q.op \in Allowed[v] /\ Apart(p, q)
    BY <1>4, <2>1, <2>2, Pair
  <2>4. q.held \cap W = {}
    BY <1>4, <2>1, <2>2, <2>3 DEF Own, Apart, Blocked, WaitsFor
  <2>5. Fine(q)'
    BY <1>1, <1>2, <2>2, <2>3, <2>4, OthersKeep DEF Apart
  <2> QED
    BY <2>1, <2>2, <2>3, <2>5
<1>6. ASSUME NEW u \in Workers, NEW v \in Workers, u # v, Busy(u)', Busy(v)'
      PROVE  Apart(req[u], req[v])'
  <2>1. Busy(u) /\ Busy(v) /\ req'[u] = req[u] /\ req'[v] = req[v]
    BY <1>4, <1>6
  <2> QED
    BY <2>1, <1>6, Pair DEF Apart
<1> QED
  BY <1>2, <1>3, <1>4, <1>5, <1>6 DEF TxInv, TxTypeOK, Requests

\* A statement before the commit.
LEMMA StatementTxInv ==
  ASSUME TxInv, NEW w \in Workers, Statement(w)
  PROVE  TxInv'
<1>1. Busy(w) /\ ~Blocked(w) /\ UNCHANGED vars /\ req \in [Workers -> Request \cup {NoRow}]
  BY DEF Statement, TxInv, TxTypeOK
<1>2. PICK q, p : q = req[w] /\ p = req'[w]
  OBVIOUS
<1>3. /\ p \in Request /\ p.op = q.op /\ p.b = q.b /\ p.held = q.held \cup Needs(w) /\ Fine(p)
      /\ q.op \in Allowed[w]
  BY <1>1, <1>2, StatementFine, Pair
<1>4. req' = [req EXCEPT ![w] = p]
  BY <1>1, <1>2 DEF Statement
<1>5. ASSUME NEW v \in Workers \ {w}, Busy(v)
      PROVE  Apart(p, req[v]) /\ Apart(req[v], p)
  <2>1. Apart(q, req[v]) /\ Apart(req[v], q)
    BY <1>1, <1>2, <1>5, Pair
  <2>2. Needs(w) \cap req[v].held = {}
    BY <1>1, <1>5 DEF Blocked, WaitsFor
  <2> QED
    BY <1>3, <2>1, <2>2 DEF Apart
<1> QED
  BY <1>1, <1>3, <1>4, <1>5, JoinTxInv

\* A new request.
LEMMA BeginTxInv ==
  ASSUME TxInv, NEW w \in Workers, BeginSome(w)
  PROVE  TxInv'
<1>1. PICK q : q = req'[w]
  OBVIOUS
<1>2. /\ q \in Request /\ q.held = {} /\ Fine(q) /\ q.op \in Allowed[w]
      /\ q.op = "create" => q.b \notin Named(w)
      /\ q.op \notin {"create", "delete"} => booking[q.b] # NoRow
      /\ req' = [req EXCEPT ![w] = q] /\ UNCHANGED vars
  BY <1>1, BeginFine
<1>3. ASSUME NEW v \in Workers \ {w}, Busy(v)
      PROVE  Apart(q, req[v]) /\ Apart(req[v], q)
  <2>1. q.op = "create" => q.b # req[v].b
    BY <1>2, <1>3 DEF Named
  <2>2. req[v].op = "create" => booking[req[v].b] = NoRow
    BY <1>3, Pair DEF Fine, Matches
  <2> QED
    BY <1>2, <2>1, <2>2 DEF Apart
<1> QED
  BY <1>2, <1>3, JoinTxInv

\* The invariant holds when no request has come in yet.
LEMMA InitTxInv == TxInit => TxInv
<1> SUFFICES ASSUME TxInit PROVE TxInv
  OBVIOUS
<1>1. SeatInv /\ \A b \in Bookings : booking[b] = NoRow /\ tenancy[b] = NoRow
  BY InitSeatInv DEF TxInit, Init
<1>2. req \in [Workers -> Request \cup {NoRow}] /\ \A w \in Workers : ~Busy(w)
  BY DEF TxInit, Busy
<1> QED
  BY <1>1, <1>2 DEF TxInit, SeatInv, TxInv, TxTypeOK, Rows, Requests

\* Every step keeps it.
LEMMA NextTxInv == TxInv /\ [TxNext]_txVars => TxInv'
<1> SUFFICES ASSUME TxInv, [TxNext]_txVars PROVE TxInv'
  OBVIOUS
<1>1. ASSUME NEW w \in Workers, Statement(w) PROVE TxInv'
  BY <1>1, StatementTxInv
<1>2. ASSUME NEW w \in Workers, Commit(w) PROVE TxInv'
  BY <1>2, CommitTxInv
<1>3. ASSUME NEW w \in Workers, Refuse(w) \/ Crash(w) \/ AbortDeadlock(w) PROVE TxInv'
  BY <1>3, EndTxInv DEF Refuse, Crash, AbortDeadlock
<1>4. ASSUME NEW w \in Workers, BeginSome(w) PROVE TxInv'
  BY <1>4, BeginTxInv
<1>5. CASE UNCHANGED txVars
  <2>1. TypeOK /\ Rows /\ is_published = TRUE /\ req \in [Workers -> Request \cup {NoRow}]
    BY DEF TxInv, TxTypeOK
  <2>2. UNCHANGED vars /\ req' = req
    BY <1>5 DEF txVars
  <2>3. TypeOK' /\ Rows' /\ is_published' = TRUE
    BY <2>1, <2>2, StillRows
  <2>4. ASSUME NEW v \in Workers, Busy(v) PROVE Fine(req[v])' /\ req[v].op \in Allowed[v]
    <3>1. PICK q : q = req[v]
      OBVIOUS
    <3> QED
      BY <2>2, <2>4, <3>1, Pair, Still
  <2>5. Requests'
    BY <2>2, <2>4, Pair DEF Requests, Busy, Apart
  <2> QED
    BY <2>1, <2>2, <2>3, <2>5 DEF TxInv, TxTypeOK
<1> QED
  BY <1>1, <1>2, <1>3, <1>4, <1>5 DEF TxNext

\* The invariant holds throughout, whatever the workers are asked for and in
\* whatever order their statements run.
THEOREM TxInvariant == TxSpec => []TxInv
BY InitTxInv, NextTxInv, PTL DEF TxSpec

\* Rows and requests in progress are always well typed (every handler, with the
\* rows it read long ago).
THEOREM TxTypeCorrect == TxSpec => []TxTypeOK
<1>1. TxInv => TxTypeOK
  BY DEF TxInv
<1> QED
  BY <1>1, TxInvariant, PTL

\* Foreign keys hold however requests overlap, deletions of rooms included.
THEOREM TxForeignKeys == TxSpec => []ForeignKeys
<1>1. TxInv => ForeignKeys
  BY DEF TxInv, Rows
<1> QED
  BY <1>1, TxInvariant, PTL

-----------------------------------------------------------------------------
(* Open requests, grants and decisions.                                    *)

\* What a step does to the rows: nothing, or what one commit writes.
LEMMA OnlyCommitsWrite ==
  ASSUME TxInv, [TxNext]_txVars
  PROVE  UNCHANGED vars \/ \E w \in Workers : Commit(w)
<1>1. ASSUME NEW w \in Workers, BeginSome(w) PROVE UNCHANGED vars
  BY <1>1, BeginFine
<1>2. ASSUME NEW w \in Workers, Statement(w) \/ Refuse(w) \/ Crash(w) \/ AbortDeadlock(w)
      PROVE  UNCHANGED vars
  BY <1>2 DEF Statement, Refuse, Crash, AbortDeadlock
<1>3. CASE UNCHANGED txVars
  BY <1>3 DEF txVars
<1> QED
  BY <1>1, <1>2, <1>3 DEF TxNext

\* A request is open after a commit only if it was open before, or if it is the
\* one inserted.
LEMMA OpenAfter ==
  ASSUME TxInv, NEW w \in Workers, Commit(w), NEW b \in Bookings, HasStatus(b, {"REQUESTED"})'
  PROVE  \/ /\ HasStatus(b, {"REQUESTED"})
            /\ booking'[b].tenant = booking[b].tenant /\ booking'[b].room = booking[b].room
         \/ req[w].op = "create" /\ b = req[w].b
BY CommitWrites DEF Writes, HasStatus

\* No step gives a tenant a second open request for a room.
LEMMA NextTxOneOpen == TxInv /\ OneOpenRequest /\ [TxNext]_txVars => OneOpenRequest'
<1> SUFFICES ASSUME TxInv, OneOpenRequest, [TxNext]_txVars PROVE OneOpenRequest'
  OBVIOUS
<1>1. CASE UNCHANGED vars
  BY <1>1 DEF OneOpenRequest, HasStatus, vars
<1>2. ASSUME NEW w \in Workers, Commit(w) PROVE OneOpenRequest'
  <2>1. PICK q : q = req[w]
    OBVIOUS
  <2>2. ASSUME q.op = "create"
        PROVE  /\ ~HasOpenRequest(q.tenant, q.room) /\ booking[q.b] = NoRow
               /\ booking'[q.b].tenant = q.tenant /\ booking'[q.b].room = q.room
    <3>1. CreateBookingRequest(q.b, q.tenant, q.room, q.seat, q.arg) /\ q.b \in Bookings /\ TypeOK
      BY <1>2, <2>1, <2>2, BookingCommits, AtCommit DEF Fine, Matches, TxInv, TxTypeOK
    <3> QED
      BY <3>1 DEF CreateBookingRequest, InsertBooking, TypeOK
  <2>3. ASSUME NEW b \in Bookings, NEW c \in Bookings,
               HasStatus(b, {"REQUESTED"})', HasStatus(c, {"REQUESTED"})',
               booking'[b].tenant = booking'[c].tenant, booking'[b].room = booking'[c].room
        PROVE  b = c
    <3>1. CASE HasStatus(b, {"REQUESTED"}) /\ HasStatus(c, {"REQUESTED"})
      <4>1. \A x \in {b, c} : /\ booking'[x].tenant = booking[x].tenant
                              /\ booking'[x].room = booking[x].room
        BY <1>2, <2>1, <2>2, <2>3, <3>1, OpenAfter DEF HasStatus
      <4> QED
        BY <2>3, <3>1, <4>1 DEF OneOpenRequest
    <3>2. CASE ~HasStatus(b, {"REQUESTED"})
      BY <1>2, <2>1, <2>2, <2>3, <3>2, OpenAfter DEF HasOpenRequest
    <3>3. CASE ~HasStatus(c, {"REQUESTED"})
      BY <1>2, <2>1, <2>2, <2>3, <3>3, OpenAfter DEF HasOpenRequest
    <3> QED
      BY <3>1, <3>2, <3>3
  <2> QED
    BY <2>3 DEF OneOpenRequest
<1> QED
  BY <1>1, <1>2, OnlyCommitsWrite

\* A tenant never has two open requests for a room, although the duplicate check
\* and the insertion are different statements: the lock of the room covers both
\* (create_booking_request).
THEOREM TxOpenRequestsAreUnique == TxSpec => []OneOpenRequest
<1>1. TxInit => OneOpenRequest
  BY DEF TxInit, Init, OneOpenRequest, HasStatus
<1> QED
  BY <1>1, TxInvariant, NextTxOneOpen, PTL DEF TxSpec

\* The commits that grant a seat or decide a request are of requests that have
\* found the seat free and the request open, under locks they still have.
LEMMA Grants ==
  ASSUME TxInv, NEW w \in Workers, Commit(w), NEW b \in Bookings
  PROVE  /\ Becomes(b, {"APPROVED_BY_OWNER"}) \/ Becomes(b, {"DEPOSIT_PAID"})
              => SeatFree(booking[b].seat)
         /\ Becomes(b, {"APPROVED_BY_OWNER"}) \/ Becomes(b, {"REJECTED"})
              => HasStatus(b, {"REQUESTED"})
<1>1. PICK q : q = req[w]
  OBVIOUS
<1>2. q.op \in Operation /\ (q.op # "delete" => q.b \in Bookings) /\ TypeOK
  BY <1>1, AtCommit DEF Fine, Matches, TxInv, TxTypeOK
<1>3. CASE q.op = "create"
  <2>1. CreateBookingRequest(q.b, q.tenant, q.room, q.seat, q.arg)
    BY <1>1, <1>3, BookingCommits
  <2> QED
    BY <1>2, <1>3, <2>1
       DEF TypeOK, CreateBookingRequest, InsertBooking, Becomes, HasStatus
<1>4. CASE q.op = "cancel"
  <2>1. booking[q.b] \in BookingRow /\ WriteCancelled(q.b)
    BY <1>1, <1>2, <1>4, OtherCommits DEF TypeOK
  <2> QED
    BY <1>2, <1>4, <2>1 DEF TypeOK, WriteCancelled, Becomes, HasStatus, BookingRow
<1>5. CASE q.op \in {"confirm", "visited"}
  <2>1. booking[q.b] # NoRow /\ (WriteVisit(q.b, "CONFIRMED") \/ WriteVisit(q.b, "COMPLETED"))
    BY <1>1, <1>5, BookingCommits DEF ConfirmVisit, MarkVisited
  <2>2. booking[q.b] \in BookingRow
    BY <1>2, <1>5, <2>1 DEF TypeOK
  <2> QED
    BY <1>2, <1>5, <2>1, <2>2 DEF TypeOK, WriteVisit, Becomes, HasStatus, BookingRow
<1>6. CASE q.op = "reject"
  <2>1. booking[q.b] \in BookingRow /\ OwnerReject(q.b)
    BY <1>1, <1>2, <1>6, BookingCommits DEF OwnerReject, HasStatus, TypeOK
  <2> QED
    BY <1>2, <1>6, <2>1 DEF TypeOK, OwnerReject, WriteRejected, Becomes, HasStatus, BookingRow
<1>7. CASE q.op = "approve"
  <2>1. booking[q.b] \in BookingRow /\ OwnerApprove(q.b)
    BY <1>1, <1>2, <1>7, BookingCommits DEF OwnerApprove, HasStatus, TypeOK
  <2> QED
    BY <1>2, <1>7, <2>1 DEF TypeOK, OwnerApprove, WriteApproved, Becomes, HasStatus, BookingRow
<1>8. CASE q.op = "pay"
  <2>1. booking[q.b] \in BookingRow /\ PayAdvance(q.b)
    BY <1>1, <1>2, <1>8, BookingCommits DEF PayAdvance, CanPay, HasStatus, TypeOK
  <2> QED
    BY <1>2, <1>8, <2>1 DEF TypeOK, PayAdvance, WritePaid, Becomes, HasStatus, BookingRow
<1>9. CASE q.op \in {"notice", "sign", "terminate"}
  <2>1. booking' = booking
    BY <1>1, <1>9, OtherCommits DEF WriteNotice, WriteSigned, WriteTerminated
  <2> QED
    BY <2>1 DEF Becomes, HasStatus
<1>10. CASE q.op = "delete"
  <2>1. RemoveRoom(q.room)
    BY <1>1, <1>10, OtherCommits
  <2> QED
    BY <2>1 DEF RemoveRoom, Becomes, HasStatus
<1> QED
  BY <1>2, <1>3, <1>4, <1>5, <1>6, <1>7, <1>8, <1>9, <1>10, ScriptOf

\* A seat is granted only while it is free: the lock of the seat keeps what the
\* check has found until the commit (approve, pay-advance).
THEOREM SeatsAreGrantedWhileFree == TxSpec => SeatGrantedWhileFree
<1>1. ASSUME TxInv, [TxNext]_txVars
      PROVE  [\A b \in Bookings :
                Becomes(b, {"APPROVED_BY_OWNER"}) \/ Becomes(b, {"DEPOSIT_PAID"})
                  => SeatFree(booking[b].seat)]_vars
  BY <1>1, OnlyCommitsWrite, Grants
<1> QED
  BY <1>1, TxInvariant, PTL DEF TxSpec, SeatGrantedWhileFree

\* A request is approved or rejected only while it is open: the lock of the
\* request keeps what the check has found until the commit (approve, reject).
THEOREM RequestsAreDecidedWhileOpen == TxSpec => DecidedWhileOpen
<1>1. ASSUME TxInv, [TxNext]_txVars
      PROVE  [\A b \in Bookings :
                Becomes(b, {"APPROVED_BY_OWNER"}) \/ Becomes(b, {"REJECTED"})
                  => HasStatus(b, {"REQUESTED"})]_vars
  BY <1>1, OnlyCommitsWrite, Grants
<1> QED
  BY <1>1, TxInvariant, PTL DEF TxSpec, DecidedWhileOpen

-----------------------------------------------------------------------------
(* Serial behaviour.                                                       *)

\* The operations of the tenancy service, which read the tenancy without a lock.
Paperwork == {"notice", "terminate", "sign"}

\* Nothing the workers are asked for is decided by a row that another of them may
\* write in between: no cancellation and no deletion of a room, which check rows
\* they do not lock, and notices, move-outs and signatures one at a time.  Without
\* it the handlers are not serial: a cancellation overwrites an approval, two
\* move-outs give one place back twice.
Calm ==
  /\ \A w \in Workers : Allowed[w] \cap {"cancel", "delete"} = {}
  /\ \A v, w \in Workers :
       v # w => Allowed[v] \cap Paperwork = {} \/ Allowed[w] \cap Paperwork = {}

\* What the tenancy service has read of a tenancy is still true.
Remembers(q) ==
  Past(q, "read") =>
    /\ q.op = "notice" => TenancyIn(q.b, {"ACTIVE"})
    /\ q.op = "terminate" => Live(q.b)
    /\ q.op = "sign" => tenancy[q.b] # NoRow /\ q.sawTenancy = tenancy[q.b]

CalmInv == TxInv /\ SeatInv /\ \A w \in Workers : Busy(w) => Remembers(req[w])

\* A commit does then what its handler would have done in one step.
LEMMA CalmCommits ==
  ASSUME Calm, CalmInv, NEW w \in Workers, Commit(w)
  PROVE  Next
<1>1. PICK q : q = req[w]
  OBVIOUS
<1>2. /\ q \in Request /\ q.op \in Operation \ {"cancel", "delete"} /\ q.b \in Bookings
      /\ Remembers(q) /\ q.at \in DOMAIN Script[q.op] /\ Script[q.op][q.at] = "write"
  BY <1>1, AtCommit DEF CalmInv, Fine, Matches, Calm, Commit
<1>3. CASE q.op \in BookingOps
  BY <1>1, <1>3, BookingCommitsNext DEF CalmInv, Next
<1>4. CASE q.op = "notice"
  <2>1. ServeNotice(q.b)
    BY <1>1, <1>2, <1>4, OtherCommits, ScriptEnd DEF CalmInv, Remembers, ServeNotice
  <2> QED
    BY <1>2, <2>1 DEF Next, TenancyNext
<1>5. CASE q.op = "terminate"
  <2>1. TerminateTenancy(q.b)
    BY <1>1, <1>2, <1>5, OtherCommits, ScriptEnd DEF CalmInv, Remembers, TerminateTenancy
  <2> QED
    BY <1>2, <2>1 DEF Next, TenancyNext
<1>6. CASE q.op = "sign"
  <2>1. SignDigitalAgreement(q.b, q.arg) /\ q.arg \in Party
    BY <1>1, <1>2, <1>6, OtherCommits, ScriptEnd DEF CalmInv, Remembers, SignDigitalAgreement
  <2> QED
    BY <1>2, <2>1 DEF Next, TenancyNext
<1> QED
  BY <1>2, <1>3, <1>4, <1>5, <1>6, ScriptOf DEF BookingOps

\* Every step is one of Rental's or leaves the rows as they are.
LEMMA CalmSteps ==
  ASSUME Calm, CalmInv, [TxNext]_txVars
  PROVE  [Next]_vars
BY CalmCommits, OnlyCommitsWrite DEF CalmInv

\* A commit of the booking service leaves every tenancy that exists as it is:
\* an approval inserts one, a payment inserts one where there is none.
LEMMA TenanciesStay ==
  ASSUME CalmInv, NEW w \in Workers, Commit(w), req[w].op \in BookingOps,
         NEW b \in Bookings, tenancy[b] # NoRow
  PROVE  tenancy'[b] = tenancy[b]
<1>1. PICK q : q = req[w]
  OBVIOUS
<1>2. TypeOK /\ TenancyIffGranted /\ q.b \in Bookings /\ TxInv
  BY <1>1, AtCommit DEF CalmInv, SeatInv, Fine, Matches, BookingOps
<1>3. CASE q.op \in {"create", "reject", "confirm", "visited"}
  BY <1>1, <1>2, <1>3, BookingCommits
     DEF CreateBookingRequest, InsertBooking, OwnerReject, WriteRejected, ConfirmVisit, MarkVisited,
         WriteVisit
<1>4. CASE q.op = "approve"
  <2>1. OwnerApprove(q.b)
    BY <1>1, <1>2, <1>4, BookingCommits
  <2>2. tenancy[q.b] = NoRow
    BY <1>2, <2>1 DEF OwnerApprove, HasStatus, TenancyIffGranted
  <2> QED
    BY <1>2, <2>1, <2>2 DEF OwnerApprove, WriteApproved, TypeOK
<1>5. CASE q.op = "pay"
  <2>1. PayAdvance(q.b)
    BY <1>1, <1>2, <1>5, BookingCommits
  <2> QED
    BY <1>2, <2>1 DEF PayAdvance, WritePaid, TypeOK
<1> QED
  BY <1>1, <1>3, <1>4, <1>5 DEF BookingOps

\* The tenancies that a request remembers are not written by anybody else.
LEMMA CalmRemembers ==
  ASSUME Calm, CalmInv, NEW w \in Workers, Commit(w), NEW v \in Workers, v # w, Busy(v),
         NEW q, q = req[v]
  PROVE  Remembers(q)'
<1>1. /\ q.op \in Allowed[v] /\ Fine(q) /\ Remembers(q)
      /\ req[w].op \in Allowed[w] /\ req[w].op \in Operation
  BY Pair, AtCommit DEF CalmInv
<1>2. ASSUME q.op \in Paperwork, tenancy[q.b] # NoRow PROVE tenancy'[q.b] = tenancy[q.b]
  <2>1. req[w].op \in BookingOps
    BY <1>1, <1>2, ScriptOf DEF Calm, Paperwork, BookingOps
  <2>2. q.b \in Bookings
    BY <1>1, <1>2 DEF Fine, Matches, Paperwork
  <2> QED
    BY <1>2, <2>1, <2>2, TenanciesStay
<1> QED
  BY <1>1, <1>2 DEF Remembers, Past, Paperwork, TenancyIn, Live

\* A request that goes on remembers what it has just read.
LEMMA StatementRemembers ==
  ASSUME CalmInv, NEW w \in Workers, Statement(w), NEW p, p = req'[w]
  PROVE  Remembers(p)
<1>1. PICK q : q = req[w]
  OBVIOUS
<1>2. /\ TxInv /\ Busy(w) /\ Passes(w) /\ Stmt(w) # "write" /\ Remembers(q)
      /\ q \in Request /\ q.at \in DOMAIN Script[q.op]
      /\ req \in [Workers -> Request \cup {NoRow}]
  BY <1>1, Pair DEF CalmInv, Statement, Fine, Matches, TxInv, TxTypeOK
<1>3. q.at \in 1..4 /\ Stmt(w) = Script[q.op][q.at]
  BY <1>1, <1>2, ScriptNext DEF Stmt
<1>4. p = [q EXCEPT !.at = q.at + 1,
                    !.held = q.held \cup Needs(w),
                    !.sawRoom = IF Stmt(w) = "room" THEN room[q.room] ELSE q.sawRoom,
                    !.sawTenancy = IF q.op = "sign" THEN tenancy[q.b] ELSE q.sawTenancy]
  BY <1>1, <1>2 DEF Statement
<1>5. /\ p.op = q.op /\ p.b = q.b /\ p.at = q.at + 1
      /\ p.sawTenancy = IF q.op = "sign" THEN tenancy[q.b] ELSE q.sawTenancy
  BY <1>2, <1>4 DEF Request
<1>6. Past(p, "read") => Past(q, "read") \/ Stmt(w) = "read"
  BY <1>2, <1>3, <1>5, PastNext
<1> QED
  BY <1>1, <1>2, <1>5, <1>6, Found DEF Remembers

\* The invariant with what calm workers remember is inductive.
LEMMA NextCalmInv == Calm /\ CalmInv /\ [TxNext]_txVars => CalmInv'
<1> SUFFICES ASSUME Calm, CalmInv, [TxNext]_txVars PROVE CalmInv'
  OBVIOUS
<1>1. TxInv' /\ SeatInv'
  BY NextTxInv, CalmSteps, NextSeatInv DEF CalmInv
<1>2. req \in [Workers -> Request \cup {NoRow}]
  BY DEF CalmInv, TxInv, TxTypeOK
<1>3. ASSUME NEW v \in Workers, Busy(v)' PROVE Remembers(req[v])'
  <2>1. PICK q : q = req'[v]
    OBVIOUS
  <2>2. ASSUME Remembers(q), UNCHANGED vars PROVE Remembers(q)'
    BY <2>2 DEF Remembers, Past, TenancyIn, Live, vars
  <2>3. ASSUME NEW w \in Workers, Commit(w) PROVE Remembers(q)'
    <3>1. v # w /\ Busy(v) /\ q = req[v]
      BY <1>2, <1>3, <2>1, <2>3 DEF Commit, End, Busy
    <3> QED
      BY <2>3, <3>1, CalmRemembers
  <2>4. ASSUME NEW w \in Workers, Statement(w) PROVE Remembers(q) /\ UNCHANGED vars
    <3>1. CASE v = w
      BY <2>1, <2>4, <3>1, StatementRemembers DEF Statement
    <3>2. CASE v # w
      BY <1>2, <1>3, <2>1, <2>4, <3>2 DEF Statement, CalmInv, Busy
    <3> QED
      BY <3>1, <3>2
  <2>5. ASSUME NEW w \in Workers, BeginSome(w) PROVE Remembers(q) /\ UNCHANGED vars
    <3>1. CASE v = w
      BY <2>1, <2>5, <3>1, BeginFine DEF Remembers, CalmInv
    <3>2. CASE v # w
      BY <1>2, <1>3, <2>1, <2>5, <3>2, BeginFine DEF CalmInv, Busy
    <3> QED
      BY <3>1, <3>2
  <2>6. ASSUME NEW w \in Workers, Refuse(w) \/ Crash(w) \/ AbortDeadlock(w)
        PROVE  Remembers(q) /\ UNCHANGED vars
    BY <1>2, <1>3, <2>1, <2>6 DEF Refuse, Crash, AbortDeadlock, End, Busy, CalmInv
  <2>7. ASSUME UNCHANGED txVars PROVE Remembers(q)'
    <3>1. Remembers(q) /\ UNCHANGED vars
      BY <1>3, <2>1, <2>7 DEF txVars, CalmInv, Busy
    <3> QED
      BY <2>2, <3>1
  <2>8. Remembers(q)'
    BY <2>2, <2>3, <2>4, <2>5, <2>6, <2>7 DEF TxNext
  <2> QED
    BY <2>1, <2>8
<1> QED
  BY <1>1, <1>3 DEF CalmInv

\* Overlapping requests are serial while the workers are calm: whatever the order
\* of their statements, each commit is one step of Rental (create, approve,
\* reject, pay-advance, visits, and move-outs, notices and signatures).
THEOREM CalmRequestsAreSerial == ASSUME Calm PROVE TxSpec => Spec
<1>1. TxInit => CalmInv
  BY InitTxInv, InitSeatInv DEF TxInit, CalmInv, Busy
<1>2. CalmInv /\ [TxNext]_txVars => CalmInv'
  BY NextCalmInv
<1>3. TxSpec => []CalmInv
  BY <1>1, <1>2, PTL DEF TxSpec
<1>4. CalmInv /\ [TxNext]_txVars => [Next]_vars
  BY CalmSteps
<1>5. TxInit => Init
  BY DEF TxInit
<1> QED
  BY <1>3, <1>4, <1>5, PTL DEF TxSpec, Spec

\* Hence two live tenancies never have the same seat, however the approvals,
\* payments and move-outs that let it overlap.
THEOREM TxSeatsAreExclusive == ASSUME Calm PROVE TxSpec => []SeatExclusive
BY CalmRequestsAreSerial, SeatsAreExclusive, PTL

\* And a room's occupancy covers the tenancies in it.
THEOREM TxOccupancyCovers == ASSUME Calm PROVE TxSpec => []OccupancyCoversTenancies
BY CalmRequestsAreSerial, OccupancyCovers, PTL
=============================================================================
