---------------------------- MODULE Parking_proofs ----------------------------
(***************************************************************************)
(* Proofs about Parking, for every number of spaces, bookings and requests *)
(* at a time.                                                              *)
(*                                                                         *)
(* BookedWhileAvailable rests on the lock: a request about to book has its *)
(* space to itself and the space is still available (Requests).            *)
(* NoSpaceLost rests on a witness: a space that is closed has an active    *)
(* booking whose cancellations under way have all seen it closed, so that  *)
(* the first of them to commit opens it (Witnessed).                       *)
(***************************************************************************)
EXTENDS Parking, TLAPS

\* What is known of a request r in progress.
Fine(r) ==
  /\ r.op = "book" =>
       /\ r.at \in {"lock", "write"}
       /\ r.s \in Spaces /\ r.b \in Bookings /\ booking[r.b] = NoRow
       /\ r.at = "write" => is_available[r.s] = TRUE
  /\ r.op = "cancel" =>
       /\ r.at \in {"booking", "space", "write"}
       /\ r.b \in Bookings
       /\ r.at # "booking" =>
            /\ r.s \in Spaces
            /\ is_available[r.s] # NoRow => booking[r.b] # NoRow
            /\ booking[r.b] # NoRow => booking[r.b].space = r.s
  /\ r.op \in {"update", "delete"} => r.at \in {"space", "write"} /\ r.s \in Spaces
  /\ r.op = "update" => r.value \in OwnerMay

\* What is known of two requests r and q in progress.
Apart(r, q) ==
  /\ r.op = "book" => r.b # q.b
  /\ r.op = "book" /\ r.at = "write" /\ q.op = "book" /\ q.at = "write" => r.s # q.s

Requests ==
  \A w \in Workers : Busy(w) =>
    Fine(req[w]) /\ \A x \in Workers \ {w} : Busy(x) => Apart(req[w], req[x])

\* A cancellation of b that is about to commit.
Cancelling(r, b) == r.op = "cancel" /\ r.at = "write" /\ r.b = b

SeenClosed(b) ==
  \A w \in Workers : Busy(w) /\ Cancelling(req[w], b) => req[w].saw = FALSE

Witnessed ==
  FALSE \notin OwnerMay =>
    \A s \in Spaces : is_available[s] = FALSE => \E b \in ActiveIn(s) : SeenClosed(b)

IInv == TypeOK /\ Requests /\ Witnessed

USE ParkingAssumption

-----------------------------------------------------------------------------
\* A request that reads: it becomes r, which is fine and apart from the others.
LEMMA ReadStep ==
  ASSUME IInv, NEW w \in Workers, NEW r \in Request,
         req' = [req EXCEPT ![w] = r], UNCHANGED <<is_available, booking>>,
         Fine(r),
         \A x \in Workers \ {w} : Busy(x) => Apart(r, req[x]) /\ Apart(req[x], r),
         r.op = "cancel" /\ r.at = "write" => r.saw = is_available[r.s]
  PROVE  IInv'
<1>1. /\ req'[w] = r
      /\ \A x \in Workers \ {w} : req'[x] = req[x]
  BY DEF IInv, TypeOK
<1>2. TypeOK'
  BY DEF IInv, TypeOK
<1>3. Requests'
  <2> SUFFICES ASSUME NEW x \in Workers, Busy(x)'
               PROVE  Fine(req[x])' /\ \A y \in Workers \ {x} : Busy(y)' => Apart(req[x], req[y])'
    BY DEF Requests
  <2>1. Fine(req[x])'
    BY <1>1 DEF IInv, Requests, Fine, Busy
  <2>2. ASSUME NEW y \in Workers \ {x}, Busy(y)'
        PROVE  Apart(req[x], req[y])'
    BY <1>1, <2>2 DEF IInv, Requests, Apart, Busy
  <2> QED BY <2>1, <2>2
<1>4. Witnessed'
  <2> SUFFICES ASSUME FALSE \notin OwnerMay, NEW s \in Spaces, is_available[s] = FALSE
               PROVE  \E b \in ActiveIn(s) : SeenClosed(b)'
    BY DEF Witnessed, ActiveIn
  <2>1. PICK b \in ActiveIn(s) : SeenClosed(b)
    BY DEF IInv, Witnessed
  <2>2. booking[b] # NoRow /\ booking[b].space = s
    BY DEF ActiveIn
  <2>3. Cancelling(r, b) => r.saw = FALSE
    BY <2>2 DEF Cancelling, Fine
  <2>4. SeenClosed(b)'
    BY <1>1, <2>1, <2>3 DEF SeenClosed, Busy, Cancelling
  <2> QED BY <2>4
<1> QED BY <1>2, <1>3, <1>4 DEF IInv

\* A request that ends without a write.
LEMMA FailStep ==
  ASSUME IInv, NEW w \in Workers, Fail(w)
  PROVE  IInv'
<1>1. /\ \A x \in Workers : req'[x] = IF x = w THEN NoRow ELSE req[x]
      /\ UNCHANGED <<is_available, booking>>
  BY DEF Fail, End, IInv, TypeOK
<1>2. TypeOK'
  BY DEF Fail, End, IInv, TypeOK
<1>3. Requests'
  BY <1>1 DEF IInv, Requests, Fine, Apart, Busy
<1>4. Witnessed'
  BY <1>1 DEF IInv, Witnessed, SeenClosed, ActiveIn, Cancelling, Busy
<1> QED BY <1>2, <1>3, <1>4 DEF IInv

\* The start of a request: nothing is known of it yet but its parameters.
LEMMA BeginStep ==
  ASSUME IInv, NEW w \in Workers, Begin(w)
  PROVE  IInv'
<1> DEFINE R(op, at, s, b, value) ==
      [op |-> op, at |-> at, s |-> s, b |-> b, value |-> value,
       saw |-> NoRow, sawStatus |-> NoRow]
<1>1. CASE \E s \in Spaces, b \in Bookings : BeginBook(w, s, b)
  <2>1. PICK s \in Spaces, b \in Bookings : BeginBook(w, s, b)
    BY <1>1
  <2>2. R("book", "lock", s, b, NoRow) \in Request
    BY DEF Request
  <2>3. Fine(R("book", "lock", s, b, NoRow))
    BY <2>1 DEF BeginBook, Fine
  <2>4. \A x \in Workers \ {w} : Busy(x) =>
          /\ Apart(R("book", "lock", s, b, NoRow), req[x])
          /\ Apart(req[x], R("book", "lock", s, b, NoRow))
    BY <2>1 DEF BeginBook, Apart, Named
  <2> QED BY <2>1, <2>2, <2>3, <2>4, ReadStep DEF BeginBook, Start
<1>2. CASE \E b \in Bookings : BeginCancel(w, b)
  <2>1. PICK b \in Bookings : BeginCancel(w, b)
    BY <1>2
  <2>2. R("cancel", "booking", NoRow, b, NoRow) \in Request
    BY DEF Request
  <2>3. Fine(R("cancel", "booking", NoRow, b, NoRow))
    BY <2>1 DEF Fine
  <2>4. \A x \in Workers \ {w} : Busy(x) =>
          /\ Apart(R("cancel", "booking", NoRow, b, NoRow), req[x])
          /\ Apart(req[x], R("cancel", "booking", NoRow, b, NoRow))
    BY <2>1 DEF BeginCancel, Apart, IInv, Requests, Fine
  <2> QED BY <2>1, <2>2, <2>3, <2>4, ReadStep DEF BeginCancel, Start
<1>3. CASE \E s \in Spaces, v \in OwnerMay : BeginUpdate(w, s, v)
  <2>1. PICK s \in Spaces, v \in OwnerMay : BeginUpdate(w, s, v)
    BY <1>3
  <2>2. R("update", "space", s, NoRow, v) \in Request
    BY DEF Request
  <2>3. Fine(R("update", "space", s, NoRow, v))
    BY DEF Fine
  <2>4. \A x \in Workers \ {w} : Busy(x) =>
          /\ Apart(R("update", "space", s, NoRow, v), req[x])
          /\ Apart(req[x], R("update", "space", s, NoRow, v))
    BY DEF Apart, IInv, Requests, Fine
  <2> QED BY <2>1, <2>2, <2>3, <2>4, ReadStep DEF BeginUpdate, Start
<1>4. CASE \E s \in Spaces : BeginDelete(w, s)
  <2>1. PICK s \in Spaces : BeginDelete(w, s)
    BY <1>4
  <2>2. R("delete", "space", s, NoRow, NoRow) \in Request
    BY DEF Request
  <2>3. Fine(R("delete", "space", s, NoRow, NoRow))
    BY DEF Fine
  <2>4. \A x \in Workers \ {w} : Busy(x) =>
          /\ Apart(R("delete", "space", s, NoRow, NoRow), req[x])
          /\ Apart(req[x], R("delete", "space", s, NoRow, NoRow))
    BY DEF Apart, IInv, Requests, Fine
  <2> QED BY <2>1, <2>2, <2>3, <2>4, ReadStep DEF BeginDelete, Start
<1> QED BY <1>1, <1>2, <1>3, <1>4 DEF Begin

\* A new space is available, and no request knows it.
LEMMA CreateSpaceStep ==
  ASSUME IInv, NEW s \in Spaces, CreateSpace(s)
  PROVE  IInv'
<1>1. /\ UNCHANGED <<booking, req>>
      /\ \A x \in Spaces : is_available'[x] = IF x = s THEN TRUE ELSE is_available[x]
  BY DEF CreateSpace, IInv, TypeOK
<1>2. TypeOK'
  BY DEF CreateSpace, IInv, TypeOK
<1>3. Requests'
  <2> SUFFICES ASSUME NEW x \in Workers, Busy(x) PROVE Fine(req[x])'
    BY <1>1 DEF Requests, IInv, Apart, Busy
  <2>1. Fine(req[x]) /\ req[x].s # s
    BY DEF IInv, Requests, CreateSpace, InUse
  <2> QED BY <1>1, <2>1 DEF Fine
<1>4. Witnessed'
  <2>1. \A x \in Spaces : is_available'[x] = FALSE => is_available[x] = FALSE
    BY <1>1
  <2> QED BY <1>1, <2>1 DEF IInv, Witnessed, SeenClosed, ActiveIn, Cancelling, Busy
<1> QED BY <1>2, <1>3, <1>4 DEF IInv

-----------------------------------------------------------------------------
(* The statements that only read.                                          *)

\* The SELECT ... FOR UPDATE of a space keeps the invariant.
LEMMA LockSpaceStep ==
  ASSUME IInv, NEW w \in Workers, LockSpace(w)
  PROVE  IInv'
<1> DEFINE r == [req[w] EXCEPT !.at = "write", !.saw = TRUE, !.sawStatus = NoRow]
<1>1. /\ Busy(w) /\ req[w] \in Request /\ req[w].at = "lock" /\ ~Locked(req[w].s, w)
      /\ is_available[req[w].s] = TRUE /\ Fine(req[w])
  BY DEF LockSpace, At, Busy, IInv, TypeOK, Requests
<1>2. req[w].op = "book"
  BY <1>1 DEF Fine, Request
<1>3. /\ r \in Request /\ r.op = "book" /\ r.at = "write"
      /\ r.s = req[w].s /\ r.b = req[w].b
  BY <1>1, <1>2 DEF Request
<1>4. req' = [req EXCEPT ![w] = r] /\ UNCHANGED <<is_available, booking>>
  BY DEF LockSpace, Read, IInv, TypeOK
<1>5. Fine(r)
  BY <1>1, <1>2, <1>3 DEF Fine
<1>6. \A x \in Workers \ {w} : Busy(x) => Apart(r, req[x]) /\ Apart(req[x], r)
  <2> SUFFICES ASSUME NEW x \in Workers \ {w}, Busy(x)
               PROVE  Apart(r, req[x]) /\ Apart(req[x], r)
    OBVIOUS
  <2>1. Apart(req[w], req[x]) /\ Apart(req[x], req[w])
    BY <1>1 DEF IInv, Requests
  <2>2. ~(req[x].op = "book" /\ req[x].at = "write" /\ req[x].s = req[w].s)
    BY <1>1 DEF Locked, Doing, At, Busy
  <2> QED BY <1>2, <1>3, <2>1, <2>2 DEF Apart
<1> QED BY <1>3, <1>4, <1>5, <1>6, ReadStep

\* The SELECT of a booking keeps it.
LEMMA ReadBookingStep ==
  ASSUME IInv, NEW w \in Workers, ReadBooking(w)
  PROVE  IInv'
<1> DEFINE r == [req[w] EXCEPT !.at = "space", !.s = booking[req[w].b].space,
                               !.sawStatus = booking[req[w].b].status]
<1>1. /\ Busy(w) /\ req[w] \in Request /\ req[w].at = "booking"
      /\ booking[req[w].b] # NoRow /\ Fine(req[w])
  BY DEF ReadBooking, At, Busy, IInv, TypeOK, Requests
<1>2. req[w].op = "cancel" /\ req[w].b \in Bookings
  BY <1>1 DEF Fine, Request
<1>3. booking[req[w].b] \in BookingRow
  BY <1>1, <1>2 DEF IInv, TypeOK
<1>4. /\ r \in Request /\ r.op = "cancel" /\ r.at = "space" /\ r.b = req[w].b
      /\ r.s = booking[req[w].b].space /\ r.s \in Spaces
  BY <1>1, <1>2, <1>3 DEF Request, BookingRow
<1>5. req' = [req EXCEPT ![w] = r] /\ UNCHANGED <<is_available, booking>>
  BY DEF ReadBooking, IInv, TypeOK
<1>6. Fine(r)
  BY <1>1, <1>2, <1>4 DEF Fine
<1>7. \A x \in Workers \ {w} : Busy(x) => Apart(r, req[x]) /\ Apart(req[x], r)
  BY <1>1, <1>2, <1>4 DEF Apart, IInv, Requests
<1> QED BY <1>4, <1>5, <1>6, <1>7, ReadStep

\* A cancellation that reads a closed space remembers that it is closed.
LEMMA ReadSpaceStep ==
  ASSUME IInv, NEW w \in Workers, ReadSpace(w)
  PROVE  IInv'
<1> DEFINE r == [req[w] EXCEPT !.at = "write", !.saw = is_available[req[w].s],
                               !.sawStatus = req[w].sawStatus]
<1>1. Busy(w) /\ req[w] \in Request /\ req[w].at = "space" /\ Fine(req[w])
  BY DEF ReadSpace, At, Busy, IInv, TypeOK, Requests
<1>2. req[w].op # "book" /\ req[w].s \in Spaces
  BY <1>1 DEF Fine, Request
<1>3. is_available[req[w].s] \in BOOLEAN \cup {NoRow}
  BY <1>2 DEF IInv, TypeOK
<1>4. /\ r \in Request /\ r.op = req[w].op /\ r.at = "write" /\ r.b = req[w].b
      /\ r.s = req[w].s /\ r.value = req[w].value /\ r.saw = is_available[r.s]
  BY <1>1, <1>2, <1>3 DEF Request
<1>5. req' = [req EXCEPT ![w] = r] /\ UNCHANGED <<is_available, booking>>
  BY DEF ReadSpace, Read, IInv, TypeOK
<1>6. Fine(r)
  BY <1>1, <1>2, <1>4 DEF Fine
<1>7. \A x \in Workers \ {w} : Busy(x) => Apart(r, req[x]) /\ Apart(req[x], r)
  BY <1>1, <1>2, <1>4 DEF Apart, IInv, Requests
<1> QED BY <1>4, <1>5, <1>6, <1>7, ReadStep

-----------------------------------------------------------------------------
(* The statements that write.                                              *)

\* What holds of the request w commits, and of the others beside it.
LEMMA Committing ==
  ASSUME IInv, NEW w \in Workers, Busy(w)
  PROVE  /\ req[w] \in Request /\ Fine(req[w])
         /\ \A x \in Workers \ {w} : Busy(x) =>
              Fine(req[x]) /\ Apart(req[w], req[x]) /\ Apart(req[x], req[w])
BY DEF IInv, TypeOK, Requests, Busy

\* A commit leaves the other requests as they are.
LEMMA EndRequests ==
  ASSUME IInv, NEW w \in Workers, End(w),
         \A x \in Workers \ {w} : Busy(x) => Fine(req[x])'
  PROVE  /\ req' \in [Workers -> Request \cup {NoRow}]
         /\ \A x \in Workers : Busy(x)' => x # w /\ Busy(x) /\ req'[x] = req[x]
         /\ Requests'
<1>1. \A x \in Workers : req'[x] = IF x = w THEN NoRow ELSE req[x]
  BY DEF End, IInv, TypeOK
<1>2. Requests'
  BY <1>1 DEF IInv, Requests, Apart, Busy
<1> QED BY <1>1, <1>2 DEF End, Busy, IInv, TypeOK

\* The new booking is the witness: no cancellation knows it.
LEMMA BookStep ==
  ASSUME IInv, NEW w \in Workers, Book(w)
  PROVE  /\ IInv'
         /\ \A b \in Bookings : booking[b] = NoRow /\ booking'[b] # NoRow
              => is_available[booking'[b].space] = TRUE
<1> DEFINE q == req[w]
           row == [space |-> q.s, status |-> "ACTIVE"]
<1>1. /\ q \in Request /\ q.op = "book" /\ q.at = "write" /\ Fine(q)
      /\ \A x \in Workers \ {w} : Busy(x) =>
           Fine(req[x]) /\ Apart(q, req[x]) /\ Apart(req[x], q)
  BY Committing DEF Book, Doing, At
<1>2. /\ q.s \in Spaces /\ q.b \in Bookings
      /\ booking[q.b] = NoRow /\ is_available[q.s] = TRUE
  BY <1>1 DEF Fine
<1>3. row \in BookingRow /\ row.space = q.s /\ row.status = "ACTIVE" /\ row # NoRow
  BY <1>2 DEF BookingRow, Status
<1>4. /\ \A b \in Bookings : booking'[b] = IF b = q.b THEN row ELSE booking[b]
      /\ \A s \in Spaces : is_available'[s] = IF s = q.s THEN FALSE ELSE is_available[s]
  BY DEF Book, IInv, TypeOK
<1>5. /\ is_available' \in [Spaces -> BOOLEAN \cup {NoRow}]
      /\ booking' \in [Bookings -> BookingRow \cup {NoRow}]
  BY <1>2, <1>3 DEF Book, IInv, TypeOK
<1>6. ASSUME NEW x \in Workers \ {w}, Busy(x)
      PROVE  Fine(req[x])'
  <2>1. req'[x] = req[x]
    BY DEF Book, End, IInv, TypeOK
  <2>2. Fine(req[x]) /\ req[x].b # q.b
        /\ ~(req[x].op = "book" /\ req[x].at = "write" /\ req[x].s = q.s)
    BY <1>1, <1>6 DEF Apart
  <2>3. \A s \in Spaces : is_available'[s] # NoRow => is_available[s] # NoRow
    BY <1>2, <1>4
  <2>4. /\ \A s \in Spaces : s # q.s => is_available'[s] = is_available[s]
        /\ \A b \in Bookings : b # q.b => booking'[b] = booking[b]
    BY <1>4
  <2> HIDE DEF q, row
  <2> QED BY <2>1, <2>2, <2>3, <2>4 DEF Fine
<1>7. /\ req' \in [Workers -> Request \cup {NoRow}]
      /\ \A x \in Workers : Busy(x)' => x # w /\ Busy(x) /\ req'[x] = req[x]
      /\ Requests'
  BY <1>6, EndRequests DEF Book
<1>8. Witnessed'
  <2> SUFFICES ASSUME FALSE \notin OwnerMay, NEW s \in Spaces, is_available'[s] = FALSE
               PROVE  \E b \in ActiveIn(s)' : SeenClosed(b)'
    BY DEF Witnessed
  <2>1. CASE s = q.s
    <3>1. PICK b \in Bookings : b = q.b
      BY <1>2
    <3>2. b \in ActiveIn(s)'
      BY <1>2, <1>3, <1>4, <2>1, <3>1 DEF ActiveIn
    <3>3. SeenClosed(b)'
      BY <1>1, <1>7, <3>1 DEF SeenClosed, Cancelling, Apart
    <3> QED BY <3>2, <3>3
  <2>2. CASE s # q.s
    <3>1. PICK b \in ActiveIn(s) : SeenClosed(b)
      BY <1>4, <2>2 DEF IInv, Witnessed
    <3>2. b \in ActiveIn(s)'
      BY <1>2, <1>4 DEF ActiveIn
    <3>3. SeenClosed(b)'
      BY <1>7, <3>1 DEF SeenClosed, Cancelling
    <3> QED BY <3>2, <3>3
  <2> QED BY <2>1, <2>2
<1> QED BY <1>2, <1>3, <1>4, <1>5, <1>7, <1>8 DEF IInv, TypeOK

\* The witness of a space is not cancelled without opening the space.
LEMMA CancelStep ==
  ASSUME IInv, NEW w \in Workers, Cancel(w)
  PROVE  IInv' /\ \A b \in Bookings : booking'[b] # NoRow => booking[b] # NoRow
<1> DEFINE q == req[w]
<1>1. /\ q \in Request /\ q.op = "cancel" /\ q.at = "write" /\ Fine(q)
      /\ \A x \in Workers \ {w} : Busy(x) =>
           Fine(req[x]) /\ Apart(q, req[x]) /\ Apart(req[x], q)
  BY Committing DEF Cancel, MayWrite, Doing, At
<1>2. /\ q.s \in Spaces /\ q.b \in Bookings /\ is_available[q.s] # NoRow
      /\ booking[q.b] # NoRow /\ booking[q.b].space = q.s
  BY <1>1 DEF Fine, Cancel, MayWrite
<1>3. PICK row \in BookingRow :
        /\ row.space = q.s
        /\ booking' = [booking EXCEPT ![q.b] = row]
  <2>1. booking[q.b] \in BookingRow
    BY <1>2 DEF IInv, TypeOK
  <2>2. CASE q.sawStatus = "CANCELLED"
    BY <1>2, <2>1, <2>2 DEF Cancel, IInv, TypeOK
  <2>3. CASE q.sawStatus # "CANCELLED"
    <3>1. booking' = [booking EXCEPT ![q.b] = [booking[q.b] EXCEPT !.status = "CANCELLED"]]
      BY <2>3 DEF Cancel
    <3>2. [booking[q.b] EXCEPT !.status = "CANCELLED"] \in BookingRow
          /\ [booking[q.b] EXCEPT !.status = "CANCELLED"].space = q.s
      BY <1>2, <2>1 DEF BookingRow, Status
    <3> QED BY <3>1, <3>2
  <2> QED BY <2>2, <2>3
<1>4. \A b \in Bookings : booking'[b] = IF b = q.b THEN row ELSE booking[b]
  BY <1>3 DEF IInv, TypeOK
<1>5. /\ \A s \in Spaces : s # q.s => is_available'[s] = is_available[s]
      /\ is_available'[q.s] = TRUE \/ is_available'[q.s] = is_available[q.s]
      /\ q.saw = FALSE => is_available'[q.s] = TRUE
      /\ is_available' \in [Spaces -> BOOLEAN \cup {NoRow}]
  <2>1. CASE q.saw = TRUE
    <3>1. q.saw # FALSE
      BY <2>1
    <3>2. is_available' = [is_available EXCEPT ![q.s] = is_available[q.s]]
      BY <2>1 DEF Cancel, GivenBack
    <3> QED BY <1>2, <3>1, <3>2 DEF IInv, TypeOK
  <2>2. CASE q.saw # TRUE
    <3>1. is_available' = [is_available EXCEPT ![q.s] = TRUE]
      BY <2>2 DEF Cancel, GivenBack
    <3> QED BY <1>2, <3>1 DEF IInv, TypeOK
  <2> QED BY <2>1, <2>2
<1>6. ASSUME NEW x \in Workers \ {w}, Busy(x)
      PROVE  Fine(req[x])'
  <2>1. req'[x] = req[x]
    BY DEF Cancel, End, IInv, TypeOK
  <2>2. Fine(req[x]) /\ Apart(req[x], q)
    BY <1>1, <1>6
  <2>3. \A s \in Spaces : is_available[s] = TRUE => is_available'[s] = TRUE
    BY <1>5
  <2>4. \A s \in Spaces : is_available'[s] # NoRow => is_available[s] # NoRow
    BY <1>2, <1>5
  <2>5. \A b \in Bookings : /\ booking'[b] = NoRow <=> booking[b] = NoRow
                            /\ booking[b] # NoRow => booking'[b].space = booking[b].space
    BY <1>2, <1>3, <1>4
  <2>6. req[x].b \in Bookings => (booking'[req[x].b] = NoRow <=> booking[req[x].b] = NoRow)
    BY <2>5
  <2> QED BY <2>1, <2>2, <2>3, <2>4, <2>5, <2>6 DEF Fine
<1>7. /\ req' \in [Workers -> Request \cup {NoRow}]
      /\ \A x \in Workers : Busy(x)' => x # w /\ Busy(x) /\ req'[x] = req[x]
      /\ Requests'
  BY <1>6, EndRequests DEF Cancel
<1>8. Witnessed'
  <2> SUFFICES ASSUME FALSE \notin OwnerMay, NEW s \in Spaces, is_available'[s] = FALSE
               PROVE  \E b \in ActiveIn(s)' : SeenClosed(b)'
    BY DEF Witnessed
  <2>1. is_available[s] = FALSE
    BY <1>5
  <2>2. PICK b \in ActiveIn(s) : SeenClosed(b)
    BY <2>1 DEF IInv, Witnessed
  <2>3. b # q.b
    <3>1. SUFFICES ASSUME b = q.b PROVE FALSE
      OBVIOUS
    <3>2. q.saw = FALSE
      BY <1>1, <2>2, <3>1 DEF SeenClosed, Cancelling, Cancel, MayWrite, Doing
    <3>3. s = q.s
      BY <1>2, <3>1 DEF ActiveIn
    <3>4. is_available'[s] = TRUE
      BY <1>5, <3>2, <3>3
    <3> QED BY <3>4
  <2>4. b \in ActiveIn(s)'
    BY <1>4, <2>3 DEF ActiveIn
  <2>5. SeenClosed(b)'
    BY <1>7, <2>2 DEF SeenClosed, Cancelling
  <2> QED BY <2>4, <2>5
<1> QED BY <1>2, <1>3, <1>4, <1>5, <1>7, <1>8 DEF IInv, TypeOK

\* The owner opens the space, or has not promised to leave it open.
LEMMA UpdateStep ==
  ASSUME IInv, NEW w \in Workers, Update(w)
  PROVE  IInv'
<1> DEFINE q == req[w]
<1>1. /\ q \in Request /\ q.op = "update" /\ q.at = "write" /\ Fine(q)
      /\ \A x \in Workers \ {w} : Busy(x) =>
           Fine(req[x]) /\ Apart(q, req[x]) /\ Apart(req[x], q)
  BY Committing DEF Update, MayWrite, Doing, At
<1>2. /\ q.s \in Spaces /\ q.value \in OwnerMay /\ q.value \in BOOLEAN
      /\ is_available[q.s] # NoRow
  BY <1>1 DEF Fine, Update, MayWrite
<1>3. UNCHANGED booking
  BY DEF Update
<1>4. \/ is_available' = [is_available EXCEPT ![q.s] = is_available[q.s]]
      \/ is_available' = [is_available EXCEPT ![q.s] = q.value]
  BY DEF Update, GivenBack
<1>5. /\ \A s \in Spaces : s # q.s => is_available'[s] = is_available[s]
      /\ is_available'[q.s] = q.value \/ is_available'[q.s] = is_available[q.s]
      /\ is_available' \in [Spaces -> BOOLEAN \cup {NoRow}]
  BY <1>2, <1>4 DEF IInv, TypeOK
<1>6. ASSUME NEW x \in Workers \ {w}, Busy(x)
      PROVE  Fine(req[x])'
  <2>1. req'[x] = req[x]
    BY DEF Update, End, IInv, TypeOK
  <2>2. Fine(req[x]) /\ ~(req[x].op = "book" /\ req[x].at = "write" /\ req[x].s = q.s)
    BY <1>1, <1>6 DEF Update, MayWrite, Locked, Doing, At
  <2>3. \A s \in Spaces : is_available'[s] # NoRow => is_available[s] # NoRow
    BY <1>2, <1>5
  <2> HIDE DEF q
  <2> QED BY <1>3, <1>5, <2>1, <2>2, <2>3 DEF Fine
<1>7. /\ req' \in [Workers -> Request \cup {NoRow}]
      /\ \A x \in Workers : Busy(x)' => x # w /\ Busy(x) /\ req'[x] = req[x]
      /\ Requests'
  BY <1>6, EndRequests DEF Update
<1>8. Witnessed'
  <2> SUFFICES ASSUME FALSE \notin OwnerMay, NEW s \in Spaces, is_available'[s] = FALSE
               PROVE  \E b \in ActiveIn(s) : SeenClosed(b)'
    BY <1>3 DEF Witnessed, ActiveIn
  <2>1. q.value # FALSE
    BY <1>2
  <2>2. is_available[s] = FALSE
    BY <1>5, <2>1
  <2>3. PICK b \in ActiveIn(s) : SeenClosed(b)
    BY <2>2 DEF IInv, Witnessed
  <2>4. SeenClosed(b)'
    BY <1>7, <2>3 DEF SeenClosed, Cancelling
  <2> QED BY <2>4
<1> QED BY <1>3, <1>5, <1>7, <1>8 DEF IInv, TypeOK

\* The bookings of the space go with it; nobody is about to book it.
LEMMA DeleteStep ==
  ASSUME IInv, NEW w \in Workers, Delete(w)
  PROVE  IInv' /\ \A b \in Bookings : booking'[b] # NoRow => booking[b] # NoRow
<1> DEFINE q == req[w]
<1>1. /\ q \in Request /\ q.op = "delete" /\ q.at = "write" /\ Fine(q)
      /\ \A x \in Workers \ {w} : Busy(x) =>
           Fine(req[x]) /\ Apart(q, req[x]) /\ Apart(req[x], q)
  BY Committing DEF Delete, MayWrite, Doing, At
<1>2. q.s \in Spaces
  BY <1>1 DEF Fine
<1>3. /\ \A s \in Spaces : s # q.s => is_available'[s] = is_available[s]
      /\ is_available'[q.s] = NoRow
      /\ is_available' \in [Spaces -> BOOLEAN \cup {NoRow}]
  BY <1>2 DEF Delete, IInv, TypeOK
<1>4. /\ \A b \in Bookings : booking'[b] = NoRow \/ booking'[b] = booking[b]
      /\ \A b \in Bookings : booking[b] # NoRow /\ booking[b].space # q.s
           => booking'[b] = booking[b]
      /\ booking' \in [Bookings -> BookingRow \cup {NoRow}]
  BY DEF Delete, IInv, TypeOK
<1>5. ASSUME NEW x \in Workers \ {w}, Busy(x)
      PROVE  Fine(req[x])'
  <2>1. req'[x] = req[x]
    BY DEF Delete, End, IInv, TypeOK
  <2>2. Fine(req[x]) /\ ~(req[x].op = "book" /\ req[x].at = "write" /\ req[x].s = q.s)
    BY <1>1, <1>5 DEF Delete, MayWrite, Locked, Doing, At
  <2> HIDE DEF q
  <2> QED BY <1>3, <1>4, <2>1, <2>2 DEF Fine
<1>6. /\ req' \in [Workers -> Request \cup {NoRow}]
      /\ \A x \in Workers : Busy(x)' => x # w /\ Busy(x) /\ req'[x] = req[x]
      /\ Requests'
  BY <1>5, EndRequests DEF Delete
<1>7. Witnessed'
  <2> SUFFICES ASSUME FALSE \notin OwnerMay, NEW s \in Spaces, is_available'[s] = FALSE
               PROVE  \E b \in ActiveIn(s)' : SeenClosed(b)'
    BY DEF Witnessed
  <2>1. FALSE # NoRow
    OBVIOUS
  <2>2. s # q.s
    BY <1>3, <2>1
  <2>3. PICK b \in ActiveIn(s) : SeenClosed(b)
    BY <1>3, <2>2 DEF IInv, Witnessed
  <2>4. b \in ActiveIn(s)'
    BY <1>4, <2>2, <2>3 DEF ActiveIn
  <2>5. SeenClosed(b)'
    BY <1>6, <2>3 DEF SeenClosed, Cancelling
  <2> QED BY <2>4, <2>5
<1> QED BY <1>3, <1>4, <1>6, <1>7 DEF IInv, TypeOK

-----------------------------------------------------------------------------
\* A step that only ends the request.
LEMMA EndsOnly ==
  ASSUME NEW w \in Workers, Unavailable(w) \/ NotOffered(w) \/ Gone(w) \/ Crash(w)
  PROVE  Fail(w)
BY DEF Unavailable, NotOffered, Gone, Crash

\* The invariant holds when there are no bookings.
LEMMA Initially == Init => IInv
<1> SUFFICES ASSUME Init PROVE IInv
  OBVIOUS
<1>1. TypeOK
  BY DEF Init, TypeOK
<1>2. Requests
  BY DEF Init, Requests, Busy
<1>3. \A s \in Spaces : is_available[s] # FALSE
  <2>1. FALSE # TRUE /\ FALSE # NoRow
    OBVIOUS
  <2> QED BY <2>1 DEF Init
<1>4. Witnessed
  BY <1>3 DEF Witnessed
<1> QED BY <1>1, <1>2, <1>4 DEF IInv

\* Every step keeps it.
LEMMA Inductive == IInv /\ [Next]_vars => IInv'
<1> SUFFICES ASSUME IInv, [Next]_vars PROVE IInv'
  OBVIOUS
<1>1. CASE \E s \in Spaces : CreateSpace(s)
  BY <1>1, CreateSpaceStep
<1>2. CASE \E w \in Workers : Begin(w) \/ Step(w) \/ Crash(w)
  <2>1. PICK w \in Workers : Begin(w) \/ Step(w) \/ Crash(w)
    BY <1>2
  <2>2. CASE Unavailable(w) \/ NotOffered(w) \/ Gone(w) \/ Crash(w)
    BY <2>2, EndsOnly, FailStep
  <2> QED BY <2>1, <2>2, BeginStep, LockSpaceStep, ReadBookingStep, ReadSpaceStep,
             BookStep, CancelStep, UpdateStep, DeleteStep DEF Step
<1>3. CASE UNCHANGED vars
  <2> USE <1>3 DEF vars
  <2>1. TypeOK'
    BY DEF IInv, TypeOK
  <2>2. Requests'
    BY DEF IInv, Requests, Fine, Apart, Busy
  <2>3. Witnessed'
    BY DEF IInv, Witnessed, SeenClosed, ActiveIn, Cancelling, Busy
  <2> QED BY <2>1, <2>2, <2>3 DEF IInv
<1> QED BY <1>1, <1>2, <1>3 DEF Next

\* It holds throughout.
LEMMA Invariance == Spec => []IInv
BY Initially, Inductive, PTL DEF Spec

\* The rows of parking_spaces and parking_bookings, and what the requests of
\* parking_service have read of them, are values of their columns.
THEOREM TypeCorrect == Spec => []TypeOK
<1>1. IInv => TypeOK
  BY DEF IInv
<1> QED BY <1>1, Invariance, PTL

\* However many cancellations overlap, repeat or are cut off, book_parking_space
\* and cancel_parking_booking leave no space closed without an active booking.
THEOREM NoSpaceLostAlways == Spec => []NoSpaceLost
<1>1. IInv => NoSpaceLost
  BY DEF IInv, TypeOK, Witnessed, NoSpaceLost, OnOffer
<1> QED BY <1>1, Invariance, PTL

\* SELECT ... FOR UPDATE in book_parking_space holds until the commit: no
\* booking appears for a space that is not available.
THEOREM BookedWhileAvailableAlways == Spec => BookedWhileAvailable
<1> DEFINE A == \A b \in Bookings : booking[b] = NoRow /\ booking'[b] # NoRow
                                       => is_available[booking'[b].space] = TRUE
<1>1. IInv /\ [Next]_vars => [A]_vars
  <2> SUFFICES ASSUME IInv, Next PROVE A
    BY DEF vars
  <2>1. CASE \E s \in Spaces : CreateSpace(s)
    BY <2>1 DEF CreateSpace
  <2>2. CASE \E w \in Workers : Begin(w) \/ Crash(w)
    BY <2>2 DEF Begin, BeginBook, BeginCancel, BeginUpdate, BeginDelete, Start, Crash, Fail
  <2>3. CASE \E w \in Workers : Step(w)
    <3>1. PICK w \in Workers : Step(w)
      BY <2>3
    <3>2. CASE Unavailable(w) \/ NotOffered(w) \/ Gone(w)
      BY <3>2, EndsOnly DEF Fail
    <3>3. CASE LockSpace(w) \/ ReadBooking(w) \/ ReadSpace(w) \/ Update(w)
      BY <3>3 DEF LockSpace, ReadBooking, ReadSpace, Read, Update
    <3> QED BY <3>1, <3>2, <3>3, BookStep, CancelStep, DeleteStep DEF Step
  <2> QED BY <2>1, <2>2, <2>3 DEF Next
<1> QED BY <1>1, Invariance, PTL DEF Spec, BookedWhileAvailable
=============================================================================
