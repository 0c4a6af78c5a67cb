------------------------------- MODULE Parking -------------------------------
(***************************************************************************)
(* Parking spaces and their bookings.  Every request is a transaction of   *)
(* its own session, several at a time, as in RentalTx: booking a space     *)
(* keeps the row locked from the check to the commit; cancelling a booking *)
(* and updating a space read without a lock and, at the commit, write the  *)
(* columns whose value differs from what they have read.                   *)
(*                                                                         *)
(* Requests have an actor the code permits.  Rates, dates and amounts are  *)
(* left out; a rate that is not offered makes a booking fail (NotOffered). *)
(***************************************************************************)
EXTENDS FiniteSets

CONSTANTS
  Spaces,     \* identifiers of parking spaces
  Bookings,   \* identifiers of parking bookings
  Workers,    \* sessions that serve requests at the same time
  OwnerMay,   \* the values of is_available that owners set by hand
  NoRow       \* the row, or the request, does not exist

Status     == {"ACTIVE", "CANCELLED"}
BookingRow == [space : Spaces, status : Status]

\* A request in progress: its next statement (at), its space and booking, the
\* value the owner asks for, and is_available and status as it has read them.
Request ==
  [op : {"book", "cancel", "update", "delete"},
   at : {"lock", "booking", "space", "write"},
   s : Spaces \cup {NoRow}, b : Bookings \cup {NoRow}, value : BOOLEAN \cup {NoRow},
   saw : BOOLEAN \cup {NoRow}, sawStatus : Status \cup {NoRow}]

ASSUME ParkingAssumption ==
  /\ OwnerMay \subseteq BOOLEAN
  /\ NoRow \notin BOOLEAN /\ NoRow \notin BookingRow /\ NoRow \notin Request
  /\ NoRow \notin Status /\ NoRow \notin Spaces /\ NoRow \notin Bookings

VARIABLES
  is_available,   \* is_available[s]: the flag of space s, or NoRow
  booking,        \* booking[b]: the row of booking b, or NoRow
  req             \* req[w]: the request worker w is serving, or NoRow

vars == <<is_available, booking, req>>

TypeOK ==
  /\ is_available \in [Spaces -> BOOLEAN \cup {NoRow}]
  /\ booking \in [Bookings -> BookingRow \cup {NoRow}]
  /\ req \in [Workers -> Request \cup {NoRow}]

Init ==
  /\ is_available \in [Spaces -> {TRUE, NoRow}]
  /\ booking = [b \in Bookings |-> NoRow]
  /\ req = [w \in Workers |-> NoRow]

Busy(w)      == req[w] # NoRow
Doing(w, op) == Busy(w) /\ req[w].op = op
At(w, stmt)  == Busy(w) /\ req[w].at = stmt
Named(b)     == \E w \in Workers : Busy(w) /\ req[w].b = b
InUse(s)     == \E w \in Workers : Busy(w) /\ req[w].s = s

\* Mutant: the SELECT of the space does not say FOR UPDATE.
MutLocked(s, w) == FALSE

\* A request that books s keeps its row locked from its SELECT ... FOR UPDATE.
Locked(s, w) ==
  \E x \in Workers \ {w} : Doing(x, "book") /\ At(x, "write") /\ req[x].s = s

\* The spaces that a search shows.
OnOffer == {s \in Spaces : is_available[s] = TRUE}

\* The bookings the owner sees as active.
ActiveIn(s) ==
  {b \in Bookings : booking[b] # NoRow /\ booking[b].space = s
                                       /\ booking[b].status = "ACTIVE"}

Start(w, op, at, s, b, value) ==
  /\ ~Busy(w)
  /\ req' = [req EXCEPT ![w] =
               [op |-> op, at |-> at, s |-> s, b |-> b, value |-> value,
                saw |-> NoRow, sawStatus |-> NoRow]]
  /\ UNCHANGED <<is_available, booking>>

Read(w, at, saw, sawStatus) ==
  /\ req' = [req EXCEPT ![w].at = at, ![w].saw = saw, ![w].sawStatus = sawStatus]
  /\ UNCHANGED <<is_available, booking>>

End(w) == req' = [req EXCEPT ![w] = NoRow]

\* An exception, or the loss of the connection before the commit.
Fail(w) == End(w) /\ UNCHANGED <<is_available, booking>>

-----------------------------------------------------------------------------
CreateSpace(s) ==
  /\ is_available[s] = NoRow /\ ~InUse(s)
  /\ is_available' = [is_available EXCEPT ![s] = TRUE]
  /\ UNCHANGED <<booking, req>>

\* book_parking_space.
BeginBook(w, s, b) ==
  /\ is_available[s] # NoRow /\ booking[b] = NoRow /\ ~Named(b)
  /\ Start(w, "book", "lock", s, b, NoRow)

LockSpace(w) ==
  /\ At(w, "lock") /\ ~Locked(req[w].s, w)
  /\ is_available[req[w].s] = TRUE
  /\ Read(w, "write", TRUE, NoRow)

\* The space is gone, or occupied or unavailable.
Unavailable(w) ==
  /\ At(w, "lock") /\ ~Locked(req[w].s, w)
  /\ is_available[req[w].s] # TRUE
  /\ Fail(w)

NotOffered(w) == Doing(w, "book") /\ At(w, "write") /\ Fail(w)

Book(w) ==
  /\ Doing(w, "book") /\ At(w, "write")
  /\ booking' = [booking EXCEPT ![req[w].b] = [space |-> req[w].s, status |-> "ACTIVE"]]
  /\ is_available' = [is_available EXCEPT ![req[w].s] = FALSE]
  /\ End(w)

-----------------------------------------------------------------------------
\* cancel_parking_booking; a booking may be cancelled again.
BeginCancel(w, b) ==
  booking[b] # NoRow /\ Start(w, "cancel", "booking", NoRow, b, NoRow)

ReadBooking(w) ==
  /\ At(w, "booking") /\ booking[req[w].b] # NoRow
  /\ req' = [req EXCEPT ![w].at = "space", ![w].s = booking[req[w].b].space,
                        ![w].sawStatus = booking[req[w].b].status]
  /\ UNCHANGED <<is_available, booking>>

\* update_parking_space and delete_parking_space.
BeginUpdate(w, s, v) ==
  is_available[s] # NoRow /\ Start(w, "update", "space", s, NoRow, v)

BeginDelete(w, s) ==
  is_available[s] # NoRow /\ Start(w, "delete", "space", s, NoRow, NoRow)

\* The second SELECT of a cancellation, the first of an update or deletion.
ReadSpace(w) ==
  At(w, "space") /\ Read(w, "write", is_available[req[w].s], req[w].sawStatus)

\* What is UPDATEd is gone: StaleDataError.
Gone(w) ==
  /\ \/ At(w, "booking") /\ booking[req[w].b] = NoRow
     \/ At(w, "write") /\ ~Doing(w, "book") /\ is_available[req[w].s] = NoRow
  /\ Fail(w)

\* Mutant: the booking is cancelled, the space is not given back.
MutGivenBack(s, saw, value) == is_available[s]

\* is_available of s after a commit that sets it to value, having read saw.
GivenBack(s, saw, value) == IF saw = value THEN is_available[s] ELSE value

\* The UPDATE of the space waits for its lock.
MayWrite(w, op) ==
  /\ Doing(w, op) /\ At(w, "write") /\ is_available[req[w].s] # NoRow
  /\ ~Locked(req[w].s, w)

Cancel(w) ==
  LET q == req[w]
  IN /\ MayWrite(w, "cancel")
     /\ booking' = IF q.sawStatus = "CANCELLED" THEN booking
                   ELSE [booking EXCEPT ![q.b].status = "CANCELLED"]
     /\ is_available' = [is_available EXCEPT ![q.s] = GivenBack(q.s, q.saw, TRUE)]
     /\ End(w)

Update(w) ==
  LET q == req[w]
  IN /\ MayWrite(w, "update")
     /\ is_available' = [is_available EXCEPT ![q.s] = GivenBack(q.s, q.saw, q.value)]
     /\ End(w)
     /\ UNCHANGED booking

\* The bookings of the space are deleted with it.
Delete(w) ==
  /\ MayWrite(w, "delete")
  /\ is_available' = [is_available EXCEPT ![req[w].s] = NoRow]
  /\ booking' = [b \in Bookings |->
                   IF booking[b] # NoRow /\ booking[b].space = req[w].s THEN NoRow
                   ELSE booking[b]]
  /\ End(w)

Crash(w) == Busy(w) /\ Fail(w)

-----------------------------------------------------------------------------
Begin(w) ==
  \/ \E s \in Spaces, b \in Bookings : BeginBook(w, s, b)
  \/ \E b \in Bookings : BeginCancel(w, b)
  \/ \E s \in Spaces, v \in OwnerMay : BeginUpdate(w, s, v)
  \/ \E s \in Spaces : BeginDelete(w, s)

Step(w) ==
  \/ LockSpace(w) \/ Unavailable(w) \/ NotOffered(w) \/ Book(w)
  \/ ReadBooking(w) \/ ReadSpace(w) \/ Gone(w)
  \/ Cancel(w) \/ Update(w) \/ Delete(w)

Next ==
  \/ \E s \in Spaces : CreateSpace(s)
  \/ \E w \in Workers : Begin(w) \/ Step(w) \/ Crash(w)

Spec == Init /\ [][Next]_vars

-----------------------------------------------------------------------------
(* Properties.                                                             *)

\* The lock holds from the check to the commit: a booking appears only for a
\* space that is still available, whatever is cancelled, updated or deleted
\* between the two.
BookedWhileAvailable ==
  [][\A b \in Bookings :
       booking[b] = NoRow /\ booking'[b] # NoRow
         => is_available[booking'[b].space] = TRUE]_vars

\* No space is lost: unless owners withdraw spaces by hand, a space is found by
\* a search or has an active booking, which the owner sees and somebody can
\* cancel; cancellations that overlap, repeat or are cut off do not hide it.
NoSpaceLost ==
  FALSE \notin OwnerMay =>
    \A s \in Spaces : is_available[s] # NoRow => s \in OnOffer \/ ActiveIn(s) # {}

\* "This parking space is currently occupied or unavailable": a space is let
\* to one booking at a time, as Lease promises.
SpaceHolders == [s \in Spaces |-> ActiveIn(s)]

SpaceLease == INSTANCE Lease WITH Things <- Spaces, Takers <- Bookings,
                                  holders <- SpaceHolders

SpacesAreLet == SpaceLease!Spec
=============================================================================
