------------------------------ MODULE RentalTx ------------------------------
(***************************************************************************)
(* The handlers of Rental as they run: each request is a transaction of    *)
(* its own database session, several at a time.                            *)
(*                                                                         *)
(* PostgreSQL at READ COMMITTED: a statement sees what is committed when   *)
(* it starts; SELECT ... FOR UPDATE waits for the row's lock, which is     *)
(* kept until the transaction ends; the handler's UPDATEs and INSERTs are  *)
(* flushed at its end (autoflush is off) and become visible by the commit  *)
(* that get_db issues right after, so here flush and commit are one step.  *)
(* That step waits for the rows it updates without having locked them.  A  *)
(* cycle of waits is broken by aborting one of its transactions.           *)
(*                                                                         *)
(* Each worker runs one request after the other.  The database state is    *)
(* that of Rental, of which RentalTx reuses checks and writes.             *)
(***************************************************************************)
EXTENDS Rental

CONSTANTS
  Workers,    \* sessions that serve requests at the same time
  Allowed     \* Allowed[w]: the operations worker w may be asked for

\* The statements of each operation, in the order of the code: "read" is an
\* unlocked SELECT, "dup" the duplicate check, "booking", "room" and "seat" a
\* SELECT ... FOR UPDATE of that row, "write" the flush and the commit.
\* Mutant: the duplicate check is done before the room is locked.
MutScriptDupFirst ==
  [create    |-> <<"read", "dup", "room", "seat", "write">>,
   cancel    |-> <<"read", "write">>,
   approve   |-> <<"booking", "room", "seat", "write">>,
   reject    |-> <<"booking", "write">>,
   confirm   |-> <<"booking", "write">>,
   visited   |-> <<"booking", "write">>,
   pay       |-> <<"booking", "room", "seat", "write">>,
   notice    |-> <<"read", "write">>,
   terminate |-> <<"read", "seat", "room", "write">>,
   sign      |-> <<"read", "write">>,
   delete    |-> <<"read", "write">>]

Script ==
  [create    |-> <<"read", "room", "seat", "dup", "write">>,
   cancel    |-> <<"read", "write">>,
   approve   |-> <<"booking", "room", "seat", "write">>,
   reject    |-> <<"booking", "write">>,
   confirm   |-> <<"booking", "write">>,
   visited   |-> <<"booking", "write">>,
   pay       |-> <<"booking", "room", "seat", "write">>,
   notice    |-> <<"read", "write">>,
   terminate |-> <<"read", "seat", "room", "write">>,
   sign      |-> <<"read", "write">>,
   delete    |-> <<"read", "write">>]

Operation == DOMAIN Script

VARIABLE req  \* req[w]: the request worker w is serving, or NoRow

txVars == <<vars, req>>

Row == ({"booking"} \X Bookings) \cup ({"room"} \X Rooms) \cup ({"seat"} \X Seats)

\* A request in progress: what was asked for (b, tenant, room, seat, arg), the
\* next statement (at), the rows it has locked and the rows it has read.
Request ==
  [op : Operation, at : 1..5, b : Bookings \cup {NoRow}, tenant : Tenants \cup {NoRow},
   room : Rooms, seat : Seats \cup {NoSeat}, arg : FirstVisit \cup Party \cup {NoRow},
   held : SUBSET Row, sawRoom : RoomRow \cup {NoRow},
   sawTenancy : TenancyRow \cup {NoRow}]

ASSUME TxAssumption ==
  Allowed \in [Workers -> SUBSET Operation] /\ NoRow \notin Request

TxTypeOK == TypeOK /\ req \in [Workers -> Request \cup {NoRow}]

Busy(w)  == req[w] # NoRow
Stmt(w)  == Script[req[w].op][req[w].at]
Named(w) == {req[x].b : x \in {x \in Workers \ {w} : Busy(x)}}

\* The rows a statement needs for itself.
Needs(w) ==
  LET q == req[w]
  IN CASE Stmt(w) = "booking" -> {<<"booking", q.b>>}
       [] Stmt(w) = "room"    -> {<<"room", q.room>>}
       [] Stmt(w) = "seat"    -> IF q.seat = NoSeat THEN {} ELSE {<<"seat", q.seat>>}
       [] Stmt(w) = "write" /\ q.op = "cancel" -> {<<"booking", q.b>>}
       [] Stmt(w) = "write" /\ q.op = "delete" ->
            {<<"room", q.room>>}
              \cup {<<"seat", s>> : s \in {s \in Seats : RoomOf[s] = q.room}}
              \cup {<<"booking", b>> : b \in {b \in Bookings : InRoom(b, q.room)}}
       [] OTHER -> {}

\* Mutants: the SELECTs of rooms and seats, or those of bookings, do not say
\* FOR UPDATE.
MutOnlyBookingLocks(w, x) ==
  /\ w # x /\ Busy(w) /\ Busy(x)
  /\ \E b \in Bookings : <<"booking", b>> \in Needs(w) \cap req[x].held

MutNoBookingLocks(w, x) ==
  /\ w # x /\ Busy(w) /\ Busy(x)
  /\ (Needs(w) \cap req[x].held) \ ({"booking"} \X Bookings) # {}

WaitsFor(w, x) == w # x /\ Busy(w) /\ Busy(x) /\ Needs(w) \cap req[x].held # {}

Blocked(w) == \E x \in Workers : WaitsFor(w, x)

\* What a statement checks of what it has read; the request fails otherwise.
Passes(w) ==
  LET q == req[w]
  IN CASE q.op = "create" /\ Stmt(w) = "read" -> is_published = TRUE
       [] q.op = "create" /\ Stmt(w) = "room" -> RoomOpen(q.room)
       [] q.op = "create" /\ Stmt(w) = "seat" -> SeatOpen(q.room, q.seat)
       [] q.op = "create" /\ Stmt(w) = "dup"  -> ~HasOpenRequest(q.tenant, q.room)
       [] q.op = "cancel" /\ Stmt(w) = "read" -> HasStatus(q.b, {"REQUESTED"})
       [] q.op \in {"approve", "reject"} /\ Stmt(w) = "booking" ->
            HasStatus(q.b, {"REQUESTED"})
       [] q.op = "pay" /\ Stmt(w) = "booking" -> CanPay(q.b)
       [] q.op \in {"confirm", "visited"} /\ Stmt(w) = "booking" ->
            booking[q.b] # NoRow
       [] q.op \in {"approve", "pay"} /\ Stmt(w) = "room" -> room[q.room] # NoRow
       [] q.op \in {"approve", "pay"} /\ Stmt(w) = "seat" -> SeatFree(q.seat)
       [] q.op = "notice" /\ Stmt(w) = "read" -> TenancyIn(q.b, {"ACTIVE"})
       [] q.op = "terminate" /\ Stmt(w) = "read" -> Live(q.b)
       [] q.op = "sign" /\ Stmt(w) = "read" -> tenancy[q.b] # NoRow
       [] q.op = "delete" /\ Stmt(w) = "read" ->
            room[q.room] # NoRow /\ LiveIn(q.room) = {}
       \* An UPDATE or DELETE of a row that is gone raises StaleDataError.
       [] q.op = "cancel" /\ Stmt(w) = "write" -> booking[q.b] # NoRow
       [] q.op \in {"notice", "terminate", "sign"} /\ Stmt(w) = "write" ->
            tenancy[q.b] # NoRow
       [] q.op = "delete" /\ Stmt(w) = "write" -> room[q.room] # NoRow
       [] OTHER -> TRUE

-----------------------------------------------------------------------------
Start(w, q) ==
  /\ ~Busy(w)
  /\ q.op \in Allowed[w]
  /\ req' = [req EXCEPT ![w] = q]
  /\ UNCHANGED vars

NewRequest(op, b, t, r, s, a) ==
  [op |-> op, at |-> 1, b |-> b, tenant |-> t, room |-> r, seat |-> s, arg |-> a,
   held |-> {}, sawRoom |-> NoRow, sawTenancy |-> NoRow]

\* A request for a new booking; b is the identifier the row will get.
BeginCreate(w, b, t, r, s, v) ==
  /\ booking[b] = NoRow /\ b \notin Named(w)
  /\ s # NoSeat => RoomOf[s] = r
  /\ Start(w, NewRequest("create", b, t, r, s, v))

\* A request about booking b or its tenancy, whose room and seat never change.
Begin(w, op, b, a) ==
  /\ booking[b] # NoRow
  /\ a \in IF op = "sign" THEN Party ELSE {NoRow}
  /\ Start(w, NewRequest(op, b, booking[b].tenant, booking[b].room, booking[b].seat, a))

BeginDelete(w, r) == Start(w, NewRequest("delete", NoRow, NoRow, r, NoSeat, NoRow))

\* A statement before the last: take its locks, read, check, go on.
Statement(w) ==
  /\ Busy(w) /\ Stmt(w) # "write" /\ ~Blocked(w) /\ Passes(w)
  /\ req' = [req EXCEPT
       ![w].at = @ + 1,
       ![w].held = @ \cup Needs(w),
       ![w].sawRoom = IF Stmt(w) = "room" THEN room[req[w].room] ELSE @,
       ![w].sawTenancy = IF req[w].op = "sign" THEN tenancy[req[w].b] ELSE @]
  /\ UNCHANGED vars

End(w) == req' = [req EXCEPT ![w] = NoRow]

\* Mutant: a failed check is retried for ever.
MutRefuseRetries(w) == Busy(w) /\ ~Blocked(w) /\ ~Passes(w) /\ UNCHANGED txVars

\* The exception of a failed check rolls the transaction back.
Refuse(w) ==
  /\ Busy(w) /\ ~Blocked(w) /\ ~Passes(w)
  /\ End(w)
  /\ UNCHANGED vars

Write(q) ==
  CASE q.op = "create"    -> InsertBooking(q.b, q.tenant, q.room, q.seat, q.arg)
    [] q.op = "cancel"    -> WriteCancelled(q.b)
    [] q.op = "approve"   -> WriteApproved(q.b, q.sawRoom)
    [] q.op = "reject"    -> WriteRejected(q.b)
    [] q.op = "confirm"   -> WriteVisit(q.b, "CONFIRMED")
    [] q.op = "visited"   -> WriteVisit(q.b, "COMPLETED")
    [] q.op = "pay"       -> WritePaid(q.b, q.sawRoom)
    [] q.op = "notice"    -> WriteNotice(q.b)
    [] q.op = "terminate" -> WriteTerminated(q.b, q.sawRoom)
    [] q.op = "sign"      -> WriteSigned(q.b, q.arg, q.sawTenancy)
    [] q.op = "delete"    -> RemoveRoom(q.room)

Commit(w) ==
  /\ Busy(w) /\ Stmt(w) = "write" /\ ~Blocked(w) /\ Passes(w)
  /\ Write(req[w])
  /\ End(w)

\* The connection or the process is lost before the commit.
Crash(w) == Busy(w) /\ End(w) /\ UNCHANGED vars

\* PostgreSQL aborts a member of a cycle of waits.
OnCycle(w, C) ==
  /\ w \in C
  /\ \A x \in C : (\E y \in C : WaitsFor(x, y)) /\ (\E y \in C : WaitsFor(y, x))

AbortDeadlock(w) ==
  /\ \E C \in SUBSET Workers : OnCycle(w, C)
  /\ End(w)
  /\ UNCHANGED vars

-----------------------------------------------------------------------------
Step(w) == Statement(w) \/ Refuse(w) \/ Commit(w)

BeginSome(w) ==
  \/ \E b \in Bookings, t \in Tenants, r \in Rooms, s \in Seats \cup {NoSeat},
        v \in FirstVisit : BeginCreate(w, b, t, r, s, v)
  \/ \E op \in Operation \ {"create", "delete"}, b \in Bookings,
        a \in Party \cup {NoRow} : Begin(w, op, b, a)
  \/ \E r \in Rooms : BeginDelete(w, r)

TxInit == Init /\ is_published = TRUE /\ req = [w \in Workers |-> NoRow]

TxNext == \E w \in Workers : \/ BeginSome(w) \/ Statement(w) \/ Refuse(w)
                             \/ Commit(w) \/ Crash(w) \/ AbortDeadlock(w)

TxSpec == TxInit /\ [][TxNext]_txVars

\* A handler that is not waiting for a lock goes on, waiters for a row are
\* served in turn, and the deadlock detector runs.
TxFairness ==
  /\ \A w \in Workers : SF_txVars(Step(w))
  /\ WF_txVars(\E w \in Workers : AbortDeadlock(w))

TxFairSpec == TxSpec /\ TxFairness

-----------------------------------------------------------------------------
(* Properties.  Spec and the properties of Rental are checked of RentalTx  *)
(* as well.                                                                *)

Becomes(b, S) == ~HasStatus(b, S) /\ HasStatus(b, S)'

\* The seat lock: an approval or a payment commits only for a seat that is
\* still free, although it was checked by an earlier statement.
SeatGrantedWhileFree ==
  [][\A b \in Bookings :
       Becomes(b, {"APPROVED_BY_OWNER"}) \/ Becomes(b, {"DEPOSIT_PAID"})
         => SeatFree(booking[b].seat)]_vars

\* The booking lock: a request is approved or rejected only while it is open,
\* so it is never decided twice, nor decided after it was paid or cancelled.
DecidedWhileOpen ==
  [][\A b \in Bookings :
       Becomes(b, {"APPROVED_BY_OWNER"}) \/ Becomes(b, {"REJECTED"})
         => HasStatus(b, {"REQUESTED"})]_vars

\* Every request that starts ends (with a commit or an error), despite row
\* locks taken in opposite orders by the booking and the tenancy service.
EveryRequestEnds == \A w \in Workers : Busy(w) ~> ~Busy(w)
=============================================================================
