-------------------------- MODULE Tenancies_proofs --------------------------
(***************************************************************************)
(* Theorems about what hangs on a tenancy, for every number of tenants and *)
(* bookings: DepositClaims, and Community for every number of notices,     *)
(* complaints and requests in progress.                                    *)
(*                                                                         *)
(* DepositClaims.  The properties of Rental survive the second way out of  *)
(* a tenancy, and the two ways agree: a step is one of Rental's, for which *)
(* Rental_proofs has the lemmas, or changes nothing but a claim and the    *)
(* status of its tenancy, which keeps SeatInv since it makes no tenancy    *)
(* live.                                                                   *)
(*                                                                         *)
(* Community.  The steps of the letting are steps of Rental, so SeatInv    *)
(* holds throughout.  Each request in progress is described by what its    *)
(* later statements rely on (Fine), and two that write the same notice or  *)
(* complaint never overlap in a way that matters (Apart).  A step changes  *)
(* one request, or leaves all as they are and changes rows; it remains to  *)
(* see that no change of rows makes another request's reliance wrong.      *)
(***************************************************************************)
EXTENDS DepositClaims, Community, Rental_proofs

-----------------------------------------------------------------------------
(* DepositClaims: the claims follow the tenancies.                         *)


\* Claims are for tenancies that exist, under notice or ended.
ClaimsFit ==
  \A b \in Bookings :
    claim[b] # NoRow =>
      /\ tenancy[b] # NoRow /\ tenancy[b].status # "ACTIVE"
      /\ claim[b] = "SETTLED" => tenancy[b].status = "TERMINATED"

ClaimInv == SeatInv /\ claim \in [Bookings -> ClaimStatus \cup {NoRow}] /\ ClaimsFit

\* What the two operations on claims do: the tenancy of b goes on, or ends.
ClaimOf(b, c, s) ==
  /\ claim' = [claim EXCEPT ![b] = c] /\ c \in ClaimStatus
  /\ tenancy[b] \in TenancyRow
  /\ tenancy' = [tenancy EXCEPT ![b] = [tenancy[b] EXCEPT !.status = s]]
  /\ \/ c = "REQUESTED" /\ s = IF tenancy[b].status = "ACTIVE" THEN "NOTICE_SERVED"
                                                              ELSE tenancy[b].status
     \/ c = "SETTLED" /\ s = "TERMINATED"
  /\ UNCHANGED <<is_published, room, is_occupied, booking>>

\* A step is one of Rental's with the cascade to the claims, none, or a claim.
LEMMA ClaimSteps ==
  ASSUME ClaimInv, [ClaimNext]_claimVars
  PROVE  \/ (Next /\ Cascade) \/ UNCHANGED claimVars
         \/ \E b \in Bookings : \E c, s : ClaimOf(b, c, s)
<1>1. ASSUME NEW b \in Bookings, CreateClaim(b)
      PROVE  \E c, s : ClaimOf(b, c, s)
  <2>1. tenancy[b] \in TenancyRow /\ tenancy \in [Bookings -> TenancyRow \cup {NoRow}]
    BY <1>1 DEF CreateClaim, ClaimInv, SeatInv, TypeOK
  <2> DEFINE s == IF tenancy[b].status = "ACTIVE" THEN "NOTICE_SERVED" ELSE tenancy[b].status
  <2>2. tenancy' = [tenancy EXCEPT ![b] = [tenancy[b] EXCEPT !.status = s]]
    <3>1. CASE tenancy[b].status = "ACTIVE"
      BY <1>1, <2>1, <3>1 DEF CreateClaim
    <3>2. CASE tenancy[b].status # "ACTIVE"
      <4>1. [tenancy[b] EXCEPT !.status = s] = tenancy[b]
        BY <2>1, <3>2 DEF TenancyRow
      <4> QED BY <1>1, <2>1, <3>2, <4>1 DEF CreateClaim
    <3> QED BY <3>1, <3>2
  <2>3. ClaimOf(b, "REQUESTED", s)
    BY <1>1, <2>1, <2>2 DEF CreateClaim, ClaimOf, ClaimStatus
  <2> QED BY <2>3
<1>2. ASSUME NEW b \in Bookings, SettleClaim(b)
      PROVE  \E c, s : ClaimOf(b, c, s)
  <2>1. tenancy[b] \in TenancyRow
    BY <1>2 DEF SettleClaim, ClaimInv, ClaimsFit, SeatInv, TypeOK
  <2>2. ClaimOf(b, "SETTLED", "TERMINATED")
    BY <1>2, <2>1 DEF SettleClaim, ClaimOf, ClaimStatus
  <2> QED BY <2>2
<1> QED BY <1>1, <1>2 DEF ClaimNext

\* Nobody lives anywhere because of a claim.
LEMMA ClaimOfLive ==
  ASSUME ClaimInv, NEW b \in Bookings, NEW c, NEW s, ClaimOf(b, c, s)
  PROVE  /\ \A x \in Bookings : Live(x)' => Live(x)
         /\ \A x \in Bookings : tenancy'[x] # NoRow <=> tenancy[x] # NoRow
         /\ \A x \in Bookings \ {b} : tenancy'[x] = tenancy[x]
         /\ tenancy'[b] \in TenancyRow /\ tenancy'[b].status = s
<1>1. tenancy'[b] \in TenancyRow /\ tenancy'[b].status = s
      /\ \A x \in Bookings \ {b} : tenancy'[x] = tenancy[x]
  BY DEF ClaimOf, ClaimInv, SeatInv, TypeOK, TenancyRow, TenancyStatus
<1>2. Live(b)' => Live(b)
  BY <1>1, RentalAssumption DEF ClaimOf, Live, TenancyIn, TenancyRow, TenancyStatus
<1> QED BY <1>1, <1>2, RentalAssumption DEF Live, TenancyIn, ClaimOf

\* A claim ends a tenancy and marks nothing else, and so keeps the invariant of
\* seats.
LEMMA ClaimOfSeats ==
  ASSUME ClaimInv, NEW b \in Bookings, NEW c, NEW s, ClaimOf(b, c, s)
  PROVE  SeatInv'
<1>1. UNCHANGED <<is_published, room, is_occupied, booking>>
  BY DEF ClaimOf
<1>2. TypeOK'
  BY <1>1, ClaimOfLive DEF ClaimInv, SeatInv, TypeOK, ClaimOf
<1>3. ForeignKeys' /\ TenancyIffGranted'
  BY <1>1, ClaimOfLive DEF ClaimInv, SeatInv, ForeignKeys, TenancyIffGranted, HasStatus
<1>4. LiveSeatOccupied' /\ SeatExclusive'
  BY <1>1, ClaimOfLive, QuietSeats DEF ClaimInv, SeatInv, LiveSeatOccupied
<1> QED BY <1>2, <1>3, <1>4 DEF SeatInv

\* The invariant holds when there are no claims.
LEMMA InitClaimInv == ClaimInit => ClaimInv
BY InitSeatInv DEF ClaimInit, ClaimInv, ClaimsFit

\* Both kinds of steps keep the claims in step with their tenancies.
LEMMA NextClaimInv == ClaimInv /\ [ClaimNext]_claimVars => ClaimInv'
<1> SUFFICES ASSUME ClaimInv, [ClaimNext]_claimVars
             PROVE  ClaimInv'
  OBVIOUS
<1>1. CASE (Next /\ Cascade) \/ UNCHANGED claimVars
  <2>1. SeatInv' /\ [Next]_vars
    BY <1>1, NextSeatInv DEF ClaimInv, claimVars
  <2>2. claim' \in [Bookings -> ClaimStatus \cup {NoRow}]
    BY <1>1 DEF ClaimInv, Cascade, claimVars
  <2>3. ClaimsFit'
    <3> SUFFICES ASSUME NEW b \in Bookings, claim'[b] # NoRow
                 PROVE  /\ tenancy'[b] # NoRow /\ tenancy'[b].status # "ACTIVE"
                        /\ claim'[b] = "SETTLED" => tenancy'[b].status = "TERMINATED"
      BY DEF ClaimsFit
    <3>1. CASE Cascade
      <4>1. tenancy'[b] # NoRow /\ claim'[b] = claim[b]
        BY <3>1 DEF Cascade
      <4>2. /\ tenancy[b] # NoRow /\ tenancy[b].status # "ACTIVE"
            /\ claim[b] = "SETTLED" => tenancy[b].status = "TERMINATED"
        BY <4>1 DEF ClaimInv, ClaimsFit
      <4>3. \/ tenancy'[b].status = tenancy[b].status
            \/ tenancy'[b].status = "TERMINATED"
        BY <2>1, <4>1, <4>2, NextStatus DEF ClaimInv
      <4> QED BY <4>1, <4>2, <4>3
    <3>2. CASE UNCHANGED claimVars
      BY <3>2 DEF ClaimInv, ClaimsFit, claimVars, vars
    <3> QED BY <1>1, <3>1, <3>2
  <2> QED BY <2>1, <2>2, <2>3 DEF ClaimInv
<1>2. ASSUME NEW b \in Bookings, NEW c, NEW s, ClaimOf(b, c, s)
      PROVE  ClaimInv'
  <2>1. SeatInv'
    BY <1>2, ClaimOfSeats
  <2>2. /\ claim' \in [Bookings -> ClaimStatus \cup {NoRow}]
        /\ claim'[b] = c /\ \A x \in Bookings \ {b} : claim'[x] = claim[x]
    BY <1>2 DEF ClaimInv, ClaimOf
  <2>3. s # "ACTIVE" /\ (c = "SETTLED" => s = "TERMINATED")
    BY <1>2 DEF ClaimOf
  <2>4. /\ tenancy'[b] # NoRow /\ tenancy'[b].status = s
        /\ \A x \in Bookings \ {b} : tenancy'[x] = tenancy[x]
    BY <1>2, ClaimOfLive, RentalAssumption
  <2>5. ClaimsFit'
    BY <2>2, <2>3, <2>4 DEF ClaimInv, ClaimsFit
  <2> QED BY <2>1, <2>2, <2>5 DEF ClaimInv
<1> QED BY <1>1, <1>2, ClaimSteps

\* The invariant holds throughout: the claims follow Rental's rows whatever mixture
\* of requests, move-outs, deletions and claims led here.
THEOREM ClaimInvariant == ClaimSpec => []ClaimInv
BY InitClaimInv, NextClaimInv, PTL DEF ClaimSpec

-----------------------------------------------------------------------------
(* Properties of Rental that hold with the claims as well.                 *)

\* A tenancy exists exactly for the requests that were approved or paid.
THEOREM ClaimsKeepTenanciesGranted == ClaimSpec => []TenancyIffGranted
BY ClaimInvariant, PTL DEF ClaimInv, SeatInv

\* The seat of a live tenancy is marked occupied.
THEOREM ClaimsKeepSeatsMarked == ClaimSpec => []LiveSeatOccupied
BY ClaimInvariant, PTL DEF ClaimInv, SeatInv

\* No room ever counts fewer occupants than live in it: a settlement ends a
\* tenancy without counting anybody out.
THEOREM ClaimsKeepRoomsCovered == ClaimSpec => []OccupancyCoversTenancies
<1>1. ClaimInit => OccupancyCoversTenancies
  BY InitCovers DEF ClaimInit
<1>2. ClaimInv /\ ClaimInv' /\ OccupancyCoversTenancies /\ [ClaimNext]_claimVars
        => OccupancyCoversTenancies'
  <2> SUFFICES ASSUME ClaimInv, ClaimInv', OccupancyCoversTenancies, [ClaimNext]_claimVars
               PROVE  OccupancyCoversTenancies'
    OBVIOUS
  <2>1. CASE (Next /\ Cascade) \/ UNCHANGED claimVars
    BY <2>1, NextCovers DEF ClaimInv, claimVars
  <2>2. ASSUME NEW b \in Bookings, NEW c, NEW s, ClaimOf(b, c, s)
        PROVE  OccupancyCoversTenancies'
    <3>1. UNCHANGED <<room, booking>>
      BY <2>2 DEF ClaimOf
    <3> QED BY <2>2, <3>1, ClaimOfLive, QuietCovers DEF ClaimInv
  <2> QED BY <2>1, <2>2, ClaimSteps
<1> QED BY <1>1, <1>2, ClaimInvariant, PTL DEF ClaimSpec

\* Seats are let as Lease promises, although settlements end tenancies too.
THEOREM ClaimsImplementLease == ClaimSpec => SeatsAreLet
<1>1. ClaimInit => SeatLease!Init
  BY DEF ClaimInit, Init, SeatLease!Init, SeatHolders, Live, TenancyIn
<1>2. ClaimInv /\ [ClaimNext]_claimVars => [SeatLease!Next]_SeatHolders
  <2> SUFFICES ASSUME ClaimInv, [ClaimNext]_claimVars
               PROVE  [SeatLease!Next]_SeatHolders
    OBVIOUS
  <2>1. CASE (Next /\ Cascade) \/ UNCHANGED claimVars
    BY <2>1, NextLeases DEF ClaimInv, claimVars
  <2>2. ASSUME NEW b \in Bookings, NEW c, NEW s, ClaimOf(b, c, s)
        PROVE  SeatLease!Next
    <3>1. UNCHANGED booking
      BY <2>2 DEF ClaimOf
    <3> QED BY <2>2, <3>1, ClaimOfLive, QuietReleases DEF SeatLease!Next
  <2> QED BY <2>1, <2>2, ClaimSteps
<1> QED BY <1>1, <1>2, ClaimInvariant, PTL DEF ClaimSpec, SeatsAreLet, SeatLease!Spec

\* Nothing makes an ended tenancy live again, be it ended by a move-out or by
\* a settlement.
THEOREM ClaimsKeepEndings == ClaimSpec => EndedStaysEnded
<1>1. ClaimInv /\ [ClaimNext]_claimVars =>
        [\A b \in Bookings : TenancyIn(b, {"TERMINATED"}) /\ tenancy'[b] # NoRow
                               => tenancy'[b].status = "TERMINATED"]_vars
  <2> SUFFICES ASSUME ClaimInv, [ClaimNext]_claimVars, NEW b \in Bookings,
                      TenancyIn(b, {"TERMINATED"}), tenancy'[b] # NoRow
               PROVE  tenancy'[b].status = "TERMINATED"
    OBVIOUS
  <2>1. CASE (Next /\ Cascade) \/ UNCHANGED claimVars
    BY <2>1, NextEnded DEF ClaimInv, claimVars
  <2>2. ASSUME NEW x \in Bookings, NEW c, NEW s, ClaimOf(x, c, s)
        PROVE  tenancy'[b].status = "TERMINATED"
    <3>1. x = b => s = "TERMINATED"
      BY <2>2 DEF ClaimOf, TenancyIn
    <3> QED BY <2>2, <3>1, ClaimOfLive DEF TenancyIn
  <2> QED BY <2>1, <2>2, ClaimSteps
<1> QED BY <1>1, ClaimInvariant, PTL DEF ClaimSpec, EndedStaysEnded

-----------------------------------------------------------------------------
(* The two ways out of a tenancy.                                          *)

\* Whose deposit is claimed does not live on undisturbed, and a settled
\* deposit is that of an ended tenancy.
THEOREM ClaimsEnd == ClaimSpec => []ClaimsEndTenancies
<1>1. ClaimInv => ClaimsEndTenancies
  BY DEF ClaimInv, ClaimsFit, ClaimsEndTenancies, TenancyIn
<1> QED BY <1>1, ClaimInvariant, PTL

\* Of Rental's operations only a move-out frees a seat, and that of the tenancy.
LEMMA NextFrees ==
  ASSUME SeatInv, Next, NEW s \in Seats, is_occupied[s] = TRUE, is_occupied'[s] = FALSE
  PROVE  \E b \in Bookings : /\ Live(b) /\ booking[b].seat = s
                             /\ TenancyIn(b, {"TERMINATED"})'
<1>1. CASE PropertyNext
  BY <1>1, RentalAssumption DEF PropertyNext, CreateProperty, SetPublishStatus, DeleteProperty
<1>2. CASE RoomNext
  BY <1>2, RentalAssumption
     DEF RoomNext, CreateRoom, UpdateRoom, DeleteRoom, RemoveRoom, CreateSeat, DeleteSeat,
         SeatInv, TypeOK
<1>3. CASE BookingNext
  <2>1. ASSUME NEW b \in Bookings, OwnerApprove(b) \/ PayAdvance(b) PROVE FALSE
    BY <2>1 DEF OwnerApprove, WriteApproved, PayAdvance, WritePaid, TakePlace, SeatInv, TypeOK
  <2> QED BY <1>3, <2>1 DEF BookingNext, CreateBookingRequest, InsertBooking, CancelBooking,
             WriteCancelled, OwnerReject, WriteRejected, ConfirmVisit, MarkVisited, WriteVisit
<1>4. CASE TenancyNext
  <2>1. ASSUME NEW b \in Bookings, TerminateTenancy(b)
        PROVE  Live(b) /\ booking[b].seat = s /\ TenancyIn(b, {"TERMINATED"})'
    <3>1. Live(b) /\ tenancy[b] \in TenancyRow
      BY <2>1 DEF TerminateTenancy, Live, TenancyIn, SeatInv, TypeOK
    <3>2. booking[b].seat = s
      BY <2>1 DEF TerminateTenancy, WriteTerminated, LeavePlace, SeatInv, TypeOK
    <3>3. tenancy'[b] \in TenancyRow /\ tenancy'[b].status = "TERMINATED"
      BY <2>1, <3>1 DEF TerminateTenancy, WriteTerminated, SeatInv, TypeOK, TenancyRow,
                        TenancyStatus, AgreementStatus
    <3> QED BY <3>1, <3>2, <3>3, RentalAssumption DEF TenancyIn
  <2> QED BY <1>4, <2>1 DEF TenancyNext, ServeNotice, WriteNotice, SignDigitalAgreement, WriteSigned
<1> QED BY <1>1, <1>2, <1>3, <1>4 DEF Next

\* A seat becomes free only by the end of a live tenancy in it.
THEOREM SeatsAreFreedByMoveOut == ClaimSpec => FreedByMoveOut
<1>1. ClaimInv /\ [ClaimNext]_claimVars =>
        [\A s \in Seats :
           is_occupied[s] = TRUE /\ is_occupied'[s] = FALSE
             => \E b \in Bookings : /\ Live(b) /\ booking[b].seat = s
                                    /\ TenancyIn(b, {"TERMINATED"})']_claimVars
  <2> SUFFICES ASSUME ClaimInv, [ClaimNext]_claimVars, NEW s \in Seats,
                      is_occupied[s] = TRUE, is_occupied'[s] = FALSE
               PROVE  \E b \in Bookings : /\ Live(b) /\ booking[b].seat = s
                                          /\ TenancyIn(b, {"TERMINATED"})'
    OBVIOUS
  <2>1. CASE Next
    BY <2>1, NextFrees DEF ClaimInv
  <2>2. ASSUME NEW b \in Bookings, NEW c, NEW t, ClaimOf(b, c, t) PROVE FALSE
    BY <2>2 DEF ClaimOf
  <2>3. CASE UNCHANGED claimVars
    BY <2>3 DEF claimVars, vars
  <2> QED BY <2>1, <2>2, <2>3, ClaimSteps
<1> QED BY <1>1, ClaimInvariant, PTL DEF ClaimSpec, FreedByMoveOut

-----------------------------------------------------------------------------
(* Community: what requests in progress rely on.                           *)


\* A notice that is being published is new; each booking that entitled to it is
\* granted as long as it exists, and its tenant is among the recipients once
\* both queries have been made.
PostFine(q) ==
  /\ notice[q.n] = "unused"
  /\ \A b \in q.entitled : booking[b] # NoRow =>
       /\ HasStatus(b, Granted)
       /\ q.at = "write" => booking[b].tenant \in q.recipients

\* A late reading either meets its receipt in the check or is of a deleted notice.
ReadFine(q) ==
  q.late => \/ notice[q.n] = "deleted"
            \/ q.at = "check" /\ receipts[q.n][q.u] > 0

\* A complaint that is being filed is new, and the tenancy found is the user's
\* as long as it exists.
ComplainFine(q) ==
  /\ complaint[q.c] = NoRow
  /\ q.b # NoRow /\ booking[q.b] # NoRow => booking[q.b].tenant = q.u

Fine(q) ==
  /\ q.op = "post" => PostFine(q)
  /\ q.op = "read" => ReadFine(q)
  /\ q.op = "complain" => ComplainFine(q)
  /\ q.op = "reopen" => q.to = "REOPENED"

\* Two posts are of different notices, two complaints that are filed differ,
\* and none is handled before it is there.
Handles(q) == q.op \in {"update", "reopen"}
Apart(q, p) ==
  /\ q.op = "post" /\ p.op = "post" => q.n # p.n
  /\ q.op = "complain" /\ p.op = "complain" => q.c # p.c
  /\ q.op = "complain" /\ Handles(p) => q.c # p.c
  /\ Handles(q) /\ p.op = "complain" => q.c # p.c

Requests ==
  /\ \A w \in Workers : req[w] # NoRow => Fine(req[w]) /\ req[w].op \in Allowed[w]
  /\ \A v, w \in Workers : v # w /\ req[v] # NoRow /\ req[w] # NoRow => Apart(req[v], req[w])

RowsOK ==
  /\ notice \in [Notices -> NoticeState]
  /\ notification \in [Notices -> [Tenants -> NotificationRow \cup {NoRow}]]
  /\ receipts \in [Notices -> [Tenants -> Nat]]
  /\ complaint \in [Complaints -> ComplaintRow \cup {NoRow}]
  /\ req \in [Workers -> Request \cup {NoRow}]

\* Receipts exist for published notices only: they go with the notice.
ReceiptsOfPublished ==
  \A n \in Notices, u \in Tenants : receipts[n][u] > 0 => notice[n] = "published"

CommunityInv == SeatInv /\ RowsOK /\ ReceiptsOfPublished /\ ComplaintOfTenant /\ Requests

-----------------------------------------------------------------------------
(* The steps of the letting.                                               *)

\* Each is a step of Rental.
LEMMA LettingIsRental == LettingStep => Next
BY DEF LettingStep, Next, PropertyNext, RoomNext, BookingNext, TenancyNext

\* A row of a booking keeps its tenant and stays granted; a new one is not
\* referred to by any request in progress.
LEMMA LettingFacts ==
  ASSUME SeatInv, LettingStep, NEW b \in Bookings, booking'[b] # NoRow
  PROVE  /\ booking[b] # NoRow => /\ booking'[b].tenant = booking[b].tenant
                                  /\ HasStatus(b, Granted) => HasStatus(b, Granted)'
         /\ booking[b] = NoRow => ~Referred(b)
<1>1. TypeOK /\ booking[b] \in BookingRow \cup {NoRow}
  BY DEF SeatInv, TypeOK
<1> USE DEF HasStatus, Granted
<1>2. CASE DeleteProperty \/ \E r \in Rooms : CreateRoom(r) \/ DeleteRoom(r)
  BY <1>2 DEF DeleteProperty, CreateRoom, DeleteRoom, RemoveRoom
<1>3. ASSUME NEW x \in Bookings, NEW t \in Tenants, NEW r \in Rooms, NEW v \in FirstVisit,
             CreateBookingRequest(x, t, r, NoSeat, v), ~Referred(x)
      PROVE  /\ booking[b] # NoRow => booking'[b] = booking[b]
             /\ booking[b] = NoRow => ~Referred(b)
  <2>1. CASE x = b
    BY <1>3, <2>1 DEF CreateBookingRequest, InsertBooking
  <2>2. CASE x # b
    BY <1>1, <1>3, <2>2 DEF CreateBookingRequest, InsertBooking, TypeOK
  <2> QED BY <2>1, <2>2
<1>4. ASSUME NEW x \in Bookings, CancelBooking(x) \/ OwnerApprove(x) \/ PayAdvance(x)
      PROVE  /\ booking[b] # NoRow
             /\ booking'[b].tenant = booking[b].tenant
             /\ HasStatus(b, Granted) => HasStatus(b, Granted)'
  <2>1. booking[x] # NoRow
    BY <1>4 DEF CancelBooking, OwnerApprove, PayAdvance, CanPay
  <2>2. CASE x # b
    BY <1>1, <1>4, <2>2 DEF CancelBooking, WriteCancelled, OwnerApprove, WriteApproved,
                            PayAdvance, WritePaid, TypeOK
  <2>3. CASE x = b
    BY <1>1, <1>4, <2>1, <2>3 DEF CancelBooking, WriteCancelled, OwnerApprove, WriteApproved,
                            PayAdvance, WritePaid, TypeOK, BookingRow
  <2> QED BY <2>2, <2>3
<1>5. ASSUME NEW x \in Bookings, TerminateTenancy(x) PROVE booking' = booking
  BY <1>5 DEF TerminateTenancy, WriteTerminated
<1> QED BY <1>2, <1>3, <1>4, <1>5 DEF LettingStep

-----------------------------------------------------------------------------
(* What steps do to the requests in progress.                              *)

\* The fields of each kind of request.
LEMMA RequestFields ==
  ASSUME NEW q \in Request
  PROVE  /\ q.op = "post" => q \in PostRequest
         /\ q.op = "read" => q \in ReadRequest
         /\ q.op = "complain" => q \in ComplainRequest
         /\ Handles(q) => q \in HandleRequest
         /\ q # NoRow
BY CommunityAssumption
   DEF Request, PostRequest, ReadRequest, ComplainRequest, HandleRequest, Handles

\* The letting leaves what a request in progress relies on.
LEMMA LettingFine ==
  ASSUME CommunityInv, Letting, NEW w \in Workers, NEW q \in Request, req[w] = q
  PROVE  Fine(q)'
<1>1. Fine(q) /\ q # NoRow /\ RowsOK /\ SeatInv /\ ReceiptsOfPublished /\ LettingStep
  BY RequestFields DEF CommunityInv, Requests, Letting
<1>2. ASSUME q.op = "post" PROVE PostFine(q)'
  <2>1. q.n \in Notices /\ q.entitled \subseteq Bookings
    BY <1>2, RequestFields DEF PostRequest
  <2>2. notice'[q.n] = "unused"
    BY <1>1, <1>2, <2>1 DEF Fine, PostFine, Letting, RowsOK
  <2>3. ASSUME NEW b \in q.entitled, booking'[b] # NoRow
        PROVE  HasStatus(b, Granted)' /\ (q.at = "write" => booking'[b].tenant \in q.recipients)
    <3>1. Referred(b)
      BY <1>1, <1>2 DEF Referred, Serving, Busy
    <3> QED
      BY <1>1, <1>2, <2>1, <2>3, <3>1, LettingFacts DEF Fine, PostFine
  <2> QED
    BY <2>2, <2>3 DEF PostFine
<1>3. ASSUME q.op = "read" PROVE ReadFine(q)'
  <2>1. q.n \in Notices /\ q.u \in Tenants
    BY <1>3, RequestFields DEF ReadRequest
  <2> QED
    BY <1>1, <1>3, <2>1 DEF Fine, ReadFine, Letting, RowsOK, ReceiptsOfPublished
<1>4. ASSUME q.op = "complain" PROVE ComplainFine(q)'
  <2>1. q.c \in Complaints /\ q.b \in Bookings \cup {NoRow}
    BY <1>4, RequestFields DEF ComplainRequest
  <2>2. complaint'[q.c] = NoRow
    BY <1>1, <1>4, <2>1 DEF Fine, ComplainFine, Letting, ComplaintAfter
  <2>3. ASSUME q.b # NoRow, booking'[q.b] # NoRow PROVE booking'[q.b].tenant = q.u
    <3>1. Referred(q.b)
      BY <1>1, <1>4 DEF Referred, Serving, Busy
    <3> QED
      BY <1>1, <1>4, <2>1, <2>3, <3>1, LettingFacts DEF Fine, ComplainFine
  <2> QED
    BY <2>2, <2>3 DEF ComplainFine
<1> QED
  BY <1>1, <1>2, <1>3, <1>4 DEF Fine

\* Worker w goes from one statement of its requests to the next: r is what it is
\* serving then.
Advance(w, r) ==
  /\ r \in Request /\ Fine(r) /\ r.op \in Allowed[w]
  /\ r.op = "read" /\ r.at = "write" => receipts[r.n][r.u] = 0
  /\ Handles(r) /\ r.at = "write" => r.saw = complaint[r.c] /\ complaint[r.c] # NoRow
  /\ \A v \in Workers : v # w /\ req[v] # NoRow => Apart(r, req[v])
  /\ req' = [req EXCEPT ![w] = r]
  /\ UNCHANGED <<vars, board, complaint>>

\* Worker w answers its request.
Answer(w) == /\ req[w] \in Request /\ Fine(req[w])
             /\ Publish(w) \/ WriteReceipt(w) \/ FileComplaint(w) \/ WriteStatus(w) \/ GiveUp(w)

\* Notices are read, or deleted together with their receipts.
Withdraw ==
  /\ \A n \in Notices :
       \/ notice'[n] = notice[n] /\ receipts'[n] = receipts[n]
       \/ /\ notice[n] = "published" /\ notice'[n] = "deleted"
          /\ receipts'[n] = [u \in Tenants |-> 0]
  /\ notice' \in [Notices -> NoticeState] /\ receipts' \in [Notices -> [Tenants -> Nat]]
  /\ notification' \in [Notices -> [Tenants -> NotificationRow \cup {NoRow}]]
  /\ UNCHANGED <<vars, complaint, req>>

\* Requests that begin are fine, and apart from those in progress.
LEMMA BeginAdvances ==
  ASSUME CommunityInv, NEW w \in Workers,
         \/ \E n \in Notices : BeginPost(w, n) \/ \E u \in Tenants : BeginRead(w, n, u)
         \/ \E c \in Complaints, u \in Tenants : BeginComplain(w, c, u)
         \/ \E c \in Complaints, to \in Verdicts : BeginHandle(w, "update", c, to)
         \/ \E c \in Complaints : BeginHandle(w, "reopen", c, "REOPENED")
  PROVE  \E r : Advance(w, r)
<1>1. SeatInv /\ RowsOK /\ Requests
  BY DEF CommunityInv
<1>2. \A v \in Workers : req[v] # NoRow => req[v] \in Request
  BY <1>1 DEF RowsOK
<1>3. ASSUME NEW n \in Notices, BeginPost(w, n) PROVE \E r : Advance(w, r)
  <2> DEFINE r == [op |-> "post", at |-> "tenancies", n |-> n, recipients |-> {},
                   entitled |-> {b \in Bookings : Entitles(b)}]
  <2>1. r \in Request
    BY DEF Request, PostRequest
  <2>2. \A b \in Bookings : Entitles(b) => HasStatus(b, Granted)
    BY <1>1 DEF Entitles, SeatInv, TenancyIffGranted, Live, TenancyIn, Granted
  <2>3. Fine(r)
    BY <1>3, <2>2 DEF BeginPost, Fine, PostFine
  <2>4. \A v \in Workers : v # w /\ req[v] # NoRow => Apart(r, req[v])
    BY <1>3 DEF BeginPost, Serving, Busy, Apart, Handles
  <2> QED BY <1>3, <2>1, <2>3, <2>4 DEF BeginPost, Begin, Advance, Handles
<1>4. ASSUME NEW n \in Notices, NEW u \in Tenants, BeginRead(w, n, u)
      PROVE  \E r : Advance(w, r)
  <2> DEFINE r == [op |-> "read", at |-> "check", n |-> n, u |-> u, late |-> receipts[n][u] > 0]
  <2>1. r \in Request
    BY DEF Request, ReadRequest
  <2>2. Fine(r)
    BY DEF Fine, ReadFine
  <2>3. \A v \in Workers : Apart(r, req[v])
    BY DEF Apart, Handles
  <2> QED BY <1>4, <2>1, <2>2, <2>3 DEF BeginRead, Begin, Advance, Handles
<1>5. ASSUME NEW c \in Complaints, NEW u \in Tenants, BeginComplain(w, c, u)
      PROVE  \E r : Advance(w, r)
  <2> DEFINE r == [op |-> "complain", at |-> "tenancy", c |-> c, u |-> u, b |-> NoRow]
  <2>1. r \in Request
    BY DEF Request, ComplainRequest
  <2>2. Fine(r)
    BY <1>5 DEF Fine, ComplainFine, BeginComplain
  <2>3. \A v \in Workers : v # w /\ req[v] # NoRow => Apart(r, req[v])
    BY <1>5 DEF BeginComplain, Serving, Busy, Apart, Handles
  <2> QED BY <1>5, <2>1, <2>2, <2>3 DEF BeginComplain, Begin, Advance, Handles
<1>6. ASSUME NEW op \in {"update", "reopen"}, NEW c \in Complaints, NEW to \in ComplaintStatus,
             op = "reopen" => to = "REOPENED", BeginHandle(w, op, c, to)
      PROVE  \E r : Advance(w, r)
  <2> DEFINE r == [op |-> op, at |-> "read", c |-> c, to |-> to, saw |-> NoRow]
  <2>1. r \in Request
    BY DEF Request, HandleRequest
  <2>2. Fine(r)
    BY <1>6 DEF Fine
  <2>3. \A v \in Workers : v # w /\ req[v] # NoRow => Apart(r, req[v])
    BY <1>1, <1>6 DEF BeginHandle, Requests, Fine, ComplainFine, Apart, Handles
  <2> QED BY <1>6, <2>1, <2>2, <2>3 DEF BeginHandle, Begin, Advance, Handles
<1>7. "REOPENED" \in ComplaintStatus /\ Verdicts \subseteq ComplaintStatus
  BY CommunityAssumption DEF ComplaintStatus
<1> QED BY <1>3, <1>4, <1>5, <1>6, <1>7

\* Requests that read their rows stay fine, and apart from the others.
LEMMA ReadAdvances ==
  ASSUME CommunityInv, NEW w \in Workers,
         \/ ReadTenancyTenants(w) \/ ReadBookingTenants(w) \/ CheckReceipt(w)
         \/ FindTenancy(w) \/ ReadComplaint(w)
  PROVE  \E r : Advance(w, r)
<1>1. SeatInv /\ RowsOK /\ Requests /\ TypeOK /\ req[w] # NoRow
  BY DEF CommunityInv, SeatInv, ReadTenancyTenants, ReadBookingTenants, CheckReceipt,
         FindTenancy, ReadComplaint, At, Busy
<1>2. PICK q \in Request : q = req[w]
  BY <1>1 DEF RowsOK
<1>3. /\ Fine(q) /\ q.op \in Allowed[w]
      /\ \A v \in Workers : v # w /\ req[v] # NoRow => Apart(q, req[v])
  BY <1>1, <1>2 DEF Requests
<1>4. \A b \in Bookings : Live(b) \/ HasStatus(b, Granted) => booking[b] \in BookingRow
  BY <1>1 DEF SeatInv, TypeOK, TenancyIffGranted, HasStatus, Live, TenancyIn
<1>5. ASSUME ReadTenancyTenants(w) PROVE \E r : Advance(w, r)
  <2> DEFINE T == {booking[b].tenant : b \in {x \in Bookings : Live(x)}}
  <2> DEFINE r == [q EXCEPT !.at = "bookings", !.recipients = T]
  <2>1. T \subseteq Tenants
    BY <1>4 DEF BookingRow
  <2>2. q \in PostRequest /\ q.op = "post"
    BY <1>2, <1>5, RequestFields DEF ReadTenancyTenants, At
  <2>3. /\ r \in Request /\ r.op = "post" /\ r.at = "bookings"
        /\ r.n = q.n /\ r.entitled = q.entitled
    BY <2>1, <2>2 DEF Request, PostRequest
  <2>4. Fine(r) /\ \A v \in Workers : v # w /\ req[v] # NoRow => Apart(r, req[v])
    BY <1>3, <2>2, <2>3 DEF Fine, PostFine, Apart, Handles
  <2> QED BY <1>2, <1>3, <1>5, <2>2, <2>3, <2>4 DEF ReadTenancyTenants, Read, Advance, Handles
<1>6. ASSUME ReadBookingTenants(w) PROVE \E r : Advance(w, r)
  <2> DEFINE r == [q EXCEPT !.at = "write", !.recipients = @ \cup BookingTenants]
  <2>1. BookingTenants \subseteq Tenants
    BY <1>4 DEF BookingTenants, BookingRow
  <2>2. q \in PostRequest /\ q.op = "post"
    BY <1>2, <1>6, RequestFields DEF ReadBookingTenants, At
  <2>3. /\ r \in Request /\ r.op = "post" /\ r.n = q.n /\ r.entitled = q.entitled
        /\ r.recipients = q.recipients \cup BookingTenants
    BY <2>1, <2>2 DEF Request, PostRequest
  <2>4. \A b \in q.entitled : booking[b] # NoRow =>
          HasStatus(b, Granted) /\ booking[b].tenant \in r.recipients
    BY <1>3, <2>2, <2>3 DEF Fine, PostFine, BookingTenants, PostRequest
  <2>5. Fine(r) /\ \A v \in Workers : v # w /\ req[v] # NoRow => Apart(r, req[v])
    BY <1>3, <2>2, <2>3, <2>4 DEF Fine, PostFine, Apart, Handles
  <2> QED BY <1>2, <1>3, <1>6, <2>2, <2>3, <2>5 DEF ReadBookingTenants, Read, Advance, Handles
<1>7. ASSUME CheckReceipt(w) PROVE \E r : Advance(w, r)
  <2> DEFINE r == [q EXCEPT !.at = "write"]
  <2>1. q \in ReadRequest /\ q.op = "read" /\ receipts[q.n][q.u] = 0
    BY <1>2, <1>7, RequestFields DEF CheckReceipt, At
  <2>2. /\ r \in Request /\ r.op = "read" /\ r.at = "write"
        /\ r.n = q.n /\ r.u = q.u /\ r.late = q.late
    BY <2>1 DEF Request, ReadRequest
  <2>3. Fine(r) /\ \A v \in Workers : v # w /\ req[v] # NoRow => Apart(r, req[v])
    BY <1>3, <2>1, <2>2 DEF Fine, ReadFine, Apart, Handles
  <2> QED BY <1>2, <1>3, <1>7, <2>1, <2>2, <2>3 DEF CheckReceipt, Read, Advance, Handles
<1>8. ASSUME FindTenancy(w) PROVE \E r : Advance(w, r)
  <2>1. q \in ComplainRequest /\ q.op = "complain"
    BY <1>2, <1>8, RequestFields DEF FindTenancy, At
  <2>2. \E r \in ComplainRequest :
          /\ req' = [req EXCEPT ![w] = r] /\ UNCHANGED <<vars, board, complaint>>
          /\ r.c = q.c /\ r.u = q.u
          /\ r.b = q.b \/ (r.b \in Bookings /\ TenanciesOf(q.u) = {r.b})
    <3>1. CASE Read(w, [q EXCEPT !.at = "write"])
      <4>1. /\ [q EXCEPT !.at = "write"] \in ComplainRequest
            /\ [q EXCEPT !.at = "write"].c = q.c
            /\ [q EXCEPT !.at = "write"].u = q.u
            /\ [q EXCEPT !.at = "write"].b = q.b
        BY <2>1 DEF ComplainRequest
      <4> QED BY <3>1, <4>1 DEF Read
    <3>2. ASSUME NEW b \in Bookings, TenanciesOf(q.u) = {b},
                 Read(w, [q EXCEPT !.at = "write", !.b = b])
          PROVE  \E r \in ComplainRequest :
                   /\ req' = [req EXCEPT ![w] = r] /\ UNCHANGED <<vars, board, complaint>>
                   /\ r.c = q.c /\ r.u = q.u
                   /\ r.b \in Bookings /\ TenanciesOf(q.u) = {r.b}
      <4> DEFINE r == [q EXCEPT !.at = "write", !.b = b]
      <4>1. r \in ComplainRequest /\ r.c = q.c /\ r.u = q.u /\ r.b = b
        BY <2>1 DEF ComplainRequest
      <4> QED BY <3>2, <4>1 DEF Read
    <3> QED BY <1>2, <1>8, <3>1, <3>2 DEF FindTenancy
  <2>3. PICK r \in ComplainRequest :
          /\ req' = [req EXCEPT ![w] = r] /\ UNCHANGED <<vars, board, complaint>>
          /\ r.c = q.c /\ r.u = q.u
          /\ r.b = q.b \/ (r.b \in Bookings /\ TenanciesOf(q.u) = {r.b})
    BY <2>2
  <2>4. r \in Request /\ r.op = "complain"
    BY DEF Request, ComplainRequest
  <2>5. r.b # q.b => booking[r.b].tenant = q.u
    BY <2>3 DEF TenanciesOf
  <2>6. Fine(r) /\ \A v \in Workers : v # w /\ req[v] # NoRow => Apart(r, req[v])
    BY <1>3, <2>1, <2>3, <2>4, <2>5 DEF Fine, ComplainFine, Apart, Handles
  <2> QED BY <1>3, <2>1, <2>3, <2>4, <2>6 DEF Advance, Handles
<1>9. ASSUME ReadComplaint(w) PROVE \E r : Advance(w, r)
  <2> DEFINE r == [q EXCEPT !.at = "write", !.saw = complaint[q.c]]
  <2>1. q \in HandleRequest /\ Handles(q) /\ complaint[q.c] # NoRow
    BY <1>2, <1>9, RequestFields DEF ReadComplaint, At, Handles
  <2>2. complaint[q.c] \in ComplaintRow
    BY <1>1, <2>1 DEF RowsOK, HandleRequest
  <2>3. r \in HandleRequest /\ r.op = q.op /\ r.c = q.c /\ r.to = q.to /\ r.saw = complaint[q.c]
    BY <2>1, <2>2 DEF HandleRequest
  <2>4. r \in Request /\ Fine(r)
    BY <1>3, <2>1, <2>3 DEF Request, Fine, Handles
  <2>5. \A v \in Workers : v # w /\ req[v] # NoRow => Apart(r, req[v])
    BY <1>3, <2>1, <2>3 DEF Apart, Handles
  <2> QED BY <1>2, <1>3, <1>9, <2>1, <2>3, <2>4, <2>5 DEF ReadComplaint, Read, Advance, Handles
<1> QED BY <1>5, <1>6, <1>7, <1>8, <1>9

\* Every step is one of these.
LEMMA CommunitySteps ==
  ASSUME CommunityInv, CommunityNext
  PROVE  \/ Letting \/ Withdraw
         \/ \E w \in Workers : (\E r : Advance(w, r)) \/ Answer(w)
<1>1. RowsOK /\ Requests
  BY DEF CommunityInv
<1>2. ASSUME NEW n \in Notices, DeleteNotice(n) PROVE Withdraw
  <2>1. /\ notice' = [notice EXCEPT ![n] = "deleted"] /\ notice[n] = "published"
        /\ receipts' = [receipts EXCEPT ![n] = [u \in Tenants |-> 0]]
    BY <1>2 DEF DeleteNotice
  <2>2. notice' \in [Notices -> NoticeState] /\ receipts' \in [Notices -> [Tenants -> Nat]]
    BY <1>1, <2>1 DEF RowsOK, NoticeState
  <2>3. \A m \in Notices : \/ notice'[m] = notice[m] /\ receipts'[m] = receipts[m]
                           \/ /\ notice[m] = "published" /\ notice'[m] = "deleted"
                              /\ receipts'[m] = [u \in Tenants |-> 0]
    BY <1>1, <2>1 DEF RowsOK
  <2> QED
    BY <1>1, <1>2, <2>2, <2>3 DEF DeleteNotice, Withdraw, RowsOK
<1>3. ASSUME NEW u \in Tenants, MarkAll(u) \/ \E n \in Notices : MarkNotification(n, u)
      PROVE  Withdraw
  <2>1. CASE MarkAll(u)
    <3>1. ASSUME NEW n \in Notices, notification[n][u] # NoRow
          PROVE  [notification[n] EXCEPT ![u].is_read = TRUE]
                   \in [Tenants -> NotificationRow \cup {NoRow}]
      <4>1. [notification[n][u] EXCEPT !.is_read = TRUE] \in NotificationRow
        <5>1. notification[n][u] \in NotificationRow
          BY <1>1, <3>1 DEF RowsOK
        <5> QED BY <5>1 DEF NotificationRow
      <4> QED BY <1>1, <4>1 DEF RowsOK
    <3>2. notification' \in [Notices -> [Tenants -> NotificationRow \cup {NoRow}]]
      BY <1>1, <2>1, <3>1 DEF MarkAll, RowsOK
    <3> QED BY <1>1, <2>1, <3>2 DEF MarkAll, RowsOK, Withdraw
  <2>2. ASSUME NEW n \in Notices, MarkNotification(n, u) PROVE Withdraw
    <3>1. notification[n][u] \in NotificationRow
      BY <1>1, <2>2 DEF MarkNotification, RowsOK
    <3>2. [notification[n][u] EXCEPT !.is_read = TRUE] \in NotificationRow
      BY <3>1 DEF NotificationRow
    <3>3. notification' = [notification EXCEPT ![n][u] =
                             [notification[n][u] EXCEPT !.is_read = TRUE]]
      BY <2>2 DEF MarkNotification
    <3>4. notification' \in [Notices -> [Tenants -> NotificationRow \cup {NoRow}]]
      BY <1>1, <3>2, <3>3 DEF RowsOK
    <3> QED
      BY <1>1, <2>2, <3>4 DEF MarkNotification, RowsOK, Withdraw
  <2> QED BY <1>3, <2>1, <2>2
<1>4. ASSUME NEW w \in Workers,
             Publish(w) \/ WriteReceipt(w) \/ FileComplaint(w) \/ WriteStatus(w) \/ GiveUp(w)
      PROVE  Answer(w)
  <2>1. req[w] # NoRow
    BY <1>4 DEF Publish, WriteReceipt, FileComplaint, WriteStatus, GiveUp, At, Busy
  <2> QED
    BY <1>1, <1>4, <2>1 DEF Answer, RowsOK, Requests
<1> QED
  BY <1>2, <1>3, <1>4, BeginAdvances, ReadAdvances DEF CommunityNext

\* Withdrawing a notice leaves what a request in progress relies on: only
\* published notices go, and a late reading finds a deleted one.
LEMMA WithdrawFine ==
  ASSUME CommunityInv, Withdraw, NEW q \in Request, Fine(q)
  PROVE  Fine(q)'
<1>1. ASSUME q.op = "post" PROVE PostFine(q)'
  <2>1. q.n \in Notices
    BY <1>1, RequestFields DEF PostRequest
  <2>2. UNCHANGED booking
    BY DEF Withdraw, vars
  <2> QED
    BY <1>1, <2>1, <2>2 DEF Fine, PostFine, Withdraw, HasStatus
<1>2. ASSUME q.op = "read" PROVE ReadFine(q)'
  <2>1. q.n \in Notices /\ q.u \in Tenants
    BY <1>2, RequestFields DEF ReadRequest
  <2> QED
    BY <1>2, <2>1 DEF Fine, ReadFine, Withdraw
<1>3. ASSUME q.op = "complain" PROVE ComplainFine(q)'
  BY <1>3 DEF Fine, ComplainFine, Withdraw, vars
<1> QED BY <1>1, <1>2, <1>3 DEF Fine

\* So does the answer of another request: it publishes another notice, reads a
\* notice that is not deleted, or writes another complaint.
LEMMA AnswerFine ==
  ASSUME CommunityInv, NEW w \in Workers, Answer(w), NEW q \in Request, Fine(q),
         Apart(q, req[w])
  PROVE  Fine(q)'
<1>1. PICK p \in Request : p = req[w]
  BY DEF Answer
<1>2. RowsOK /\ ReceiptsOfPublished /\ Apart(q, p) /\ UNCHANGED vars
  BY <1>1 DEF CommunityInv, Answer, Publish, WriteReceipt, FileComplaint, WriteStatus, GiveUp
<1>3. ASSUME q.op = "post" PROVE PostFine(q)'
  <2>1. q.n \in Notices /\ UNCHANGED booking
    BY <1>2, <1>3, RequestFields DEF PostRequest, vars
  <2>2. notice'[q.n] = "unused"
    <3>1. CASE Publish(w)
      BY <1>1, <1>2, <1>3, <2>1, <3>1 DEF Publish, At, Apart, Fine, PostFine, RowsOK
    <3>2. CASE ~Publish(w)
      BY <1>3, <3>2 DEF Answer, WriteReceipt, FileComplaint, WriteStatus, GiveUp, board,
                        Fine, PostFine
    <3> QED BY <3>1, <3>2
  <2> QED
    BY <1>3, <2>1, <2>2 DEF Fine, PostFine, HasStatus
<1>4. ASSUME q.op = "read" PROVE ReadFine(q)'
  <2>1. q.n \in Notices /\ q.u \in Tenants
    BY <1>4, RequestFields DEF ReadRequest
  <2>2. CASE Publish(w)
    <3>1. p.op = "post" /\ p.n \in Notices /\ notice[p.n] = "unused"
      BY <1>1, <2>2, RequestFields DEF Publish, At, Answer, Fine, PostFine, PostRequest
    <3> QED
      BY <1>1, <1>2, <1>4, <2>1, <2>2, <3>1 DEF Publish, Fine, ReadFine, RowsOK
  <2>3. CASE WriteReceipt(w)
    <3>1. p.n \in Notices /\ p.u \in Tenants /\ notice' = notice
      BY <1>1, <2>3, RequestFields DEF WriteReceipt, At, ReadRequest
    <3>2. receipts' = [receipts EXCEPT ![p.n][p.u] = receipts[p.n][p.u] + 1]
      BY <1>1, <2>3 DEF WriteReceipt
    <3>3. receipts[q.n][q.u] > 0 => receipts'[q.n][q.u] > 0
      BY <1>2, <2>1, <3>1, <3>2 DEF RowsOK
    <3> QED
      BY <1>4, <3>1, <3>3 DEF Fine, ReadFine
  <2>4. CASE FileComplaint(w) \/ WriteStatus(w) \/ GiveUp(w)
    BY <1>4, <2>4 DEF FileComplaint, WriteStatus, GiveUp, board, Fine, ReadFine
  <2> QED BY <2>2, <2>3, <2>4 DEF Answer
<1>5. ASSUME q.op = "complain" PROVE ComplainFine(q)'
  <2>1. q.c \in Complaints /\ UNCHANGED booking
    BY <1>2, <1>5, RequestFields DEF ComplainRequest, vars
  <2>2. complaint'[q.c] = NoRow
    <3>1. CASE FileComplaint(w)
      BY <1>1, <1>2, <1>5, <2>1, <3>1 DEF FileComplaint, At, Apart, Fine, ComplainFine, RowsOK
    <3>2. CASE WriteStatus(w)
      <4>1. Handles(p) /\ q.c # p.c
        BY <1>1, <1>2, <1>5, <3>2 DEF WriteStatus, At, Apart, Handles
      <4> QED
        BY <1>1, <1>2, <1>5, <2>1, <3>2, <4>1 DEF WriteStatus, Fine, ComplainFine, RowsOK
    <3>3. CASE Publish(w) \/ WriteReceipt(w) \/ GiveUp(w)
      BY <1>5, <3>3 DEF Publish, WriteReceipt, GiveUp, Fine, ComplainFine
    <3> QED BY <3>1, <3>2, <3>3 DEF Answer
  <2> QED
    BY <1>5, <2>1, <2>2 DEF Fine, ComplainFine
<1> QED BY <1>3, <1>4, <1>5 DEF Fine

\* An answer, and a step to the next statement, are of one worker.
LEMMA AnswerEnds ==
  ASSUME NEW w \in Workers, Answer(w)
  PROVE  req' = [req EXCEPT ![w] = NoRow]
BY DEF Answer, Publish, WriteReceipt, FileComplaint, WriteStatus, GiveUp, End

\* Being apart is mutual.
LEMMA ApartBothWays == ASSUME NEW q, NEW p, Apart(q, p) PROVE Apart(p, q)
BY DEF Apart

\* The description of the requests in progress is kept.
LEMMA NextRequests ==
  ASSUME CommunityInv, [CommunityNext]_communityVars
  PROVE  Requests'
<1>1. RowsOK /\ Requests
  BY DEF CommunityInv
<1>2. CASE Letting
  <2>1. req' = req
    BY <1>2 DEF Letting
  <2>2. ASSUME NEW w \in Workers, req[w] # NoRow PROVE Fine(req[w])'
    <3>1. PICK q \in Request : q = req[w]
      BY <1>1, <2>2 DEF RowsOK
    <3>2. Fine(q)'
      BY <1>2, <3>1, LettingFine
    <3> QED BY <2>1, <3>1, <3>2 DEF Fine, PostFine, ReadFine, ComplainFine
  <2> QED BY <1>1, <2>1, <2>2 DEF Requests, Apart
<1>3. CASE Withdraw
  <2>1. req' = req
    BY <1>3 DEF Withdraw
  <2>2. ASSUME NEW w \in Workers, req[w] # NoRow PROVE Fine(req[w])'
    <3>1. PICK q \in Request : q = req[w]
      BY <1>1, <2>2 DEF RowsOK
    <3>2. Fine(q)'
      BY <1>1, <1>3, <2>2, <3>1, WithdrawFine DEF Requests
    <3> QED BY <2>1, <3>1, <3>2 DEF Fine, PostFine, ReadFine, ComplainFine
  <2> QED BY <1>1, <2>1, <2>2 DEF Requests, Apart
<1>4. ASSUME NEW w \in Workers, NEW r, Advance(w, r) PROVE Requests'
  <2>1. req' = [req EXCEPT ![w] = r] /\ UNCHANGED <<vars, board, complaint>> /\ Fine(r)
    BY <1>4 DEF Advance
  <2>2. ASSUME NEW q, Fine(q) PROVE Fine(q)'
    BY <2>1, <2>2 DEF Fine, PostFine, ReadFine, ComplainFine, HasStatus, vars, board
  <2>3. \A v \in Workers : req'[v] = IF v = w THEN r ELSE req[v]
    BY <1>1, <2>1 DEF RowsOK
  <2>4. ASSUME NEW v \in Workers, req'[v] # NoRow PROVE Fine(req[v])'
    <3>1. PICK q : q = req'[v]
      OBVIOUS
    <3>2. Fine(q)'
      BY <1>1, <2>1, <2>2, <2>3, <2>4, <3>1 DEF Requests
    <3> QED BY <3>1, <3>2 DEF Fine, PostFine, ReadFine, ComplainFine
  <2>5. ASSUME NEW v \in Workers, NEW x \in Workers, v # x, req'[v] # NoRow, req'[x] # NoRow
        PROVE  Apart(req'[v], req'[x])
    BY <1>1, <1>4, <2>3, <2>5, ApartBothWays DEF Requests, Advance
  <2>6. \A v \in Workers : req'[v] # NoRow => req'[v].op \in Allowed[v]
    BY <1>1, <1>4, <2>3 DEF Requests, Advance
  <2> QED BY <2>4, <2>5, <2>6 DEF Requests, Apart
<1>5. ASSUME NEW w \in Workers, Answer(w) PROVE Requests'
  <2>1. \A v \in Workers : req'[v] = IF v = w THEN NoRow ELSE req[v]
    BY <1>1, <1>5, AnswerEnds DEF RowsOK
  <2>2. ASSUME NEW v \in Workers, req'[v] # NoRow PROVE Fine(req[v])'
    <3>1. v # w /\ req[v] \in Request /\ req[w] # NoRow
      BY <1>1, <1>5, <2>1, <2>2, RequestFields DEF RowsOK, Answer
    <3>2. PICK q \in Request : q = req[v]
      BY <3>1
    <3>3. Fine(q)'
      BY <1>1, <1>5, <2>1, <2>2, <3>1, <3>2, AnswerFine DEF Requests
    <3> QED BY <2>1, <3>1, <3>2, <3>3 DEF Fine, PostFine, ReadFine, ComplainFine
  <2> QED BY <1>1, <2>1, <2>2 DEF Requests, Apart
<1>6. CASE UNCHANGED communityVars
  BY <1>1, <1>6 DEF communityVars, vars, board, Requests, Fine, PostFine, ReadFine, ComplainFine,
                    HasStatus, Apart
<1> QED
  BY <1>2, <1>3, <1>4, <1>5, <1>6, CommunitySteps

-----------------------------------------------------------------------------
(* The rows.                                                               *)

\* Every row keeps its type, whatever the foreign keys delete.
LEMMA NextRowsOK ==
  ASSUME CommunityInv, [CommunityNext]_communityVars
  PROVE  RowsOK'
<1>1. RowsOK /\ Requests
  BY DEF CommunityInv
<1>2. CASE Letting
  <2>1. ASSUME NEW c \in Complaints PROVE ComplaintAfter(c) \in ComplaintRow \cup {NoRow}
    <3>1. complaint[c] # NoRow => [complaint[c] EXCEPT !.tenancy = NoRow] \in ComplaintRow
      BY <1>1 DEF RowsOK, ComplaintRow
    <3> QED BY <1>1, <3>1 DEF ComplaintAfter, RowsOK
  <2>2. complaint' \in [Complaints -> ComplaintRow \cup {NoRow}]
    BY <1>2, <2>1 DEF Letting
  <2>3. CASE is_published' = NoRow
    BY <1>1, <1>2, <2>2, <2>3 DEF Letting, RowsOK, NoticeState
  <2>4. CASE is_published' # NoRow
    BY <1>1, <1>2, <2>2, <2>4 DEF Letting, RowsOK
  <2> QED BY <2>3, <2>4
<1>3. CASE Withdraw
  BY <1>1, <1>3 DEF Withdraw, RowsOK
<1>4. ASSUME NEW w \in Workers, NEW r, Advance(w, r) PROVE RowsOK'
  BY <1>1, <1>4 DEF Advance, RowsOK, board
<1>5. ASSUME NEW w \in Workers, Answer(w) PROVE RowsOK'
  <2>1. PICK q \in Request : q = req[w]
    BY <1>5 DEF Answer
  <2>2. req' \in [Workers -> Request \cup {NoRow}]
    BY <1>1, <1>5, AnswerEnds DEF RowsOK
  <2>3. CASE Publish(w)
    <3>1. q.n \in Notices
      BY <2>1, <2>3, RequestFields DEF Publish, At, PostRequest
    <3>2. [is_read |-> FALSE] \in NotificationRow
      BY DEF NotificationRow
    <3>3. [u \in Tenants |-> IF u \in q.recipients THEN [is_read |-> FALSE] ELSE NoRow]
            \in [Tenants -> NotificationRow \cup {NoRow}]
      BY <3>2
    <3>4. notification' \in [Notices -> [Tenants -> NotificationRow \cup {NoRow}]]
      BY <1>1, <2>1, <2>3, <3>1, <3>3 DEF Publish, RowsOK
    <3> QED BY <1>1, <2>1, <2>2, <2>3, <3>1, <3>4 DEF Publish, RowsOK, NoticeState
  <2>4. CASE WriteReceipt(w)
    <3>1. q.n \in Notices /\ q.u \in Tenants
      BY <2>1, <2>4, RequestFields DEF WriteReceipt, At, ReadRequest
    <3>2. receipts' = [receipts EXCEPT ![q.n][q.u] = receipts[q.n][q.u] + 1]
      BY <2>1, <2>4 DEF WriteReceipt
    <3>3. receipts' \in [Notices -> [Tenants -> Nat]]
      BY <1>1, <3>1, <3>2 DEF RowsOK
    <3> QED BY <1>1, <2>2, <2>4, <3>3 DEF WriteReceipt, RowsOK
  <2>5. CASE FileComplaint(w)
    <3>1. q \in ComplainRequest
      BY <2>1, <2>5, RequestFields DEF FileComplaint, At
    <3>2. [tenant |-> q.u, tenancy |-> q.b, status |-> "OPEN", resolved |-> FALSE]
            \in ComplaintRow
      BY <3>1 DEF ComplainRequest, ComplaintRow, ComplaintStatus
    <3>3. complaint' \in [Complaints -> ComplaintRow \cup {NoRow}]
      BY <1>1, <2>1, <2>5, <3>1, <3>2 DEF FileComplaint, RowsOK, ComplainRequest
    <3> QED BY <1>1, <2>2, <2>5, <3>3 DEF FileComplaint, RowsOK, board
  <2>6. CASE WriteStatus(w)
    <3>1. q \in HandleRequest /\ complaint[q.c] # NoRow
      BY <2>1, <2>6, RequestFields DEF WriteStatus, At, Handles
    <3>2. complaint[q.c] \in ComplaintRow
      BY <1>1, <3>1 DEF RowsOK, HandleRequest
    <3> DEFINE row == complaint[q.c]
    <3>3. PICK s, t : /\ complaint' = [complaint EXCEPT ![q.c].status = s, ![q.c].resolved = t]
                      /\ s = (IF q.to = q.saw.status THEN row.status ELSE q.to)
                      /\ t = Stamped(q, row)
      BY <2>1, <2>6 DEF WriteStatus
    <3>4. s \in ComplaintStatus
      BY <3>1, <3>2, <3>3 DEF HandleRequest, ComplaintRow
    <3>5. row.resolved \in BOOLEAN
      BY <3>2 DEF ComplaintRow
    <3>6. t \in BOOLEAN
      BY <3>3, <3>5 DEF Stamped
    <3>7. complaint' \in [Complaints -> ComplaintRow \cup {NoRow}]
      BY <1>1, <3>2, <3>3, <3>4, <3>6 DEF RowsOK, ComplaintRow
    <3> QED BY <1>1, <2>2, <2>6, <3>7 DEF WriteStatus, RowsOK, board
  <2>7. CASE GiveUp(w)
    BY <1>1, <2>2, <2>7 DEF GiveUp, RowsOK, board
  <2> QED BY <1>5, <2>3, <2>4, <2>5, <2>6, <2>7 DEF Answer
<1>6. CASE UNCHANGED communityVars
  BY <1>1, <1>6 DEF communityVars, board, RowsOK
<1> QED
  BY <1>2, <1>3, <1>4, <1>5, <1>6, CommunitySteps

\* Receipts are written for published notices, and go with them.
LEMMA NextReceipts ==
  ASSUME CommunityInv, [CommunityNext]_communityVars
  PROVE  ReceiptsOfPublished'
<1>1. RowsOK /\ ReceiptsOfPublished /\ Requests
  BY DEF CommunityInv
<1> SUFFICES ASSUME NEW n \in Notices, NEW u \in Tenants, receipts'[n][u] > 0
             PROVE  notice'[n] = "published"
  BY DEF ReceiptsOfPublished
<1>2. CASE Letting
  BY <1>1, <1>2 DEF Letting, ReceiptsOfPublished
<1>3. CASE Withdraw
  BY <1>1, <1>3 DEF Withdraw, ReceiptsOfPublished
<1>4. ASSUME NEW w \in Workers, NEW r, Advance(w, r) PROVE notice'[n] = "published"
  BY <1>1, <1>4 DEF Advance, board, ReceiptsOfPublished
<1>5. ASSUME NEW w \in Workers, Answer(w) PROVE notice'[n] = "published"
  <2>1. PICK q \in Request : q = req[w]
    BY <1>5 DEF Answer
  <2>2. CASE Publish(w)
    <3>1. q.n \in Notices
      BY <2>1, <2>2, RequestFields DEF Publish, At, PostRequest
    <3> QED BY <1>1, <2>1, <2>2, <3>1 DEF Publish, RowsOK, ReceiptsOfPublished
  <2>3. CASE WriteReceipt(w)
    <3>1. q.n \in Notices /\ q.u \in Tenants /\ notice[q.n] = "published" /\ notice' = notice
      BY <2>1, <2>3, RequestFields DEF WriteReceipt, At, ReadRequest
    <3>2. receipts' = [receipts EXCEPT ![q.n][q.u] = receipts[q.n][q.u] + 1]
      BY <2>1, <2>3 DEF WriteReceipt
    <3>3. CASE n = q.n
      BY <3>1, <3>3
    <3>4. CASE n # q.n
      BY <1>1, <3>1, <3>2, <3>4 DEF RowsOK, ReceiptsOfPublished
    <3> QED BY <3>3, <3>4
  <2>4. CASE FileComplaint(w) \/ WriteStatus(w) \/ GiveUp(w)
    BY <1>1, <2>4 DEF FileComplaint, WriteStatus, GiveUp, board, ReceiptsOfPublished
  <2> QED BY <1>5, <2>2, <2>3, <2>4 DEF Answer
<1>6. CASE UNCHANGED communityVars
  BY <1>1, <1>6 DEF communityVars, board, ReceiptsOfPublished
<1> QED
  BY <1>2, <1>3, <1>4, <1>5, <1>6, CommunitySteps

\* A complaint goes on pointing to a tenancy of its tenant: a tenancy keeps its
\* tenant, one that is deleted is taken out, and the tenancy that was found is
\* still the user's when the complaint is filed.
LEMMA NextComplaints ==
  ASSUME CommunityInv, SeatInv', [CommunityNext]_communityVars
  PROVE  ComplaintOfTenant'
<1>1. RowsOK /\ ComplaintOfTenant /\ SeatInv
  BY DEF CommunityInv
<1> DEFINE Points(row) == /\ row.tenancy \in Bookings /\ tenancy'[row.tenancy] # NoRow
                          /\ booking'[row.tenancy].tenant = row.tenant
<1> SUFFICES ASSUME NEW c \in Complaints, complaint'[c] # NoRow,
                    complaint'[c].tenancy # NoRow
             PROVE  Points(complaint'[c])
  BY DEF ComplaintOfTenant, TenanciesOf
<1> HIDE DEF Points
<1>2. ASSUME UNCHANGED <<booking, tenancy>>, complaint[c] # NoRow,
             complaint'[c].tenancy = complaint[c].tenancy,
             complaint'[c].tenant = complaint[c].tenant
      PROVE  Points(complaint'[c])
  BY <1>1, <1>2 DEF ComplaintOfTenant, TenanciesOf, Points
<1>3. CASE Letting
  <2>1. complaint'[c] = ComplaintAfter(c) /\ LettingStep
    BY <1>3 DEF Letting
  <2>2. /\ complaint[c] # NoRow /\ complaint'[c] = complaint[c]
        /\ tenancy'[complaint[c].tenancy] # NoRow
    BY <1>1, <2>1 DEF ComplaintAfter, RowsOK, ComplaintRow
  <2>3. PICK b \in Bookings : /\ b = complaint[c].tenancy /\ tenancy[b] # NoRow
                              /\ booking[b].tenant = complaint[c].tenant
    BY <1>1, <2>2 DEF ComplaintOfTenant, TenanciesOf
  <2>4. booking[b] # NoRow /\ booking'[b] # NoRow
    BY <1>1, <2>2, <2>3 DEF SeatInv, TenancyIffGranted, HasStatus
  <2>5. booking'[b].tenant = booking[b].tenant
    BY <1>1, <2>1, <2>4, LettingFacts
  <2> QED BY <2>2, <2>3, <2>5 DEF Points
<1>4. CASE UNCHANGED <<vars, complaint>>
  BY <1>2, <1>4 DEF vars
<1>5. ASSUME NEW w \in Workers, Answer(w)
      PROVE  Points(complaint'[c])
  <2>1. PICK q \in Request : q = req[w]
    BY <1>5 DEF Answer
  <2>2. CASE FileComplaint(w)
    <3>1. q \in ComplainRequest /\ Fine(q) /\ q.op = "complain"
      BY <1>5, <2>1, <2>2, RequestFields DEF FileComplaint, At, Answer
    <3>2. UNCHANGED <<booking, tenancy>>
      BY <2>2 DEF FileComplaint, vars
    <3>3. CASE c = q.c
      <4>1. complaint'[c].tenancy = q.b /\ complaint'[c].tenant = q.u
        BY <1>1, <2>1, <2>2, <3>3 DEF FileComplaint, RowsOK
      <4>2. tenancy[q.b] # NoRow /\ q.b \in Bookings
        BY <2>1, <2>2, <3>1, <4>1 DEF FileComplaint, ComplainRequest
      <4>3. booking[q.b] # NoRow
        BY <1>1, <4>2 DEF SeatInv, TenancyIffGranted, HasStatus
      <4>4. booking[q.b].tenant = q.u
        BY <3>1, <4>1, <4>3 DEF Fine, ComplainFine
      <4> QED BY <3>2, <4>1, <4>2, <4>4 DEF Points
    <3>4. CASE c # q.c
      <4>1. complaint'[c] = complaint[c]
        BY <1>1, <2>1, <2>2, <3>4 DEF FileComplaint, RowsOK
      <4> QED BY <1>2, <3>2, <4>1
    <3> QED BY <3>3, <3>4
  <2>3. CASE WriteStatus(w)
    <3>1. UNCHANGED <<booking, tenancy>> /\ complaint[q.c] # NoRow
      BY <2>1, <2>3 DEF WriteStatus, vars
    <3>2. PICK s, t : complaint' = [complaint EXCEPT ![q.c].status = s, ![q.c].resolved = t]
      BY <2>1, <2>3 DEF WriteStatus
    <3>3. CASE c = q.c
      <4>1. complaint[c] \in ComplaintRow
        BY <1>1, <3>1, <3>3 DEF RowsOK
      <4>2. complaint'[c] = [[complaint[c] EXCEPT !.status = s] EXCEPT !.resolved = t]
        BY <1>1, <3>2, <3>3 DEF RowsOK
      <4>3. /\ complaint'[c].tenancy = complaint[c].tenancy
            /\ complaint'[c].tenant = complaint[c].tenant
        BY <4>1, <4>2 DEF ComplaintRow
      <4> QED BY <1>2, <3>1, <3>3, <4>3
    <3>4. CASE c # q.c
      <4>1. complaint'[c] = complaint[c]
        BY <1>1, <3>2, <3>4 DEF RowsOK
      <4> QED BY <1>2, <3>1, <4>1
    <3> QED BY <3>3, <3>4
  <2>4. CASE Publish(w) \/ WriteReceipt(w) \/ GiveUp(w)
    BY <1>4, <2>4 DEF Publish, WriteReceipt, GiveUp
  <2> QED BY <1>5, <2>2, <2>3, <2>4 DEF Answer
<1> QED
  BY <1>3, <1>4, <1>5, CommunitySteps DEF communityVars, Withdraw, Advance

\* The invariant holds when nothing has been published or filed.
LEMMA InitCommunityInv == CommunityInit => CommunityInv
<1> SUFFICES ASSUME CommunityInit PROVE CommunityInv
  OBVIOUS
<1>1. SeatInv
  BY InitSeatInv DEF CommunityInit
<1> QED
  BY <1>1 DEF CommunityInit, CommunityInv, RowsOK, NoticeState, ReceiptsOfPublished,
              ComplaintOfTenant, Requests

\* Every step keeps it.
LEMMA NextCommunityInv == CommunityInv /\ [CommunityNext]_communityVars => CommunityInv'
<1> SUFFICES ASSUME CommunityInv, [CommunityNext]_communityVars PROVE CommunityInv'
  OBVIOUS
<1>1. [Next]_vars
  BY CommunitySteps, LettingIsRental
     DEF communityVars, Letting, Withdraw, Advance, Answer, Publish, WriteReceipt,
         FileComplaint, WriteStatus, GiveUp
<1>2. SeatInv'
  BY <1>1, NextSeatInv DEF CommunityInv
<1> QED
  BY <1>2, NextRowsOK, NextReceipts, NextComplaints, NextRequests DEF CommunityInv

\* The inductive invariant of Community: the rows are those of Rental's
\* invariant, and every request in progress relies on what is true.
THEOREM CommunityInvariant == CommunitySpec => []CommunityInv
BY InitCommunityInv, NextCommunityInv, PTL DEF CommunitySpec

\* A complaint points to a tenancy of the user who filed it or to none, however
\* rooms and tenancies are deleted while complaints are filed.
THEOREM ComplaintsAreOfTenants == CommunitySpec => []ComplaintOfTenant
BY CommunityInvariant, PTL DEF CommunityInv

\* Nobody misses a notice, whatever is approved, paid, ended or deleted between
\* the two queries that collect its recipients.
THEOREM ResidentsAreNotified == CommunitySpec => ResidentsNotified
<1>1. CommunityInv /\ [CommunityNext]_communityVars =>
        [\A w \in Workers : Publish(w) =>
           \A b \in req[w].entitled :
             Entitles(b) => req[w].n \in Inbox(booking[b].tenant)']_communityVars
  <2> SUFFICES ASSUME CommunityInv, NEW w \in Workers, Publish(w), NEW b \in req[w].entitled,
                      Entitles(b)
               PROVE  req[w].n \in Inbox(booking[b].tenant)'
    OBVIOUS
  <2>1. RowsOK /\ SeatInv /\ Requests /\ req[w] # NoRow
    BY DEF CommunityInv, Publish, At, Busy
  <2>2. PICK q \in Request : q = req[w]
    BY <2>1 DEF RowsOK
  <2>3. q \in PostRequest /\ PostFine(q) /\ q.at = "write"
    BY <2>1, <2>2, RequestFields DEF Publish, At, Requests, Fine
  <2>4. b \in Bookings /\ q.n \in Notices
    BY <2>2, <2>3 DEF PostRequest
  <2>5. booking[b] # NoRow
    BY <2>1, <2>4 DEF Entitles, Live, TenancyIn, SeatInv, TenancyIffGranted, HasStatus
  <2>6. booking[b].tenant \in q.recipients /\ booking[b].tenant \in Tenants
    BY <2>1, <2>2, <2>3, <2>4, <2>5 DEF PostFine, SeatInv, TypeOK, BookingRow
  <2>7. [is_read |-> FALSE] # NoRow
    <3>1. [is_read |-> FALSE] \in NotificationRow
      BY DEF NotificationRow
    <3> QED BY <3>1, CommunityAssumption
  <2>8. notification'[q.n][booking[b].tenant] # NoRow
    BY <2>1, <2>2, <2>4, <2>6, <2>7 DEF Publish, RowsOK
  <2>9. booking' = booking
    BY DEF Publish, vars
  <2> QED
    BY <2>2, <2>4, <2>8, <2>9 DEF Inbox
<1> QED
  BY <1>1, CommunityInvariant, PTL DEF CommunitySpec, ResidentsNotified

\* Reading a notice again changes nothing, however many requests overlap.
THEOREM LateReadingsLeaveNoReceipt == CommunitySpec => NoLateReceipt
<1>1. CommunityInv /\ [CommunityNext]_communityVars =>
        [\A w \in Workers : At(w, "read", "write") /\ req[w].late =>
           receipts'[req[w].n][req[w].u] <= receipts[req[w].n][req[w].u]]_communityVars
  <2> SUFFICES ASSUME CommunityInv, CommunityNext, NEW w \in Workers,
                      At(w, "read", "write"), req[w].late
               PROVE  receipts'[req[w].n][req[w].u] <= receipts[req[w].n][req[w].u]
    OBVIOUS
  <2>1. RowsOK /\ RowsOK' /\ Requests /\ ReceiptsOfPublished /\ req[w] # NoRow
    BY NextRowsOK DEF CommunityInv, At, Busy
  <2>2. PICK q \in Request : q = req[w]
    BY <2>1 DEF RowsOK
  <2>3. /\ q.n \in Notices /\ q.u \in Tenants /\ notice[q.n] = "deleted"
    BY <2>1, <2>2, RequestFields DEF At, Requests, Fine, ReadFine, ReadRequest
  <2>4. receipts[q.n][q.u] \in Nat /\ receipts'[q.n][q.u] \in Nat
    BY <2>1, <2>3 DEF RowsOK
  <2>5. CASE Letting
    BY <2>2, <2>3, <2>4, <2>5 DEF Letting
  <2>6. CASE Withdraw
    BY <2>2, <2>3, <2>4, <2>6 DEF Withdraw
  <2>7. ASSUME NEW v \in Workers, (\E r : Advance(v, r)) \/ Answer(v)
        PROVE  receipts'[q.n][q.u] <= receipts[q.n][q.u]
    <3>1. CASE WriteReceipt(v)
      <4>1. req[v] # NoRow /\ req[v].op = "read"
        BY <3>1 DEF WriteReceipt, At, Busy
      <4>2. PICK p \in Request : p = req[v]
        BY <2>1, <4>1 DEF RowsOK
      <4>3. p.n # q.n /\ p.n \in Notices
        BY <2>3, <3>1, <4>1, <4>2, RequestFields DEF WriteReceipt, ReadRequest
      <4>4. receipts' = [receipts EXCEPT ![p.n][p.u] = receipts[p.n][p.u] + 1]
        BY <3>1, <4>2 DEF WriteReceipt
      <4>5. receipts'[q.n] = receipts[q.n]
        BY <2>1, <2>3, <4>3, <4>4 DEF RowsOK
      <4> QED BY <2>4, <4>5
    <3>2. CASE ~WriteReceipt(v)
      <4>1. receipts' = receipts
        BY <2>7, <3>2 DEF Advance, Answer, Publish, FileComplaint, WriteStatus, GiveUp, board
      <4> QED BY <2>4, <4>1
    <3> QED BY <3>1, <3>2
  <2> QED
    BY <2>2, <2>5, <2>6, <2>7, CommunitySteps
<1> QED
  BY <1>1, CommunityInvariant, PTL DEF CommunitySpec, NoLateReceipt

-----------------------------------------------------------------------------
(* How many receipts there may be.                                         *)

\* The workers that have found no receipt of n by u and are about to write one.
Checked(n, u) == {w \in Workers : At(w, "read", "write") /\ req[w].n = n /\ req[w].u = u}

\* Overlapping readings leave one receipt each: together with those that are
\* still to come there are never more than there are workers.
ReceiptsCounted ==
  \A n \in Notices, u \in Tenants :
    receipts[n][u] + Cardinality(Checked(n, u)) <= Cardinality(Workers)

\* Once receipts are deleted, or while there are none, only the workers count.
LEMMA CheckedInWorkers ==
  ASSUME NEW n, NEW u
  PROVE  /\ IsFiniteSet(Checked(n, u)) /\ Cardinality(Checked(n, u)) \in Nat
         /\ Cardinality(Workers) \in Nat /\ Cardinality(Checked(n, u)) <= Cardinality(Workers)
<1>1. Checked(n, u) \subseteq Workers /\ IsFiniteSet(Workers)
  BY CommunityAssumption DEF Checked
<1> QED BY <1>1, FS_Subset, FS_CardinalityType

\* The same of the workers that have checked after a step.
LEMMA CheckedInWorkersNext ==
  ASSUME NEW n, NEW u
  PROVE  Cardinality(Checked(n, u)') \in Nat /\ Cardinality(Checked(n, u)') <= Cardinality(Workers)
<1>1. Checked(n, u)' \subseteq Workers /\ IsFiniteSet(Workers)
  BY CommunityAssumption DEF Checked
<1> QED BY <1>1, FS_Subset, FS_CardinalityType

\* A step that writes a receipt takes a worker out of those that have checked.
LEMMA NextCounted ==
  ASSUME CommunityInv, CommunityInv', ReceiptsCounted, [CommunityNext]_communityVars
  PROVE  ReceiptsCounted'
<1>1. RowsOK /\ RowsOK' /\ Requests
  BY DEF CommunityInv
<1> SUFFICES ASSUME NEW n \in Notices, NEW u \in Tenants
             PROVE  receipts'[n][u] + Cardinality(Checked(n, u)') <= Cardinality(Workers)
  BY DEF ReceiptsCounted
<1> DEFINE N == receipts[n][u]
           M == receipts'[n][u]
           C == Checked(n, u)
           D == Checked(n, u)'
<1>2. /\ N \in Nat /\ M \in Nat
      /\ N + Cardinality(C) <= Cardinality(Workers)
      /\ IsFiniteSet(C) /\ Cardinality(C) \in Nat /\ Cardinality(Workers) \in Nat
      /\ Cardinality(D) \in Nat /\ Cardinality(D) <= Cardinality(Workers)
  BY <1>1, CheckedInWorkers, CheckedInWorkersNext DEF RowsOK, ReceiptsCounted
<1> HIDE DEF N, M, C, D
<1>3. ASSUME M <= N, D \subseteq C PROVE M + Cardinality(D) <= Cardinality(Workers)
  BY <1>2, <1>3, FS_Subset
<1>4. ASSUME M = 0 PROVE M + Cardinality(D) <= Cardinality(Workers)
  BY <1>2, <1>4
<1>5. \A v \in Workers : req'[v] = req[v] => (v \in D <=> v \in C)
  BY DEF D, C, Checked, At, Busy
<1>6. D \subseteq Workers
  BY DEF D, Checked
<1>7. ASSUME Letting
      PROVE  M + Cardinality(D) <= Cardinality(Workers)
  <2>1. M = N \/ M = 0
    BY <1>7 DEF Letting, M, N
  <2>2. D \subseteq C
    BY <1>5, <1>6, <1>7 DEF Letting
  <2> QED BY <1>2, <1>3, <1>4, <2>1, <2>2
<1>8. ASSUME Withdraw
      PROVE  M + Cardinality(D) <= Cardinality(Workers)
  <2>1. M = N \/ M = 0
    BY <1>8 DEF Withdraw, M, N
  <2>2. D \subseteq C
    BY <1>5, <1>6, <1>8 DEF Withdraw
  <2> QED BY <1>2, <1>3, <1>4, <2>1, <2>2
<1>9. ASSUME NEW w \in Workers, NEW r, Advance(w, r)
      PROVE  M + Cardinality(D) <= Cardinality(Workers)
  <2>1. M = N /\ \A v \in Workers : req'[v] = IF v = w THEN r ELSE req[v]
    BY <1>1, <1>9 DEF Advance, board, RowsOK, M, N
  <2>2. CASE w \in D
    <3>1. r.op = "read" /\ r.at = "write" /\ r.n = n /\ r.u = u
      BY <2>1, <2>2 DEF D, Checked, At
    <3> QED BY <1>2, <1>4, <1>9, <2>1, <3>1 DEF Advance, N
  <2>3. CASE w \notin D
    <3>1. D \subseteq C
      BY <1>5, <1>6, <2>1, <2>3
    <3> QED BY <1>2, <1>3, <2>1, <3>1
  <2> QED BY <2>2, <2>3
<1>10. ASSUME NEW w \in Workers, Answer(w)
       PROVE  M + Cardinality(D) <= Cardinality(Workers)
  <2>1. \A v \in Workers : req'[v] = IF v = w THEN NoRow ELSE req[v]
    BY <1>1, <1>10, AnswerEnds DEF RowsOK
  <2>2. w \notin D
    BY <2>1 DEF D, Checked, At, Busy
  <2>3. D \subseteq C \ {w}
    BY <1>5, <1>6, <2>1, <2>2
  <2>4. PICK q \in Request : q = req[w]
    BY <1>10 DEF Answer
  <2>5. CASE WriteReceipt(w) /\ q.n = n /\ q.u = u
    <3>1. w \in C
      BY <2>4, <2>5 DEF WriteReceipt, C, Checked
    <3>2. receipts' = [receipts EXCEPT ![n][u] = receipts[n][u] + 1]
      BY <2>4, <2>5 DEF WriteReceipt
    <3>3. M = N + 1
      BY <1>1, <3>2 DEF M, N, RowsOK
    <3>4. /\ IsFiniteSet(C \ {w}) /\ Cardinality(C \ {w}) = Cardinality(C) - 1
      BY <1>2, <3>1, FS_RemoveElement
    <3>5. Cardinality(D) <= Cardinality(C \ {w})
      BY <2>3, <3>4, FS_Subset
    <3> QED BY <1>2, <3>3, <3>4, <3>5
  <2>6. CASE WriteReceipt(w) /\ ~(q.n = n /\ q.u = u)
    <3>1. q.n \in Notices /\ q.u \in Tenants
      BY <2>4, <2>6, RequestFields DEF WriteReceipt, At, ReadRequest
    <3>2. receipts' = [receipts EXCEPT ![q.n][q.u] = receipts[q.n][q.u] + 1]
      BY <2>4, <2>6 DEF WriteReceipt
    <3>3. M = N
      BY <1>1, <2>6, <3>1, <3>2 DEF M, N, RowsOK
    <3> QED BY <1>2, <1>3, <2>3, <3>3
  <2>7. CASE ~WriteReceipt(w)
    <3>1. M = N
      BY <1>10, <2>7 DEF Answer, Publish, FileComplaint, WriteStatus, GiveUp, board, M, N
    <3> QED BY <1>2, <1>3, <2>3, <3>1
  <2> QED BY <2>5, <2>6, <2>7
<1>11. ASSUME UNCHANGED communityVars
       PROVE  M + Cardinality(D) <= Cardinality(Workers)
  <2>1. M = N /\ req' = req
    BY <1>11 DEF communityVars, board, M, N
  <2>2. D \subseteq C
    BY <1>5, <1>6, <2>1
  <2> QED BY <1>2, <1>3, <2>1, <2>2
<1> QED
  BY <1>7, <1>8, <1>9, <1>10, <1>11, CommunitySteps DEF M, D

\* Every row keeps its type, and nobody has more receipts of a notice than there
\* are workers.
THEOREM CommunityTypeCorrect == CommunitySpec => []CommunityTypeOK
<1>1. CommunityInit => ReceiptsCounted
  <2> SUFFICES ASSUME CommunityInit, NEW n \in Notices, NEW u \in Tenants
               PROVE  receipts[n][u] + Cardinality(Checked(n, u)) <= Cardinality(Workers)
    BY DEF ReceiptsCounted
  <2> QED BY CheckedInWorkers DEF CommunityInit
<1>2. CommunitySpec => []ReceiptsCounted
  BY <1>1, NextCounted, CommunityInvariant, PTL DEF CommunitySpec
<1>3. CommunityInv /\ ReceiptsCounted => CommunityTypeOK
  <2> SUFFICES ASSUME CommunityInv, ReceiptsCounted PROVE CommunityTypeOK
    OBVIOUS
  <2>1. ASSUME NEW n \in Notices, NEW u \in Tenants
        PROVE  receipts[n][u] \in 0..Cardinality(Workers)
    <3>1. /\ receipts[n][u] \in Nat
          /\ receipts[n][u] + Cardinality(Checked(n, u)) <= Cardinality(Workers)
      BY DEF CommunityInv, RowsOK, ReceiptsCounted
    <3> QED BY <3>1, CheckedInWorkers
  <2> QED BY <2>1 DEF CommunityInv, SeatInv, RowsOK, CommunityTypeOK
<1> QED
  BY <1>2, <1>3, CommunityInvariant, PTL

=============================================================================
