--------------------------- MODULE DepositClaims ---------------------------
(***************************************************************************)
(* Claims for the security deposit, which serve notice and end tenancies   *)
(* on a path of their own beside the tenancy service.  The module adds the *)
(* claims to Rental, every handler again one step.                         *)
(*                                                                         *)
(* create_claim refuses a tenancy that has a claim, unless the claim is    *)
(* REJECTED, and no code rejects one: claims are indexed by their tenancy. *)
(* The amounts are left out: deductions are bounded by the deposit, the    *)
(* refund is the rest, and nothing else depends on them.                   *)
(***************************************************************************)
EXTENDS Rental

ClaimStatus == {"REQUESTED", "SETTLED"}

VARIABLE claim   \* claim[b]: the claim for the tenancy of b, or NoRow

claimVars == <<vars, claim>>

ClaimTypeOK == TypeOK /\ claim \in [Bookings -> ClaimStatus \cup {NoRow}]

ClaimInit == Init /\ claim = [b \in Bookings |-> NoRow]

\* Mutant: notice is given whatever the status of the tenancy.
MutCreateClaimRevives(b) ==
  /\ tenancy[b] # NoRow /\ claim[b] = NoRow
  /\ claim' = [claim EXCEPT ![b] = "REQUESTED"]
  /\ tenancy' = [tenancy EXCEPT ![b].status = "NOTICE_SERVED"]
  /\ UNCHANGED <<is_published, room, is_occupied, booking>>

\* A claim gives notice, if nobody has.  Ended tenancies are not refused.
CreateClaim(b) ==
  /\ tenancy[b] # NoRow /\ claim[b] = NoRow
  /\ claim' = [claim EXCEPT ![b] = "REQUESTED"]
  /\ tenancy' = IF tenancy[b].status = "ACTIVE"
                  THEN [tenancy EXCEPT ![b].status = "NOTICE_SERVED"]
                  ELSE tenancy
  /\ UNCHANGED <<is_published, room, is_occupied, booking>>

\* Mutant: the settlement leaves the end of the tenancy to the tenancy service.
MutSettleOnly(b) ==
  /\ claim[b] # NoRow
  /\ claim' = [claim EXCEPT ![b] = "SETTLED"]
  /\ UNCHANGED vars

\* A settlement ends the tenancy; neither the room nor the seat is told.  It
\* may be repeated.
SettleClaim(b) ==
  /\ claim[b] # NoRow
  /\ claim' = [claim EXCEPT ![b] = "SETTLED"]
  /\ tenancy' = [tenancy EXCEPT ![b].status = "TERMINATED"]
  /\ UNCHANGED <<is_published, room, is_occupied, booking>>

\* Claims are deleted with their tenancy (ON DELETE CASCADE).
Cascade == claim' = [b \in Bookings |-> IF tenancy'[b] = NoRow THEN NoRow ELSE claim[b]]

ClaimNext ==
  \/ \E b \in Bookings : CreateClaim(b)
  \/ \E b \in Bookings : SettleClaim(b)
  \/ Next /\ Cascade

ClaimSpec == ClaimInit /\ [][ClaimNext]_claimVars

-----------------------------------------------------------------------------
(* Properties; those of Rental are checked with the claims as well.        *)

\* The two ways out of a tenancy agree: nobody lives on undisturbed in a
\* tenancy whose deposit is claimed, and once the deposit is settled the
\* tenancy is over, whatever the tenancy service is asked to do later.
ClaimsEndTenancies ==
  \A b \in Bookings :
    claim[b] # NoRow =>
      /\ ~TenancyIn(b, {"ACTIVE"})
      /\ claim[b] = "SETTLED" => TenancyIn(b, {"TERMINATED"})

\* A seat becomes free only when the live tenancy in it ends, never under
\* somebody who still lives there.
FreedByMoveOut ==
  [][\A s \in Seats :
       is_occupied[s] = TRUE /\ is_occupied'[s] = FALSE
         => \E b \in Bookings : /\ Live(b) /\ booking[b].seat = s
                                /\ TenancyIn(b, {"TERMINATED"})']_claimVars
=============================================================================
