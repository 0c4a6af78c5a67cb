----------------------------- MODULE MCRentalTx -----------------------------
(***************************************************************************)
(* Instances of RentalTx for TLC: which operations overlap in each run.    *)
(***************************************************************************)
EXTENDS RentalTx, TLC

CONSTANTS w1, w2, w3

MCRoomOf   == [s \in Seats |-> CHOOSE r \in Rooms : TRUE]
MCCapacity == [r \in Rooms |-> 1]

\* Everything that touches inventory or the outcome of a request, anywhere.
AllowInventory == [w \in Workers |-> Operation \ {"sign", "confirm", "visited", "notice"}]

\* The booking service overlaps with itself; move-outs are served one at a
\* time but overlap with the booking service.
AllowOneTerminator ==
  [w \in Workers |-> IF w = w1 THEN {"terminate", "notice"}
                     ELSE {"create", "approve", "reject", "pay"}]

\* Move-outs and signatures one at a time, requests and their payments, and
\* visits, each overlapping with the others.  Rooms and seats are locked in one
\* order by the booking service and in the other by the tenancy service.
AllowPaperwork ==
  [w \in Workers |-> IF w = w1 THEN {"terminate", "sign"}
                     ELSE IF w = w2 THEN {"create", "approve", "pay"}
                     ELSE {"pay", "confirm", "visited"}]

Symmetry == Permutations(Tenants) \cup Permutations(Bookings)
WorkerSymmetry == Symmetry \cup Permutations(Workers)
=============================================================================
