-------------------------- MODULE MCDepositClaims --------------------------
(***************************************************************************)
(* Instances of DepositClaims for TLC: every seat is in the same room, and *)
(* a room has one place, so that two requests already compete for it.      *)
(***************************************************************************)
EXTENDS DepositClaims, TLC

MCRoomOf   == [s \in Seats |-> CHOOSE r \in Rooms : TRUE]
MCCapacity == [r \in Rooms |-> 1]

Symmetry == Permutations(Tenants) \cup Permutations(Bookings)
=============================================================================
