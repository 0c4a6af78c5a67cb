------------------------------ MODULE MCParking ------------------------------
(***************************************************************************)
(* Instances of Parking for TLC.                                           *)
(***************************************************************************)
EXTENDS Parking, TLC

Symmetry == Permutations(Bookings) \cup Permutations(Workers)
=============================================================================
