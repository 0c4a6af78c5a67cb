----------------------------- MODULE MCCommunity -----------------------------
(***************************************************************************)
(* Instances of Community for TLC: one room for two, without seats.        *)
(***************************************************************************)
EXTENDS Community, TLC

CONSTANTS w1, w2

MCRoomOf   == [s \in Seats |-> CHOOSE r \in Rooms : TRUE]
MCCapacity == [r \in Rooms |-> 2]

\* Notices are published and read by both workers, complaints by the second.
AllowNoticesAndComplaints ==
  w1 :> {"post", "read"} @@ w2 :> {"read", "complain", "update", "reopen"}

Symmetry == Permutations(Tenants) \cup Permutations(Bookings)
=============================================================================
