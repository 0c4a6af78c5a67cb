------------------------------- MODULE MCTrust -------------------------------
(***************************************************************************)
(* Instances of Trust for TLC: one tenancy of two users.                   *)
(***************************************************************************)
EXTENDS Trust, TLC

CONSTANTS tenant, owner, tenancy, w1, w2

OneTenancy == tenancy :> [tenant |-> tenant, owner |-> owner]

\* Any two requests overlap.
AllowAll == [w \in Workers |-> {"review", "submit", "resubmit", "decide"}]

\* Both serve reviews.
AllowReviews == [w \in Workers |-> {"review"}]

Symmetry == Permutations(Reviews) \cup Permutations(Workers)
=============================================================================
