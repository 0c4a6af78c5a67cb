---------------------------- MODULE MCRateLimiter ----------------------------
(***************************************************************************)
(* Instances of RateLimiter for TLC: one request per window on auth routes *)
(* and two elsewhere, a window of two seconds of two ticks each.           *)
(***************************************************************************)
EXTENDS RateLimiter, TLC

MCLimit == [c \in Class |-> IF c = "auth" THEN 1 ELSE 2]

Symmetry == Permutations(Requests) \cup Permutations(Clients)
=============================================================================
