-------------------------------- MODULE Lease --------------------------------
(***************************************************************************)
(* What letting a thing promises, for seats and for parking spaces: it is  *)
(* let only while nobody has it, so that nobody ever shares it, and it     *)
(* never passes from one holder to the next without having been free.      *)
(***************************************************************************)
CONSTANTS
  Things,    \* what is let
  Takers     \* who may have one

VARIABLE holders   \* holders[x]: those who have x

Init == holders = [x \in Things |-> {}]

Take(x, h) ==
  /\ holders[x] = {}
  /\ holders' = [holders EXCEPT ![x] = {h}]

\* One holder leaves, or several at once when what is let is taken away.
Release ==
  /\ holders' \in [Things -> SUBSET Takers]
  /\ \A x \in Things : holders'[x] \subseteq holders[x]

Next == Release \/ \E x \in Things, h \in Takers : Take(x, h)

Spec == Init /\ [][Next]_holders
=============================================================================
