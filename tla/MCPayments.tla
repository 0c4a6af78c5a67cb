----------------------------- MODULE MCPayments -----------------------------
(***************************************************************************)
(* Instances of Payments for TLC.                                          *)
(***************************************************************************)
EXTENDS Payments, TLC

\* An invoice that owes, and one that adjustments have turned into a credit.
MCTotals == {2, -1}

Symmetry == Permutations(Invoices) \cup Permutations(Payments) \cup Permutations(Workers)
=============================================================================
