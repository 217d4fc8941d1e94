--------------------------- MODULE MCQuotaMetering ---------------------------
(***************************************************************************)
(* Instances of QuotaMetering for TLC.                                     *)
(***************************************************************************)
EXTENDS QuotaMetering, TLC

Symmetry == Permutations(Slots) \cup Permutations(Openings)

LimitTwo == [p \in Metered |-> 2]
=============================================================================
