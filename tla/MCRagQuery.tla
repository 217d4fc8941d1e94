------------------------------ MODULE MCRagQuery ------------------------------
(***************************************************************************)
(* An instance of RagQuery for TLC.                                        *)
(***************************************************************************)
EXTENDS RagQuery, TLC

CONSTANTS w1, w2

AlikeWorkers == Permutations({w1, w2})
===============================================================================
