--------------------------- MODULE MCStage2Extract ---------------------------
(***************************************************************************)
(* Three targets: two clusters of Stage 1.5 and a sub-cluster of a split   *)
(* one; two of them are about the same principle, one is about both.  With *)
(* a checkpoint every second cluster there is one that no tick covers.     *)
(***************************************************************************)
EXTENDS Stage2Extract

CONSTANTS c1, c2, c3, p, q

MCYield(c) == CASE c = c1 -> {p}
                [] c = c2 -> {p, q}
                [] c = c3 -> {}
=============================================================================
