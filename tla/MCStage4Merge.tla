---------------------------- MODULE MCStage4Merge ----------------------------
(***************************************************************************)
(* Two outputs of Stage 2.  Cluster 2 has two principles in the first and  *)
(* one of them in the second; cluster 3 has two in the second, of which    *)
(* one is that of cluster 2.  A checkpoint every second cluster leaves     *)
(* units in each that no tick covers.                                      *)
(***************************************************************************)
EXTENDS Stage4Merge

MCOf(v) == IF v = 1 THEN 1..3 ELSE {2, 4, 5}
MCClusterOf(u) == CASE u = 1 -> 1 [] u \in {2, 3} -> 2 [] u \in {4, 5} -> 3
MCIdOf(u) == CASE u = 1 -> "a" [] u \in {2, 5} -> "b" [] u = 3 -> "c" [] u = 4 -> "x"
=============================================================================
