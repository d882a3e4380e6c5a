--------------------------- MODULE MCStage6Commit ---------------------------
(***************************************************************************)
(* Three outputs.  The FB 1 is in the first two, with another verdict and  *)
(* another source in the second; 2 comes with the second and has the name  *)
(* and the concept of 1; 3 is a tool instruction of all of them.  The      *)
(* third output is one FB short, so that the record would shrink after the *)
(* second, and its tier has no growth edges, so that the non-FB receipt    *)
(* would shrink after the first.  The receipt of the gate has two thirds   *)
(* of its size without the FB that it lists.                               *)
(***************************************************************************)
EXTENDS Stage6Commit

FB(i, v, ss) == [id |-> i, verdict |-> v, sources |-> ss]
MCOf(v) == CASE v = 1 -> {FB(1, 1, {1}), FB(3, 0, {3})}
             [] v = 2 -> {FB(1, 2, {1, 4}), FB(2, 1, {2}), FB(3, 0, {3})}
             [] v = 3 -> {FB(2, 1, {2}), FB(3, 0, {3})}
MCFBs == UNION {MCOf(v) : v \in Inputs}
MCNameOf(i) == IF i = 3 THEN 2 ELSE 1
MCTierSize(v, stored) == (IF v = 3 THEN 16 ELSE 20) + (IF stored = {} THEN 1 ELSE 0)
MCGateSize(fbs) == 10 + 5 * Cardinality(fbs)
=============================================================================
