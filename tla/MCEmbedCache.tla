---------------------------- MODULE MCEmbedCache ----------------------------
(***************************************************************************)
(* Three batches, of which one may be dropped.  State sizes are the number *)
(* of done batches, so that the 10% of the shrink guard is less than one   *)
(* batch; the clusters of the second corpus are half those of the first.   *)
(***************************************************************************)
EXTENDS EmbedCache, TLC

MCClusterBytes(c) == IF c = 1 THEN 10 ELSE 5

Symmetry == Permutations(Batches)
=============================================================================
