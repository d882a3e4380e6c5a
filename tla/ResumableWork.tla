---------------------------- MODULE ResumableWork ----------------------------
(***************************************************************************)
(* What a stage of the pipeline promises that does its work unit by unit,  *)
(* over many runs, each of which may end anywhere: the results it saves,   *)
(* the units a later run will not do again, and whether the last run says  *)
(* that all is done.                                                       *)
(***************************************************************************)
EXTENDS Naturals, FiniteSets

CONSTANTS Units, Tolerance

VARIABLES saved,    \* units whose results are on disk
          kept,     \* units that every later run goes on from
          certified \* the last run ended in success

vars == <<saved, kept, certified>>

Init == saved = {} /\ kept = {} /\ ~certified

\* A run begins, or fails.
Resume == certified' = FALSE /\ UNCHANGED <<saved, kept>>

\* The results are replaced, and may be fewer, but those of kept units stay.
Save ==
    /\ ~certified'
    /\ saved' \subseteq Units
    /\ kept \subseteq saved'
    /\ UNCHANGED kept

\* More units are kept, whose results are there.
Keep ==
    /\ ~certified'
    /\ kept \subseteq kept'
    /\ kept' \subseteq saved
    /\ UNCHANGED saved

Certify ==
    /\ Cardinality(Units \ saved) <= Tolerance
    /\ certified'
    /\ UNCHANGED <<saved, kept>>

Next == Resume \/ Save \/ Keep \/ Certify

Spec == Init /\ [][Next]_vars
=============================================================================
