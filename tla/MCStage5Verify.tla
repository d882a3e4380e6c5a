--------------------------- MODULE MCStage5Verify ---------------------------
(***************************************************************************)
(* Two checkpoints of Stage 4 with the ids 1 to 4 and 2 to 5.  The FB 2    *)
(* has another text under its id in the second.  Every second FB makes a   *)
(* checkpoint, so that a process writes two before it ends.                *)
(***************************************************************************)
EXTENDS Stage5Verify

FB(i, t) == [id |-> i, text |-> t]
MCOf(v) == IF v = 1 THEN {FB(i, 1) : i \in 1..4}
                    ELSE {FB(2, 2)} \cup {FB(i, 1) : i \in 3..5}
MCFBs == MCOf(1) \cup MCOf(2)
=============================================================================
