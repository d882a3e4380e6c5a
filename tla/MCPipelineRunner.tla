-------------------------- MODULE MCPipelineRunner --------------------------
(***************************************************************************)
(* A pipeline of six stages, one of each kind: 1 and 2 convert and chunk   *)
(* the corpus in one write each, 3 is Stage 1.3 and rewrites 2's           *)
(* checkpoint, 4 clusters in one write (Stage 1.5), 5 is LLM-bound and     *)
(* writes as it goes (Stage 2), 6 writes once (Stage 6).                   *)
(***************************************************************************)
EXTENDS PipelineRunner

MCLlm         == {5}
MCIncremental == {5}
MCRepeatable  == {3}
MCGuarded     == {1, 2, 4, 6}

\* Books 1 lose a twentieth to Stage 1.3.  Books 2 are fewer: too few to replace what
\* books 1 left.  Books 3 are many, and half of them is garbage: Stage 1.3 cannot write.
MCSize(s, c) ==
    IF c.filt THEN <<19, 13, 10>>[c.ver] ELSE <<20, 14, 20>>[c.ver]

\* Defaults, or defaults with --stop-after.
AutoInvocations == {Plain, [Plain EXCEPT !.stop = 3]}

\* Explicit restarts, single stages and smoke runs as well.
ForcedInvocations ==
    {Plain, [Plain EXCEPT !.resume = 1], [Plain EXCEPT !.resume = 4],
     [Plain EXCEPT !.list = <<2, 3>>],
     [Plain EXCEPT !.mode = "smoke"], [Plain EXCEPT !.mode = "plumbing"]}
=============================================================================
