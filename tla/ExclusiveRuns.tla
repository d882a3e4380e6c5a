---------------------------- MODULE ExclusiveRuns ----------------------------
(***************************************************************************)
(* What a lock file on the pipeline promises to the checkpoints: one run   *)
(* at a time, which ends after its stage, and one stage at a time as long  *)
(* as no kill has left one behind.  From then on only the runs exclude     *)
(* each other; and once two starts have looked for the lock at the same    *)
(* time nothing excludes anything, but a run still ends after its stage    *)
(* and no end or kill takes another run with it.                           *)
(***************************************************************************)
CONSTANT Pids

VARIABLES runs,    \* processes that hold the run
          stages,  \* processes whose stage is alive
          clean,   \* no stage was left behind
          raced    \* two starts have overlapped

vars == <<runs, stages, clean, raced>>

Init == runs = {} /\ stages = {} /\ clean = TRUE /\ raced = FALSE

Acquire(p) ==
    /\ raced \/ runs = {}
    /\ clean => raced \/ stages = {}
    /\ runs' = runs \cup {p}
    /\ UNCHANGED <<stages, clean, raced>>

StartStage(p) ==
    /\ p \in runs
    /\ p \notin stages
    /\ clean => raced \/ stages = {}
    /\ stages' = stages \cup {p}
    /\ UNCHANGED <<runs, clean, raced>>

EndStage(p) ==
    /\ p \in stages
    /\ stages' = stages \ {p}
    /\ UNCHANGED <<runs, clean, raced>>

\* A run ends by itself when its stage has ended.
Release(p) ==
    /\ p \in runs
    /\ p \notin stages
    /\ runs' = runs \ {p}
    /\ UNCHANGED <<stages, clean, raced>>

\* A kill or an error ends the run of the process, if it has one, and its stage with it
\* or not.
Kill(p) ==
    /\ runs' = runs \ {p}
    /\ \/ stages' = stages \ {p} /\ UNCHANGED clean
       \/ UNCHANGED stages /\ ~clean'
    /\ UNCHANGED raced

Race ==
    /\ raced' = TRUE
    /\ UNCHANGED <<runs, stages, clean>>

Next ==
    \/ \E p \in Pids : Acquire(p) \/ StartStage(p) \/ EndStage(p) \/ Release(p) \/ Kill(p)
    \/ Race

Spec == Init /\ [][Next]_vars
=============================================================================
