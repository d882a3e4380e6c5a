----------------------------- MODULE RunnerLock -----------------------------
(***************************************************************************)
(* The singleton lock of pipeline/runner.py (_acquire_singleton_lock): a   *)
(* file with the holder's pid, checked, reclaimed and written in separate  *)
(* steps by every runner that starts, unlinked by atexit when it ends, and *)
(* left behind when it is killed.  The stage a runner is waiting for is a  *)
(* child process, which a signal sent to the runner alone does not reach.  *)
(*                                                                         *)
(* A process is named by its pid.  A pid that is free again can go to a    *)
(* new runner or to a process that has nothing to do with the pipeline.    *)
(***************************************************************************)
EXTENDS Naturals, FiniteSets

CONSTANTS Pids,
          Inodes,    \* files the lock path may lead to, one after the other
          None,
          MaxStarting, \* bound on runners that start at once
          MaxKills,  \* bound on runners killed
          MaxReuses  \* bound on pids that go to a foreign process

VARIABLES pc,      \* what the process with this pid is doing
          link,    \* the file the lock path leads to
          text,    \* text[f]: the pid written in file f, None while it is empty
          fd,      \* fd[p]: the file p has open for writing
          held,    \* held[p]: the pid p has read from the lock
          child,   \* child[p]: p's stage process is alive
          raced,   \* history: two runners have been between look and lock at once
          kills,   \* runners killed so far
          reuses   \* foreign processes so far

vars == <<pc, link, text, fd, held, child, raced, kills, reuses>>

Looking  == {"read", "probe", "reclaim", "open", "write"}
Starting == {"check"} \cup Looking
States   == {"free", "foreign", "holding"} \cup Starting

ASSUME PidsAssumption == IsFiniteSet(Pids) /\ None \notin Pids \cup Inodes
ASSUME InodesAssumption == Cardinality(Inodes) > Cardinality(Pids)
ASSUME LimitsAssumption == MaxStarting \in Nat /\ MaxKills \in Nat /\ MaxReuses \in Nat

TypeOK ==
    /\ pc \in [Pids -> States]
    /\ link \in Inodes \cup {None}
    /\ text \in [Inodes -> Pids \cup {None}]
    /\ fd \in [Pids -> Inodes \cup {None}]
    /\ held \in [Pids -> Pids \cup {None}]
    /\ child \in [Pids -> BOOLEAN]
    /\ raced \in BOOLEAN
    /\ kills \in 0..MaxKills
    /\ reuses \in 0..MaxReuses

Init ==
    /\ pc = [p \in Pids |-> "free"]
    /\ link = None
    /\ text = [f \in Inodes |-> None]
    /\ fd = [p \in Pids |-> None]
    /\ held = [p \in Pids |-> None]
    /\ child = [p \in Pids |-> FALSE]
    /\ raced = FALSE
    /\ kills = 0
    /\ reuses = 0

Goes(p, from, to) == pc[p] = from /\ pc' = [pc EXCEPT ![p] = to]

\* The process is gone: the kernel closes its file.
Exits(p) ==
    /\ pc' = [pc EXCEPT ![p] = "free"]
    /\ fd' = [fd EXCEPT ![p] = None]
    /\ held' = [held EXCEPT ![p] = None]

\* A file that no path leads to keeps no text: nobody will read it.
Unlink ==
    /\ link' = None
    /\ text' = [f \in Inodes |-> IF f = link THEN None ELSE text[f]]

Alive(p) == pc[p] # "free"

\* Nobody gets the pid of a process whose orphaned child still runs under its
\* process group.
Launch(p) ==
    /\ ~child[p]
    /\ Cardinality({q \in Pids : pc[q] \in Starting}) < MaxStarting
    /\ Goes(p, "free", "check")
    /\ UNCHANGED <<link, text, fd, held, child, raced, kills, reuses>>

ForeignStarts(p) ==
    /\ reuses < MaxReuses
    /\ ~child[p]
    /\ Goes(p, "free", "foreign")
    /\ reuses' = reuses + 1
    /\ UNCHANGED <<link, text, fd, held, child, raced, kills>>

ForeignEnds(p) ==
    /\ Goes(p, "foreign", "free")
    /\ UNCHANGED <<link, text, fd, held, child, raced, kills, reuses>>

\* lock_path.exists()
CheckLock(p) ==
    /\ Goes(p, "check", IF link = None THEN "open" ELSE "read")
    /\ raced' = (raced \/ \E q \in Pids : pc[q] \in Looking)
    /\ UNCHANGED <<link, text, fd, held, child, kills, reuses>>

\* Mutation: the path of the lock is taken for its content.
ReadPath(p) ==
    /\ Goes(p, "read", "probe")
    /\ held' = [held EXCEPT ![p] = link]
    /\ UNCHANGED <<link, text, fd, child, raced, kills, reuses>>

\* An empty lock, or one unlinked since it was seen, reads as no pid.
ReadLock(p) ==
    /\ Goes(p, "read", "probe")
    /\ held' = [held EXCEPT ![p] = IF link = None THEN None ELSE text[link]]
    /\ UNCHANGED <<link, text, fd, child, raced, kills, reuses>>

\* Mutation: the holder's liveness is not asked for.
IgnoreHolder(p) == FALSE

\* os.kill(held, 0): any process with that pid counts, p itself too.
HolderAlive(p) == held[p] # None /\ Alive(held[p])

Refuse(p) ==
    /\ pc[p] = "probe"
    /\ HolderAlive(p)
    /\ Exits(p)
    /\ UNCHANGED <<link, text, child, raced, kills, reuses>>

\* ...and a process of another user, which may not be signalled, counts as gone:
\* PermissionError is an OSError.
FindStale(p) ==
    /\ HolderAlive(p) => pc[held[p]] = "foreign"
    /\ Goes(p, "probe", "reclaim")
    /\ UNCHANGED <<link, text, fd, held, child, raced, kills, reuses>>

\* Mutation: the stale lock is refused like a live one.
KeepStale(p) ==
    /\ pc[p] = "reclaim"
    /\ Exits(p)
    /\ UNCHANGED <<link, text, child, raced, kills, reuses>>

\* unlink(missing_ok=True): whatever file the path leads to by now.
Reclaim(p) ==
    /\ Goes(p, "reclaim", "open")
    /\ Unlink
    /\ UNCHANGED <<fd, held, child, raced, kills, reuses>>

\* write_text opens the path first: an existing file is truncated, a missing
\* one is created.
OpenLock(p) ==
    /\ Goes(p, "open", "write")
    /\ \E f \in Inodes :
          /\ IF link # None THEN f = link
             ELSE f = CHOOSE g \in Inodes : \A q \in Pids : fd[q] # g
          /\ link' = f
          /\ text' = [text EXCEPT ![f] = None]
          /\ fd' = [fd EXCEPT ![p] = f]
    /\ UNCHANGED <<held, child, raced, kills, reuses>>

\* Mutation: the lock is written with no pid in it.
WriteNothing(p) ==
    /\ Goes(p, "write", "holding")
    /\ fd' = [fd EXCEPT ![p] = None]
    /\ UNCHANGED <<link, text, held, child, raced, kills, reuses>>

\* The pid goes to the file that was opened, which nobody reads if it was unlinked
\* meanwhile, and the unlinking is registered with atexit.
WriteLock(p) ==
    /\ Goes(p, "write", "holding")
    /\ text' = IF fd[p] = link THEN [text EXCEPT ![link] = p] ELSE text
    /\ fd' = [fd EXCEPT ![p] = None]
    /\ UNCHANGED <<link, held, child, raced, kills, reuses>>

StageStarts(p) ==
    /\ pc[p] = "holding"
    /\ ~child[p]
    /\ child' = [child EXCEPT ![p] = TRUE]
    /\ UNCHANGED <<pc, link, text, fd, held, raced, kills, reuses>>

\* The runner's stage or an orphaned one ends.
StageEnds(p) ==
    /\ child[p]
    /\ child' = [child EXCEPT ![p] = FALSE]
    /\ UNCHANGED <<pc, link, text, fd, held, raced, kills, reuses>>

\* Mutation: the runner does not wait for its stage.
ExitEarly(p) ==
    /\ pc[p] = "holding"
    /\ Exits(p)
    /\ Unlink
    /\ UNCHANGED <<child, raced, kills, reuses>>

\* The run is over, whatever its outcome: atexit unlinks the lock path.
ExitNormally(p) ==
    /\ pc[p] = "holding"
    /\ ~child[p]
    /\ Exits(p)
    /\ Unlink
    /\ UNCHANGED <<child, raced, kills, reuses>>

\* SIGKILL, SIGTERM or the OOM killer: no atexit, and the child lives on.
Killed(p) ==
    /\ kills < MaxKills
    /\ pc[p] \in Starting \cup {"holding"}
    /\ Exits(p)
    /\ kills' = kills + 1
    /\ UNCHANGED <<link, text, child, raced, reuses>>

AcquireStep(p) ==
    \/ CheckLock(p) \/ ReadLock(p) \/ Refuse(p) \/ FindStale(p)
    \/ Reclaim(p) \/ OpenLock(p) \/ WriteLock(p)

Next == \E p \in Pids :
    \/ Launch(p) \/ ForeignStarts(p) \/ ForeignEnds(p)
    \/ AcquireStep(p)
    \/ StageStarts(p) \/ StageEnds(p) \/ ExitNormally(p) \/ Killed(p)

Spec == Init /\ [][Next]_vars

\* A launched runner goes on, stages, runs and foreign processes end, and the
\* operator and the kernel keep launching runners under every free pid.
Fairness ==
    \A p \in Pids :
        /\ WF_vars(AcquireStep(p))
        /\ WF_vars(ForeignEnds(p))
        /\ WF_vars(StageEnds(p))
        /\ SF_vars(ExitNormally(p))
        /\ SF_vars(Launch(p))

FairSpec == Spec /\ Fairness

-----------------------------------------------------------------------------
(* Properties *)

Holders == {p \in Pids : pc[p] = "holding"}

\* BUG-602: "at most ONE pipeline runner may hold a run_id at a time", until two
\* runners are between their look for the lock and their write of it at once.
AtMostOneHolder == ~raced => Cardinality(Holders) <= 1

\* The lock names the runner that holds it for as long as it holds it, so that
\* the next start finds it and a kill of that pid stops the right process, until
\* two starts overlap.
LockNamesHolder == ~raced => \A p \in Holders : link # None /\ text[link] = p

\* Two stages never work on the checkpoints at once, unless a runner was killed
\* and left its stage behind (the duplicate-runner incident of BUG-602), or two starts
\* have overlapped.
StagesExclusive == ~raced /\ kills = 0 => Cardinality({p \in Pids : child[p]}) <= 1

\* Two runners start at once.
Overlap == \E p, q \in Pids : p # q /\ pc[p] \in Starting /\ pc[q] \in Starting

\* Neither a lock left by a dead runner, nor a torn lock, nor a pid that went to
\* another process, nor starts that overlapped keep the pipeline from starting for
\* ever, once starts no longer overlap: starts that go on overlapping can refuse each
\* other, each seen alive under the pid of a stale lock.
StartsAgain == []<>(Holders # {} \/ Overlap)
-----------------------------------------------------------------------------
(* The inductive invariant                                                   *)

\* One runner at a time is between its look and its lock.
Serial == ~raced => \A p, q \in Pids : pc[p] \in Looking /\ pc[q] \in Looking => p = q

\* It cannot miss a holder: it probes the holder's pid if there is a holder,
\* goes on only when there is none, and writes the file the path leads to.
NoRival ==
    ~raced => \A p \in Pids :
        /\ pc[p] = "probe" => \A q \in Holders : held[p] = q
        /\ pc[p] \in {"reclaim", "open", "write"} => Holders = {}
        /\ pc[p] = "write" => link = fd[p] /\ link # None

StagesHeld == kills = 0 => \A p \in Pids : child[p] => pc[p] = "holding"

IInv == Serial /\ LockNamesHolder /\ NoRival /\ StagesHeld

-----------------------------------------------------------------------------
(* What the lock promises *)

Exclusive == INSTANCE ExclusiveRuns
    WITH runs   <- Holders,
         stages <- {p \in Pids : child[p]},
         clean  <- (kills = 0)

\* BUG-602, as the pipeline sees it: whatever the lock file goes through, runs begin one
\* after the other until two starts overlap, and a stage starts beside no other unless a
\* runner was killed; each run ends after its stage, and no end or kill takes another
\* run with it, always.
IsExclusive == Exclusive!Spec
=============================================================================
