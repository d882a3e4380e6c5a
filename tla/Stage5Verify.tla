---------------------------- MODULE Stage5Verify ----------------------------
(***************************************************************************)
(* Stage 5 of the pipeline (stage5_verify.py, run_stage5): the FBs of      *)
(* Stage 4 are verified one after the other, and every few of them all     *)
(* that are verified so far replace the checkpoint.                        *)
(*                                                                         *)
(* A process reads the FBs, compares the fingerprint beside the checkpoint *)
(* with that of its input, and only then takes the lock of BUG-361 that is *)
(* to keep a second writer out: it looks for the lock, removes a stale one *)
(* and writes its own in separate steps, so that two that look at the same *)
(* moment may both take it.  With equal fingerprints it resumes, else it   *)
(* moves the checkpoint away, then the fingerprint, and writes its own     *)
(* before it verifies.  A killed process leaves the lock.                  *)
(*                                                                         *)
(* The runner starts Stage 5 once Stage 4 has ended, so that the input is  *)
(* replaced only while no process runs.                                    *)
(***************************************************************************)
EXTENDS Naturals, FiniteSets

CONSTANTS Procs,
          Inputs,      \* the checkpoints of Stage 4, one after the other
          Of(_),       \* the FBs of one
          FBs,         \* [id, text]: the id stays when the rest of the FB changes
          Every,       \* S5_CHECKPOINT_INTERVAL (50)
          Codes,       \* versions of the code and configuration of the stage
          MaxCrashes,  \* bound on killed processes
          Absent, Gone \* no file; the pid of a process that is no more

VARIABLES input, code,
          ckpt,       \* the FBs in the checkpoint
          print,      \* .input_fingerprint.json
          lock,
          pc,
          mismatch,   \* _fp_mismatch
          verified,
          left,       \* FBs still to verify
          count,      \* FBs verified by this process, modulo Every
          raced,      \* history: two processes have been between look and lock at once
          crashes

given == <<input, code>>
disk == <<ckpt, print, lock>>
memory == <<mismatch, verified, left, count>>
vars == <<given, disk, pc, memory, raced, crashes>>

Fingerprint == [input : Inputs, code : Codes]

ASSUME SetsAssumption ==
    /\ Inputs \subseteq Nat /\ 1 \in Inputs
    /\ Codes \subseteq Nat /\ 1 \in Codes
    /\ FBs \subseteq [id : Nat, text : Nat] /\ IsFiniteSet(FBs)
    /\ \A v \in Inputs : Of(v) \subseteq FBs /\ \A f, g \in Of(v) : f.id = g.id => f = g
    /\ Absent \notin Procs \cup Fingerprint /\ Gone \notin Procs /\ Absent # Gone
    /\ \A fbs \in SUBSET FBs : fbs # Absent
ASSUME LimitsAssumption == Every \in Nat \ {0} /\ MaxCrashes \in Nat

Places == {"idle", "loaded", "compared", "stale", "taking", "locked", "archived", "print",
           "verify", "tick", "leaving"}

TypeOK ==
    /\ input \in Inputs /\ code \in Codes
    /\ ckpt # Absent => ckpt \subseteq FBs
    /\ print # Absent => print \in Fingerprint
    /\ lock \in Procs \cup {Absent, Gone}
    /\ pc \in [Procs -> Places]
    /\ mismatch \in [Procs -> BOOLEAN]
    /\ verified \in [Procs -> SUBSET FBs] /\ left \in [Procs -> SUBSET FBs]
    /\ \A p \in Procs : {f.id : f \in verified[p]} \cap {f.id : f \in left[p]} = {}
    /\ count \in [Procs -> 0..(Every - 1)]
    /\ raced \in BOOLEAN /\ crashes \in 0..MaxCrashes

Init ==
    /\ input = 1 /\ code = 1
    /\ ckpt = Absent /\ print = Absent /\ lock = Absent
    /\ pc = [p \in Procs |-> "idle"]
    /\ mismatch = [p \in Procs |-> FALSE]
    /\ verified = [p \in Procs |-> {}] /\ left = [p \in Procs |-> {}]
    /\ count = [p \in Procs |-> 0]
    /\ raced = FALSE /\ crashes = 0

Goes(p, from, to) == pc[p] = from /\ pc' = [pc EXCEPT ![p] = to]

Ends(p) ==
    /\ pc' = [pc EXCEPT ![p] = "idle"]
    /\ mismatch' = [mismatch EXCEPT ![p] = FALSE]
    /\ verified' = [verified EXCEPT ![p] = {}]
    /\ left' = [left EXCEPT ![p] = {}]
    /\ count' = [count EXCEPT ![p] = 0]

Idle == \A p \in Procs : pc[p] = "idle"

\* Stage 4 writes another checkpoint.
NewInput ==
    /\ Idle
    /\ input + 1 \in Inputs
    /\ input' = input + 1
    /\ UNCHANGED <<code, disk, pc, memory, raced, crashes>>

Upgrade ==
    /\ Idle
    /\ code + 1 \in Codes
    /\ code' = code + 1
    /\ UNCHANGED <<input, disk, pc, memory, raced, crashes>>

\* Killed, without its atexit handlers; the fingerprint, which is written in
\* place, may be left unreadable.
Crash(p) ==
    /\ pc[p] # "idle"
    /\ crashes < MaxCrashes
    /\ crashes' = crashes + 1
    /\ lock' = IF lock = p THEN Gone ELSE lock
    /\ print' \in (IF pc[p] = "print" THEN {print, Absent} ELSE {print})
    /\ Ends(p)
    /\ UNCHANGED <<given, ckpt, raced>>

-----------------------------------------------------------------------------
(* Reading the input and taking the lock *)

Load(p) ==
    /\ Goes(p, "idle", "loaded")
    /\ left' = [left EXCEPT ![p] = Of(input)]
    /\ UNCHANGED <<given, disk, mismatch, verified, count, raced, crashes>>

Current == [input |-> input, code |-> code]

\* Mutation: the fingerprint leaves the input out.
ComparesCode(p) ==
    /\ Goes(p, "loaded", "compared")
    /\ mismatch' = [mismatch EXCEPT ![p] = print = Absent \/ print.code # code]
    /\ UNCHANGED <<given, disk, verified, left, count, raced, crashes>>

\* No fingerprint is another fingerprint.
Compare(p) ==
    /\ Goes(p, "loaded", "compared")
    /\ mismatch' = [mismatch EXCEPT ![p] = print # Current]
    /\ UNCHANGED <<given, disk, verified, left, count, raced, crashes>>

\* Mutation: a stale lock is not reclaimed.
FreeAbsent == lock = Absent

\* Mutation: the holder is not asked for.
FreeAlways == TRUE

Free == lock \in {Absent, Gone}

Refuse(p) ==
    /\ pc[p] = "compared" /\ ~Free
    /\ Ends(p)
    /\ UNCHANGED <<given, disk, raced, crashes>>

Taking == {p \in Procs : pc[p] \in {"stale", "taking"}}

\* There is no lock, or it names a dead process...
FindFree(p) ==
    /\ Goes(p, "compared", IF lock = Absent THEN "taking" ELSE "stale")
    /\ Free
    /\ raced' = (raced \/ Taking # {})
    /\ UNCHANGED <<given, disk, memory, crashes>>

\* ...and is removed, whoever has written it by now.
Reclaim(p) ==
    /\ Goes(p, "stale", "taking")
    /\ lock' = Absent
    /\ UNCHANGED <<given, ckpt, print, memory, raced, crashes>>

WriteLock(p) ==
    /\ Goes(p, "taking", "locked")
    /\ lock' = p
    /\ UNCHANGED <<given, ckpt, print, memory, raced, crashes>>

-----------------------------------------------------------------------------
(* Resuming *)

IdsOf(fbs) == {f.id : f \in fbs}

Saved == IF ckpt = Absent THEN {} ELSE ckpt

\* The records of the checkpoint are kept, and FBs with their ids are left out.
\* (The guard against a checkpoint without one id of the input has nothing to do
\* where the fingerprints are equal.)
Resume(p) ==
    /\ Goes(p, "locked", "print")
    /\ ckpt # Absent => ~mismatch[p]
    /\ verified' = [verified EXCEPT ![p] = Saved]
    /\ left' = [left EXCEPT ![p] = {f \in @ : f.id \notin IdsOf(verified'[p])}]
    /\ UNCHANGED <<given, disk, mismatch, count, raced, crashes>>

\* Mutation: the new fingerprint is there before the old checkpoint is gone.
PrintFirst(p) ==
    /\ Goes(p, "locked", "archived")
    /\ ckpt # Absent /\ mismatch[p]
    /\ print' = Current
    /\ UNCHANGED <<given, ckpt, lock, memory, raced, crashes>>

\* BUG-206: a stale checkpoint is moved away, and then its fingerprint is.
Archive(p) ==
    /\ Goes(p, "locked", "archived")
    /\ ckpt # Absent /\ mismatch[p]
    /\ ckpt' = Absent
    /\ UNCHANGED <<given, print, lock, memory, raced, crashes>>

ArchivePrint(p) ==
    /\ Goes(p, "archived", "print")
    /\ print' = Absent
    /\ UNCHANGED <<given, ckpt, lock, memory, raced, crashes>>

\* Hashed anew.  A write that fails, before or after it emptied the file, is
\* reported and goes no further.
WritePrint(p) ==
    /\ Goes(p, "print", "verify")
    /\ print' \in {Current, print, Absent}
    /\ UNCHANGED <<given, ckpt, lock, memory, raced, crashes>>

-----------------------------------------------------------------------------
(* The loop *)

\* Mutation: the counter of the loop runs on.
VerifyOn(p) ==
    /\ pc[p] = "verify"
    /\ \E f \in left[p] :
          /\ \A g \in left[p] : f.id <= g.id
          /\ left' = [left EXCEPT ![p] = @ \ {f}]
          /\ verified' = [verified EXCEPT ![p] = @ \cup {f}]
    /\ count' = [count EXCEPT ![p] = @ + 1]
    /\ pc' = [pc EXCEPT ![p] = IF count'[p] = 0 THEN "tick" ELSE "verify"]
    /\ UNCHANGED <<given, disk, mismatch, raced, crashes>>

Verify(p) ==
    /\ pc[p] = "verify"
    /\ \E f \in left[p] :
          /\ \A g \in left[p] : f.id <= g.id
          /\ left' = [left EXCEPT ![p] = @ \ {f}]
          /\ verified' = [verified EXCEPT ![p] = @ \cup {f}]
    /\ count' = [count EXCEPT ![p] = (@ + 1) % Every]
    /\ pc' = [pc EXCEPT ![p] = IF count'[p] = 0 THEN "tick" ELSE "verify"]
    /\ UNCHANGED <<given, disk, mismatch, raced, crashes>>

\* The checkpoint that would replace the present one is over a tenth smaller, which
\* safe_write refuses.
Shrinks(p) == 10 * Cardinality(verified[p]) < 9 * Cardinality(Saved)

\* Mutation: only what this process verified is written.
TickOwn(p) ==
    /\ Goes(p, "tick", "verify")
    /\ ckpt' = verified[p] \ Saved
    /\ UNCHANGED <<given, print, lock, memory, raced, crashes>>

Tick(p) ==
    /\ Goes(p, "tick", "verify")
    /\ ~Shrinks(p)
    /\ ckpt' = verified[p]
    /\ UNCHANGED <<given, print, lock, memory, raced, crashes>>

Finish(p) ==
    /\ left[p] = {}
    /\ Goes(p, "verify", "leaving")
    /\ ~Shrinks(p)
    /\ ckpt' = verified[p]
    /\ UNCHANGED <<given, print, lock, memory, raced, crashes>>

\* Another writer is further on: the write raises, and the process ends.
WriteRefused(p) ==
    /\ pc[p] = "tick" \/ (pc[p] = "verify" /\ left[p] = {})
    /\ Shrinks(p)
    /\ lock' = Absent
    /\ Ends(p)
    /\ UNCHANGED <<given, ckpt, print, raced, crashes>>

\* atexit: the lock is removed, whoever it names.
Leave(p) ==
    /\ pc[p] = "leaving"
    /\ lock' = Absent
    /\ Ends(p)
    /\ UNCHANGED <<given, ckpt, print, raced, crashes>>

\* --adopt-fingerprint: where only the code differs, the fingerprint is written
\* anew, without the lock.
Adopt ==
    /\ print # Absent /\ print.input = input /\ print # Current
    /\ print' = Current
    /\ UNCHANGED <<given, ckpt, lock, pc, memory, raced, crashes>>

Run(p) ==
    \/ Load(p) \/ Compare(p) \/ Refuse(p) \/ FindFree(p) \/ Reclaim(p) \/ WriteLock(p)
    \/ Resume(p) \/ Archive(p) \/ ArchivePrint(p) \/ WritePrint(p)
    \/ Verify(p) \/ Tick(p) \/ Finish(p) \/ WriteRefused(p) \/ Leave(p)

Next ==
    \/ \E p \in Procs : Run(p) \/ Crash(p)
    \/ Adopt \/ NewInput \/ Upgrade

Spec == Init /\ [][Next]_vars

\* The stage is started again and again, and no process stands still.
FairSpec == Spec /\ \A p \in Procs : WF_vars(Run(p))

-----------------------------------------------------------------------------
(* Properties *)

Writers == {p \in Procs : pc[p] \in {"locked", "archived", "print", "verify", "tick", "leaving"}}

\* BUG-361: "at most ONE S5 writer may hold a checkpoint", over killed holders and
\* whatever a process read before it had the lock; and the lock names it.  It holds until
\* two processes are between their look for the lock and their write of it at once.
OneWriter == ~raced => \A p \in Writers : lock = p

\* What a resume would go on from is of the FBs Stage 4 has now, their text
\* included (D2485: the fingerprint "hard-discards any S5 checkpoint whose input
\* fingerprint differs"), even when several processes write.
ResumesOwnInput == ckpt # Absent /\ print # Absent /\ print.input = input => ckpt \subseteq Of(input)

\* A kill costs less than a checkpoint interval, and no write is ever smaller than
\* the file it replaces, which the shrink guard would refuse (D2409, BUG-206), as long
\* as the lock has kept other writers out.
LosesLittle ==
    \A p \in Procs : ~raced /\ pc[p] \in {"verify", "tick"} =>
        /\ Saved \subseteq verified[p]
        /\ Cardinality(verified[p] \ Saved) <= (IF pc[p] = "tick" THEN Every ELSE Every - 1)

\* A process that comes to its end leaves every FB of Stage 4 verified once, as long as
\* the lock has kept other writers out.
CompletesWhole == \A p \in Procs : ~raced /\ pc[p] = "leaving" => ckpt = Of(input)

\* Started again and again, the stage completes again and again, whoever was killed
\* with the lock in hand, and whoever took the lock at the same time.
Completes == []<>(\E p \in Procs : pc[p] = "leaving")
-----------------------------------------------------------------------------
(* The inductive invariant *)

\* Whoever is between its look and its write is alone, and nobody writes.
TakingAlone ==
    ~raced => \A p \in Taking :
        /\ lock \in {Absent, Gone} /\ Writers = {}
        /\ pc[p] = "taking" => lock = Absent
        /\ \A q \in Taking : q = p

\* No fingerprint is of an input that is still to come.
PrintsPast == print # Absent => print.input <= input

OwnCheckpoint == Saved \subseteq Of(input)

\* What a process has in memory, and what it knows of the checkpoint.  One that has
\* found its own fingerprint knows that the checkpoint is of its input, and goes on
\* knowing it while another one writes: that one has the same input.
Knows(p) ==
    /\ pc[p] = "idle" => verified[p] = {} /\ left[p] = {} /\ count[p] = 0
    /\ pc[p] \in {"loaded", "compared", "stale", "taking", "locked", "archived"} =>
          verified[p] = {} /\ left[p] = Of(input) /\ count[p] = 0
    /\ pc[p] \in {"compared", "stale", "taking", "locked"} /\ ~mismatch[p] => OwnCheckpoint
    /\ pc[p] \in {"archived", "print", "verify", "tick", "leaving"} => OwnCheckpoint
    /\ pc[p] \in {"print", "verify", "tick"} => verified[p] \cup left[p] = Of(input)
    /\ pc[p] \in {"print", "tick"} => count[p] = 0

\* What it knows besides when it is the only writer.
KnowsAlone(p) ==
    /\ pc[p] = "archived" => ckpt = Absent
    /\ pc[p] = "print" => verified[p] = Saved
    /\ pc[p] = "verify" => Cardinality(verified[p] \ Saved) <= count[p]
    /\ pc[p] = "tick" => Cardinality(verified[p] \ Saved) <= Every
    /\ pc[p] \in {"verify", "tick"} => Saved \subseteq verified[p]
    /\ pc[p] = "leaving" => ckpt = Of(input)

IInv ==
    /\ OneWriter /\ TakingAlone /\ PrintsPast /\ ResumesOwnInput
    /\ \A p \in Procs : Knows(p) /\ (~raced => KnowsAlone(p))

-----------------------------------------------------------------------------
(* What the lock promises *)

\* The work on the checkpoint, from its resume or removal to its last write.
Working == {p \in Procs : pc[p] \in {"archived", "print", "verify", "tick"}}

Exclusive == INSTANCE ExclusiveRuns
    WITH Pids <- Procs, runs <- Writers, stages <- Working, clean <- TRUE

\* BUG-361, as the checkpoint sees it: work on it begins and ends within one
\* process's hold on it, however many are started, refused and killed, until two look
\* for the lock at once; and other than the stage of a killed runner, it always dies
\* with its process.
WritersExclude == Exclusive!Spec
=============================================================================
