---------------------------- MODULE Stage2Extract ----------------------------
(***************************************************************************)
(* Stage 2 of the pipeline (stage2_extract.py, run_stage2): the workers of *)
(* a thread pool ask an LLM for the principles of one cluster each, while  *)
(* the main thread collects their Foundation Blocks (FBs) as they complete *)
(* and saves them every few clusters: first the checkpoint, then the ids   *)
(* of the clusters it covers (segids).  A restart resumes from both.       *)
(*                                                                         *)
(* The texts of two clusters about one principle are near-duplicates.  The *)
(* MinHash index finds an identical text for certain, a near-duplicate     *)
(* with high probability; only what it does not find gets a signature.     *)
(***************************************************************************)
EXTENDS Naturals, FiniteSets, Bags

CONSTANTS Clusters,     \* the targets, sub-clusters of split clusters included
          Unsplit,      \* those that are clusters of Stage 1.5 themselves
          Principles,
          Yield(_),     \* the principles the LLM finds in a cluster, {}: NULL
          Every,        \* clusters per incremental checkpoint (5 in the code)
          MaxFailed,    \* S2_MAX_FAILED_RATIO as a number of clusters
          Codes,        \* versions of the stage's code
          MaxCrashes,   \* bound on crashes
          MaxFailures,  \* bound on failed calls and writes
          Absent

VARIABLES code,       \* the code that is installed
          ckpt,       \* the checkpoint: a bag of FBs
          segids,     \* the clusters it covers
          sidecar,    \* its .code_fingerprint
          pc,         \* where the main thread is
          fbs,        \* all_fbs
          processed,  \* processed_ids
          index,      \* the texts in the MinHash index
          work,       \* work[c]: where cluster c is
          result,     \* result[c]: what its worker returns
          completed,  \* modulo Every
          failed,     \* failed_clusters
          exit,       \* exit code of the last run, Absent while one goes on
          crashes, failures

disk == <<ckpt, segids, sidecar>>
memory == <<fbs, processed, index, work, result, completed, failed>>
faults == <<crashes, failures>>
vars == <<code, disk, pc, memory, exit, faults>>

Text == [cluster : Clusters, principle : Principles]
FB   == [cluster : Clusters, principle : Principles, signed : BOOLEAN]

\* kind: the FBs and the number of principles that failed the schema; no answer
\* at all; or the circuit breaker was open.
Result == [kind : {"got"}, fbs : SUBSET FB, bad : Nat]
          \cup [kind : {"lost", "open"}, fbs : {{}}, bad : {0}]

ASSUME SetsAssumption ==
    /\ IsFiniteSet(Clusters) /\ Unsplit \subseteq Clusters
    /\ \A c \in Clusters : Yield(c) \subseteq Principles /\ IsFiniteSet(Yield(c))
    /\ Codes \subseteq Nat /\ 1 \in Codes
    /\ Absent \notin Nat \cup Result
    /\ \A S \in SUBSET FB : Absent \notin [S -> Nat]
    /\ \A cs \in SUBSET Clusters : Absent # cs
ASSUME LimitsAssumption ==
    /\ Every \in Nat \ {0} /\ MaxFailed \in Nat
    /\ MaxCrashes \in Nat /\ MaxFailures \in Nat

IsBagOf(b, S) == IsABag(b) /\ BagToSet(b) \subseteq S

TypeOK ==
    /\ code \in Codes
    /\ ckpt # Absent => IsBagOf(ckpt, FB)
    /\ segids # Absent => segids \subseteq Clusters
    /\ sidecar \in Codes \cup {Absent}
    /\ pc \in {"idle", "extract", "ckpt", "segids", "sidecar", "final", "exit"}
    /\ IsBagOf(fbs, FB)
    /\ processed \subseteq Clusters
    /\ index \subseteq Text
    /\ work \in [Clusters -> {"out", "queued", "ready", "handled"}]
    /\ result \in [Clusters -> Result \cup {Absent}]
    /\ \A c \in Clusters : work[c] = "ready" <=> result[c] # Absent
    /\ completed \in 0..(Every - 1)
    /\ failed \in Nat
    /\ exit \in {0, 1, Absent}
    /\ crashes \in 0..MaxCrashes /\ failures \in 0..MaxFailures

NoWork == [c \in Clusters |-> "out"]
NoResult == [c \in Clusters |-> Absent]

Init ==
    /\ code = 1
    /\ ckpt = Absent /\ segids = Absent /\ sidecar = Absent
    /\ pc = "idle"
    /\ fbs = EmptyBag /\ processed = {} /\ index = {}
    /\ work = NoWork /\ result = NoResult
    /\ completed = 0 /\ failed = 0
    /\ exit = Absent
    /\ crashes = 0 /\ failures = 0

Goes(from, to) == pc = from /\ pc' = to

\* The process is gone with its memory, which no later step reads.
Ends(how) ==
    /\ pc' = "idle"
    /\ fbs' = EmptyBag /\ processed' = {} /\ index' = {}
    /\ work' = NoWork /\ result' = NoResult
    /\ completed' = 0 /\ failed' = 0
    /\ exit' = how

Fails == failures < MaxFailures /\ failures' = failures + 1

Upgrade ==
    /\ pc = "idle"
    /\ code + 1 \in Codes
    /\ code' = code + 1
    /\ UNCHANGED <<disk, pc, memory, exit, faults>>

Crash ==
    /\ pc # "idle"
    /\ crashes < MaxCrashes
    /\ crashes' = crashes + 1
    /\ Ends(1)
    /\ UNCHANGED <<code, disk, failures>>

-----------------------------------------------------------------------------
(* Resuming *)

Saved == ckpt # Absent /\ segids # Absent

\* The processed clusters a resume goes on from.  When none of them is a cluster
\* of Stage 1.5, they are taken for another probe's and everything is discarded.
Resumable == IF Saved /\ segids \cap Unsplit # {} THEN segids ELSE {}

\* Mutation: the FBs are not loaded with the ids.
NoFBs == EmptyBag

\* The FBs that go with them, which segids without a cluster leave alone.
ResumedFBs == IF Saved /\ (segids = {} \/ Resumable # {}) THEN ckpt ELSE EmptyBag

TextOf(fb) == [cluster |-> fb.cluster, principle |-> fb.principle]

\* Mutation: the FBs are resumed, the ids are not.
ResumeFBsOnly ==
    /\ Saved => sidecar \in {Absent, code}
    /\ Goes("idle", "extract")
    /\ fbs' = ResumedFBs
    /\ processed' = {}
    /\ index' = {TextOf(fb) : fb \in {g \in BagToSet(fbs') : g.signed}}
    /\ work' = [c \in Clusters |-> "queued"]
    /\ exit' = Absent
    /\ UNCHANGED <<code, disk, result, completed, failed, faults>>

Start ==
    /\ Saved => sidecar \in {Absent, code}
    /\ Goes("idle", "extract")
    /\ fbs' = ResumedFBs
    /\ processed' = Resumable
    /\ index' = {TextOf(fb) : fb \in {g \in BagToSet(fbs') : g.signed}}
    /\ work' = [c \in Clusters |-> IF c \in processed' THEN "out" ELSE "queued"]
    /\ exit' = Absent
    /\ UNCHANGED <<code, disk, result, completed, failed, faults>>

\* check_stage_code_fingerprint raises, outside the try.
RefuseOtherCode ==
    /\ pc = "idle"
    /\ Saved /\ sidecar \notin {Absent, code}
    /\ exit' = 1
    /\ UNCHANGED <<code, disk, pc, memory, faults>>

-----------------------------------------------------------------------------
(* The workers (_process_cluster) *)

Returns(c, r) ==
    /\ pc # "idle"
    /\ work[c] = "queued"
    /\ work' = [work EXCEPT ![c] = "ready"]
    /\ result' = [result EXCEPT ![c] = r]
    /\ UNCHANGED <<code, disk, pc, fbs, processed, completed, failed, exit, crashes>>

\* is_near_duplicate: a signature for what the index does not find.
MaySign(t) ==
    IF t \in index THEN {FALSE}
    ELSE IF \E u \in index : u.principle = t.principle THEN BOOLEAN
    ELSE {TRUE}

\* The LLM answers; every principle that passes the schema becomes an FB.
Answered(c, good, signed) ==
    /\ \A p \in good : signed[p] \in MaySign([cluster |-> c, principle |-> p])
    /\ Returns(c, [kind |-> "got",
                   fbs  |-> {[cluster |-> c, principle |-> p, signed |-> signed[p]] : p \in good},
                   bad  |-> Cardinality(Yield(c) \ good)])
    /\ index' = index \cup {[cluster |-> c, principle |-> p] : p \in {q \in good : signed[q]}}

Extracted(c) ==
    /\ \E signed \in [Yield(c) -> BOOLEAN] : Answered(c, Yield(c), signed)
    /\ UNCHANGED failures

PartlyExtracted(c) ==
    /\ Fails
    /\ \E good \in SUBSET Yield(c) :
          /\ good # Yield(c)
          /\ \E signed \in [good -> BOOLEAN] : Answered(c, good, signed)

\* call_llm returns None or the worker raises; the breaker is open; or the answer
\* holds no JSON object, which is one failed record for the whole cluster.
NotExtracted(c) ==
    /\ Fails
    /\ \/ \E kind \in {"lost", "open"} : Returns(c, [kind |-> kind, fbs |-> {}, bad |-> 0])
       \/ Returns(c, [kind |-> "got", fbs |-> {}, bad |-> 1])
    /\ UNCHANGED index

-----------------------------------------------------------------------------
(* The main thread, over as_completed(futures) *)

\* Mutation: the count is not taken modulo Every.
TakesOn(c) ==
    /\ pc = "extract"
    /\ work[c] = "ready"
    /\ work' = [work EXCEPT ![c] = "handled"]
    /\ result' = [result EXCEPT ![c] = Absent]
    /\ completed' = completed + 1

Takes(c) ==
    /\ pc = "extract"
    /\ work[c] = "ready"
    /\ work' = [work EXCEPT ![c] = "handled"]
    /\ result' = [result EXCEPT ![c] = Absent]
    /\ completed' = (completed + 1) % Every

\* Post-collection dedup: signed FBs are compared with signed FBs.
Duplicate(fb) == fb.signed /\ \E g \in BagToSet(fbs) : g.signed /\ g.principle = fb.principle

Collect(c) ==
    /\ Takes(c)
    /\ result[c].kind = "got"
    /\ fbs' = fbs (+) SetToBag({fb \in result[c].fbs : ~Duplicate(fb)})
    /\ processed' = IF result[c].bad = 0 THEN processed \cup {c} ELSE processed
    /\ failed' = failed + result[c].bad
    /\ pc' = IF completed' = 0 THEN "ckpt" ELSE "extract"
    /\ UNCHANGED <<code, disk, index, exit, faults>>

\* Mutation: a cluster without an answer is skipped, as before D2331.
SkipSilently(c) ==
    /\ Takes(c)
    /\ result[c].kind = "lost"
    /\ UNCHANGED <<code, disk, pc, fbs, processed, index, failed, exit, faults>>

\* The `continue` of a failed cluster passes by the incremental checkpoint.
CollectFailure(c) ==
    /\ Takes(c)
    /\ result[c].kind = "lost"
    /\ failed' = failed + 1
    /\ UNCHANGED <<code, disk, pc, fbs, processed, index, exit, faults>>

\* The breaker is open: the checkpoint is written, its segids are not.
AbortRun(c) ==
    /\ pc = "extract"
    /\ work[c] = "ready" /\ result[c].kind = "open"
    /\ ckpt' = fbs
    /\ Ends(1)
    /\ UNCHANGED <<code, segids, sidecar, faults>>

\* Mutation: the ids go first.
WriteIdsFirst ==
    /\ Goes("ckpt", "segids")
    /\ segids' = processed
    /\ UNCHANGED <<code, ckpt, sidecar, memory, exit, faults>>

WriteCheckpoint ==
    /\ Goes("ckpt", "segids")
    /\ ckpt' = fbs
    /\ UNCHANGED <<code, segids, sidecar, memory, exit, faults>>

\* An exception while the ids are written is reported and goes no further.
WriteSegids ==
    /\ Goes("segids", "extract")
    /\ \/ segids' = processed /\ UNCHANGED failures
       \/ Fails /\ UNCHANGED segids
    /\ UNCHANGED <<code, ckpt, sidecar, memory, exit, crashes>>

AllHandled == \A c \in Clusters : work[c] \in {"out", "handled"}

\* The final write goes through the shrink guard of safe_write.
Shrinks == ckpt # Absent /\ 10 * BagCardinality(fbs) < 9 * BagCardinality(ckpt)

FinalCheckpoint ==
    /\ AllHandled /\ ~Shrinks
    /\ Goes("extract", "sidecar")
    /\ ckpt' = fbs
    /\ UNCHANGED <<code, segids, sidecar, memory, exit, faults>>

FinalRefused ==
    /\ pc = "extract" /\ AllHandled /\ Shrinks
    /\ Ends(1)
    /\ UNCHANGED <<code, disk, faults>>

WriteSidecar ==
    /\ Goes("sidecar", "final")
    /\ sidecar' = code
    /\ UNCHANGED <<code, ckpt, segids, memory, exit, faults>>

FinalSegids ==
    /\ Goes("final", "exit")
    /\ \/ segids' = processed /\ UNCHANGED failures
       \/ Fails /\ UNCHANGED segids
    /\ UNCHANGED <<code, ckpt, sidecar, memory, exit, crashes>>

\* Failures within the tolerance are accepted (accept_conditional).
Exit ==
    /\ pc = "exit"
    /\ Ends(IF failed <= MaxFailed THEN 0 ELSE 1)
    /\ UNCHANGED <<code, disk, faults>>

StageStep ==
    \/ Start \/ RefuseOtherCode
    \/ \E c \in Clusters : \/ Extracted(c)
                           \/ Collect(c) \/ CollectFailure(c) \/ AbortRun(c)
    \/ WriteCheckpoint \/ WriteSegids
    \/ FinalCheckpoint \/ FinalRefused \/ WriteSidecar \/ FinalSegids \/ Exit

Next ==
    \/ StageStep
    \/ \E c \in Clusters : PartlyExtracted(c) \/ NotExtracted(c)
    \/ Upgrade \/ Crash

Spec == Init /\ [][Next]_vars

\* The runner starts the stage again and again, and every call of the LLM ends.
FairSpec == Spec /\ WF_vars(StageStep)

-----------------------------------------------------------------------------
(* Properties *)

Holds(bag, c) == \A p \in Yield(c) : \E fb \in BagToSet(bag) : fb.principle = p

Covers(c) == ckpt # Absent /\ Holds(ckpt, c)

\* A restart never skips a cluster with a principle that is not in the checkpoint,
\* wherever the crash, the aborted run or the failed write was ("never data loss").
SkipsOnlyCovered == \A c \in Resumable : Covers(c)

\* A run that exits 0, which certifies the stage for the runner, leaves no more
\* clusters uncovered than the tolerance allows, those of earlier runs included
\* (D2331: "Missing clusters = missing FBs").
CertifiedCovers == exit = 0 => Cardinality({c \in Clusters : ~Covers(c)}) <= MaxFailed

\* The stage is the resumable work of ResumableWork: what a restart could go on
\* from once every later restart can, a new checkpoint has the principles of all of
\* it, ids are noted after their FBs, and only saved work is certified (D2177, D2215:
\* hours of extraction are never thrown away).
Work == INSTANCE ResumableWork WITH
            Units <- Clusters, Tolerance <- MaxFailed,
            saved <- {c \in Clusters : Covers(c)}, kept <- Resumable, certified <- exit = 0

IsResumable == Work!Spec

\* Started again and again, the stage completes again and again once crashes and
\* failed calls are over, unless the checkpoint is of another code.
Completes == []<>(exit = 0) \/ <>[](Saved /\ sidecar \notin {Absent, code})
-----------------------------------------------------------------------------
(* The inductive invariant *)

\* A run holds the principles of what it will not do again, which includes what
\* the last run left to resume from...
RunHolds ==
    pc # "idle" =>
        /\ exit = Absent
        /\ Resumable \subseteq processed
        /\ \A c \in processed : Holds(fbs, c)

\* ...and a full answer, from the worker to the main thread, all that are in its
\* cluster.
AnswersWhole ==
    \A c \in Clusters :
        result[c] # Absent /\ result[c].kind = "got" /\ result[c].bad = 0 =>
            \A p \in Yield(c) : \E fb \in result[c].fbs : fb.principle = p

\* Every cluster that was handled and is not processed was counted.
Missed == {c \in Clusters : work[c] = "handled" /\ c \notin processed}

FailuresCounted ==
    pc # "idle" => /\ \A c \in Clusters : work[c] = "out" => c \in processed
                   /\ Cardinality(Missed) <= failed

Between == pc = "idle" => \A c \in Clusters : work[c] = "out"

\* The files, in the order they are written.
FilesInOrder ==
    /\ segids # Absent => ckpt # Absent
    /\ pc \in {"segids", "sidecar", "final", "exit"} => ckpt = fbs
    /\ pc \in {"sidecar", "final", "exit"} => AllHandled

IInv ==
    /\ RunHolds /\ AnswersWhole /\ FailuresCounted /\ Between /\ FilesInOrder
    /\ SkipsOnlyCovered /\ CertifiedCovers
=============================================================================
