----------------------------- MODULE Stage4Merge -----------------------------
(***************************************************************************)
(* Stage 4 of the pipeline (stage4_merge.py, run_stage4): every Foundation *)
(* Block (FB) of Stage 2 is a unit of its own, which a serial loop takes   *)
(* in the order of the file, classifies and adds to the checkpoint.  What  *)
(* is noted of a unit is the cluster of Stage 2 it comes from, and a       *)
(* cluster can have several.                                               *)
(*                                                                         *)
(* Every few clusters three files are replaced, one after the other: the   *)
(* checkpoint, the ids of the clusters done (.segids) and .state.json with *)
(* a fingerprint of the input, one of the stage's code and the number of   *)
(* records.  A start resumes from them after four guards, and a clean run  *)
(* removes the last two.  .expected_count.json says what the checkpoint    *)
(* should hold and which units failed; Stage 5 counts before it starts.    *)
(* A run over named clusters only (--cluster) merges into what is there.   *)
(*                                                                         *)
(* Two units of one FB id are one claim.  Records that are not principles  *)
(* go to files of their own and leave all of this alone.                   *)
(***************************************************************************)
EXTENDS Naturals, FiniteSets

CONSTANTS Corpora,     \* the outputs of Stage 2, one after the other
          Of(_),       \* the units of one, numbered in the order of its file
          ClusterOf(_), \* of a unit
          Ids,
          IdOf(_),     \* the FB id of a unit
          Deltas,      \* what --cluster may name
          Every,       \* s4 checkpoint_interval (5)
          MaxFailed,   \* S4_MAX_FAILED_RATIO as a number of units
          Codes,       \* versions of the files in stage4.fingerprint_files
          MaxCrashes,  \* bound on crashes and signals
          MaxFailures, \* bound on units that fail
          Absent

VARIABLES corpus, code,  \* what is installed and what Stage 2 left
          ckpt,       \* the checkpoint: for every id the source_clusters of its FB
          segids, state, expected,
          pc,         \* where the run is
          delta,      \* the clusters named, {}: a full run; kept when it ends
          fbs, processed,
          todo,       \* units the loop has not come to
          failed,     \* failed_cluster_ids
          errors,     \* classification_errors
          interrupted, \* _INTERRUPT_REQUESTED
          exit,       \* exit code of the last run, Absent: none yet on this corpus
          crashes, failures

input == <<corpus, code>>
disk == <<ckpt, segids, state, expected>>
memory == <<fbs, processed, todo, failed, errors, interrupted>>
faults == <<crashes, failures>>
vars == <<input, disk, pc, delta, memory, exit, faults>>

Units == UNION {Of(v) : v \in Corpora}
ClustersOf(units) == {ClusterOf(u) : u \in units}
Clusters == ClustersOf(Units)
FBs == [Ids -> SUBSET Clusters]
State == [corpus : Corpora, code : Codes, count : Nat]
Expected == [count : Nat, failed : SUBSET Units]

ASSUME SetsAssumption ==
    /\ Corpora \subseteq Nat /\ 1 \in Corpora
    /\ Codes \subseteq Nat /\ 1 \in Codes
    /\ IsFiniteSet(Ids)
    /\ \A v \in Corpora :
          /\ IsFiniteSet(Of(v)) /\ Of(v) \subseteq Nat
          /\ \A u \in Of(v) : IdOf(u) \in Ids
    /\ Deltas \subseteq SUBSET Clusters /\ {} \notin Deltas
    /\ Absent \notin Nat \cup FBs \cup State \cup Expected
    /\ \A cs \in SUBSET Clusters : Absent # cs
ASSUME LimitsAssumption ==
    /\ Every \in Nat \ {0} /\ MaxFailed \in Nat
    /\ MaxCrashes \in Nat /\ MaxFailures \in Nat

TypeOK ==
    /\ corpus \in Corpora /\ code \in Codes
    /\ ckpt # Absent => ckpt \in FBs
    /\ segids # Absent => segids \subseteq Clusters
    /\ state # Absent => state \in State
    /\ expected # Absent => expected \in Expected
    /\ pc \in {"idle", "loop", "ckpt", "segids", "state", "final", "expected",
               "gate", "clean", "cleaner"}
    /\ delta \in Deltas \cup {{}}
    /\ fbs \in FBs /\ processed \subseteq Clusters
    /\ todo \subseteq Of(corpus) /\ failed \subseteq Of(corpus) \ todo
    /\ errors \in Nat /\ interrupted \in BOOLEAN
    /\ exit \in {0, 1, 2, 130, Absent}
    /\ crashes \in 0..MaxCrashes /\ failures \in 0..MaxFailures

NoFBs == [i \in Ids |-> {}]
Held(f) == {i \in Ids : f[i] # {}}
SourcesIn(f) == UNION {f[i] : i \in Ids}

Init ==
    /\ corpus = 1 /\ code = 1
    /\ ckpt = Absent /\ segids = Absent /\ state = Absent /\ expected = Absent
    /\ pc = "idle" /\ delta = {}
    /\ fbs = NoFBs /\ processed = {} /\ todo = {}
    /\ failed = {} /\ errors = 0 /\ interrupted = FALSE
    /\ exit = Absent
    /\ crashes = 0 /\ failures = 0

Goes(from, to) == pc = from /\ pc' = to

Ends(how) ==
    /\ pc' = "idle"
    /\ fbs' = NoFBs /\ processed' = {} /\ todo' = {}
    /\ failed' = {} /\ errors' = 0 /\ interrupted' = FALSE
    /\ exit' = how
    /\ UNCHANGED delta

\* Stage 2 runs over other clusters.
Regenerate ==
    /\ pc = "idle"
    /\ corpus + 1 \in Corpora
    /\ corpus' = corpus + 1
    /\ exit' = Absent
    /\ UNCHANGED <<code, disk, pc, delta, memory, faults>>

Upgrade ==
    /\ pc = "idle"
    /\ code + 1 \in Codes
    /\ code' = code + 1
    /\ UNCHANGED <<corpus, disk, pc, delta, memory, exit, faults>>

\* The process is killed, or a write raises.
Crash ==
    /\ pc # "idle"
    /\ crashes < MaxCrashes
    /\ crashes' = crashes + 1
    /\ Ends(1)
    /\ UNCHANGED <<input, disk, failures>>

-----------------------------------------------------------------------------
(* Resuming *)

Loaded == IF ckpt = Absent THEN NoFBs ELSE ckpt

\* A completed run leaves no segids: the clusters are read off the FBs.
Done == CASE ckpt = Absent -> {}
          [] ckpt # Absent /\ segids # Absent -> segids
          [] OTHER -> SourcesIn(ckpt)

\* The guards of a full run, any of which starts afresh: another input (BUG-183),
\* other code (BUG-614), a truncated checkpoint (D2487), other cluster ids (D2215).
Stale ==
    /\ ckpt # Absent
    /\ \/ state # Absent /\ state.corpus # corpus
       \/ state # Absent /\ state.code # code /\ Held(ckpt) # {}
       \/ state # Absent /\ state.count # Cardinality(Held(ckpt))
       \/ Done # {} /\ Done \cap ClustersOf(Of(corpus)) = {}

Resumable == IF Stale THEN {} ELSE Done

\* The units of the named clusters.
Named(only) == {u \in Of(corpus) : ClusterOf(u) \in only}

Starts(only, stale) ==
    /\ Goes("idle", "loop")
    /\ delta' = only
    /\ fbs' = IF stale THEN NoFBs ELSE Loaded
    /\ processed' = IF stale THEN {} ELSE Done
    /\ todo' = (IF only = {} THEN Of(corpus) ELSE Named(only)) \ Named(processed')
    /\ exit' = Absent
    /\ UNCHANGED <<input, disk, failed, errors, interrupted, faults>>

Start == Starts({}, Stale)

\* Mutation: the guards are for a delta run too.
StartDeltaGuarded == \E only \in Deltas : Named(only) # {} /\ Starts(only, Stale)

StartDelta == \E only \in Deltas : Named(only) # {} /\ Starts(only, FALSE)

-----------------------------------------------------------------------------
(* The loop over the units *)

\* Mutation: the loop stays where it is.
TakesAgain(u) ==
    /\ pc = "loop"
    /\ u \in todo /\ \A v \in todo : u <= v
    /\ todo' = todo

Takes(u) ==
    /\ pc = "loop"
    /\ u \in todo /\ \A v \in todo : u <= v
    /\ todo' = todo \ {u}

Ticks(done) == pc' = IF Cardinality(done) % Every = 0 THEN "ckpt" ELSE "loop"

Merge(u) ==
    /\ Takes(u)
    /\ fbs[IdOf(u)] = {}
    /\ fbs' = [fbs EXCEPT ![IdOf(u)] = {ClusterOf(u)}]
    /\ processed' = processed \cup {ClusterOf(u)}
    /\ Ticks(processed')
    /\ UNCHANGED <<input, disk, delta, failed, errors, interrupted, exit, faults>>

\* BUG-615: the FB of another unit takes the sources on, the cluster is not
\* marked as processed, and the `continue` passes by the tick.
MergeDuplicate(u) ==
    /\ Takes(u)
    /\ fbs[IdOf(u)] # {}
    /\ fbs' = [fbs EXCEPT ![IdOf(u)] = @ \cup {ClusterOf(u)}]
    /\ UNCHANGED <<input, disk, pc, delta, processed, failed, errors, interrupted,
                   exit, faults>>

Fails == failures < MaxFailures /\ failures' = failures + 1

\* No FB that is complete comes back: a receipt, and on to the next.
FailCluster(u) ==
    /\ Takes(u)
    /\ Fails
    /\ failed' = failed \cup {u}
    /\ UNCHANGED <<input, disk, pc, delta, fbs, processed, errors, interrupted, exit,
                   crashes>>

\* The classification fails, or the call for the depth does, or both: counted,
\* with no receipt.
FailClassification(u) ==
    /\ Takes(u)
    /\ Fails
    /\ errors' \in {errors + 1, errors + 2}
    /\ Ticks(processed)
    /\ UNCHANGED <<input, disk, delta, fbs, processed, failed, interrupted, exit, crashes>>

\* SIGINT or SIGTERM sets a flag, which the loop reads before the next unit.
Signal ==
    /\ pc = "loop" /\ todo # {}
    /\ crashes < MaxCrashes
    /\ crashes' = crashes + 1
    /\ interrupted' = TRUE
    /\ pc' = "ckpt"
    /\ UNCHANGED <<input, disk, delta, fbs, processed, todo, failed, errors, exit, failures>>

-----------------------------------------------------------------------------
(* _write_s4_checkpoint *)

\* The shrink guard of safe_write: a file never loses a tenth of its bytes.
Shrinks(from, to) == 10 * to < 9 * from

FinalShrinks == ckpt # Absent /\ Shrinks(Cardinality(Held(ckpt)), Cardinality(Held(fbs)))

\* Mutation: without force_shrink.
WriteCheckpointGuarded ==
    /\ pc = "ckpt"
    /\ IF FinalShrinks THEN Ends(1) /\ UNCHANGED ckpt
       ELSE pc' = "segids" /\ ckpt' = fbs /\ UNCHANGED <<delta, memory, exit>>
    /\ UNCHANGED <<input, segids, state, expected, faults>>

\* Never refused (force_shrink).
WriteCheckpoint ==
    /\ Goes("ckpt", "segids")
    /\ ckpt' = fbs
    /\ UNCHANGED <<input, segids, state, expected, delta, memory, exit, faults>>

WriteSegids ==
    /\ Goes("segids", "state")
    /\ segids' = processed
    /\ UNCHANGED <<input, ckpt, state, expected, delta, memory, exit, faults>>

StateWith(count) == [corpus |-> corpus, code |-> code, count |-> count]

\* Mutation: the clusters are counted, not the records.
CountClusters ==
    /\ pc = "state"
    /\ state' = StateWith(Cardinality(processed))
    /\ IF interrupted THEN Ends(130)
                      ELSE pc' = "loop" /\ UNCHANGED <<delta, memory, exit>>
    /\ UNCHANGED <<input, ckpt, segids, expected, faults>>

WriteState ==
    /\ pc = "state"
    /\ state' = StateWith(Cardinality(Held(fbs)))
    /\ IF interrupted THEN Ends(130)
                      ELSE pc' = "loop" /\ UNCHANGED <<delta, memory, exit>>
    /\ UNCHANGED <<input, ckpt, segids, expected, faults>>

-----------------------------------------------------------------------------
(* The end of a run *)

\* Neither segids nor state are written with it.
FinalCheckpoint ==
    /\ todo = {} /\ ~FinalShrinks
    /\ Goes("loop", "expected")
    /\ ckpt' = fbs
    /\ UNCHANGED <<input, segids, state, expected, delta, memory, exit, faults>>

FinalRefused ==
    /\ pc = "loop" /\ todo = {} /\ FinalShrinks
    /\ Ends(1)
    /\ UNCHANGED <<input, disk, faults>>

Receipts == IF expected = Absent THEN {} ELSE expected.failed

\* A delta run keeps the count and drops the receipts of the clusters it was
\* given, but for units that fail again.
Expectation ==
    IF delta = {}
    THEN [count |-> Cardinality(Of(corpus)), failed |-> failed]
    ELSE [count  |-> IF expected = Absent THEN Cardinality(Named(delta))
                     ELSE expected.count,
          failed |-> {u \in Receipts : ClusterOf(u) \notin delta} \cup failed]

\* Without receipts the file is about as long as two receipts are.
ExpectationShrinks ==
    /\ delta = {} /\ expected # Absent
    /\ Shrinks(2 + Cardinality(expected.failed), 2 + Cardinality(failed))

WriteExpected ==
    /\ ~ExpectationShrinks
    /\ Goes("expected", "gate")
    /\ expected' = Expectation
    /\ UNCHANGED <<input, ckpt, segids, state, delta, memory, exit, faults>>

ExpectedRefused ==
    /\ pc = "expected" /\ ExpectationShrinks
    /\ Ends(1)
    /\ UNCHANGED <<input, disk, faults>>

Failures == Cardinality(failed) + errors

GateFails ==
    /\ pc = "gate" /\ Failures > 0
    /\ Ends(IF Failures > MaxFailed THEN 1 ELSE 2)
    /\ UNCHANGED <<input, disk, faults>>

GatePasses ==
    /\ Goes("gate", "clean")
    /\ Failures = 0
    /\ UNCHANGED <<input, disk, delta, memory, exit, faults>>

RemoveSegids ==
    /\ Goes("clean", "cleaner")
    /\ segids' = Absent
    /\ UNCHANGED <<input, ckpt, state, expected, delta, memory, exit, faults>>

RemoveState ==
    /\ pc = "cleaner"
    /\ state' = Absent
    /\ Ends(0)
    /\ UNCHANGED <<input, ckpt, segids, expected, faults>>

LoopStep == \E u \in todo : Merge(u) \/ MergeDuplicate(u)

StageStep ==
    \/ Start \/ LoopStep
    \/ WriteCheckpoint \/ WriteSegids \/ WriteState
    \/ FinalCheckpoint \/ FinalRefused \/ WriteExpected \/ ExpectedRefused
    \/ GateFails \/ GatePasses \/ RemoveSegids \/ RemoveState

Next ==
    \/ StageStep
    \/ StartDelta
    \/ \E u \in todo : FailCluster(u) \/ FailClassification(u)
    \/ Signal \/ Crash
    \/ Upgrade \/ Regenerate

Spec == Init /\ [][Next]_vars

\* Full runs are started again and again, and every call of the LLM ends.
FairSpec == Spec /\ WF_vars(StageStep)

-----------------------------------------------------------------------------
(* Properties *)

\* Mutation: the records are not counted.
AcceptsUncounted == ckpt # Absent /\ ClustersOf(Receipts) \cap SourcesIn(ckpt) = {}

\* The preflight of Stage 5 (preflight_checkpoint_check.py).
Accepts ==
    /\ ckpt # Absent
    /\ expected # Absent =>
          /\ ClustersOf(expected.failed) \cap SourcesIn(ckpt) = {}
          /\ Cardinality(Held(ckpt)) + Cardinality(expected.failed) = expected.count

IdsOf(v) == {IdOf(u) : u \in Of(v)}

\* What a clean full run hands over and the preflight lets through holds the FB of
\* every unit of Stage 2, however many runs wrote it and wherever they were
\* killed, unless FBs of an earlier output of Stage 2 are among them (D2496:
\* "catches a silent S4-side record DROP").
HandsOverWhole ==
    pc = "idle" /\ exit = 0 /\ delta = {} /\ Accepts /\ Held(ckpt) \subseteq IdsOf(corpus)
        => IdsOf(corpus) \subseteq Held(ckpt)

\* A run that is interrupted keeps all it did: the next full start resumes exactly
\* the clusters it had processed ("0-cluster loss").
InterruptKeeps ==
    [][pc # "idle" /\ exit' = 130 =>
          Resumable' \cap ClustersOf(Of(corpus)) = processed \cap ClustersOf(Of(corpus))]_vars

\* A delta run takes no FB and no source out of the checkpoint (D2424: "must NOT
\* discard the preserved checkpoint FBs").
DeltaDiscardsNothing ==
    [][pc # "idle" /\ delta # {} /\ ckpt # Absent =>
          \A i \in Ids : ckpt[i] \subseteq ckpt'[i]]_vars

\* Started again and again, the stage completes again and again once crashes and
\* failures are over, unless receipts of failed units are left: as far as the FB
\* checkpoint and its expected count go.  The sidecars of the other content types,
\* which go through the shrink guard between the two, are not part of this module.
Completes == []<>(exit = 0) \/ <>[](Receipts # {})

\* "Re-run to retry failed clusters."
RetryCompletes == []<>(exit = 0)

\* BUG-183: "discard a checkpoint whose S2 input fingerprint differs from the
\* current S2 corpus".
CurrentOnly ==
    pc = "idle" /\ exit = 0 => Held(ckpt) \subseteq IdsOf(corpus)
-----------------------------------------------------------------------------
(* The inductive invariant *)

AtRest == pc = "idle" => todo = {} /\ failed = {}

Running == pc # "idle" => exit = Absent

\* The files of a tick, in the order they are written.
FilesInOrder ==
    /\ pc \in {"segids", "state"} => ckpt = fbs
    /\ pc = "state" => segids = processed

\* A delta run holds all that is in the checkpoint.
DeltaHolds ==
    pc # "idle" /\ delta # {} /\ ckpt # Absent => \A i \in Ids : ckpt[i] \subseteq fbs[i]

\* A full run past its last file expects a record of every unit, but for those that
\* failed, of which a run that comes through the gate has none.
Whole(missing) == [count |-> Cardinality(Of(corpus)), failed |-> missing]

ExpectsAll ==
    delta = {} =>
        /\ pc = "gate" => expected = Whole(failed)
        /\ pc \in {"clean", "cleaner"} \/ (pc = "idle" /\ exit = 0) => expected = Whole({})

IInv == AtRest /\ Running /\ FilesInOrder /\ DeltaHolds /\ ExpectsAll
=============================================================================
