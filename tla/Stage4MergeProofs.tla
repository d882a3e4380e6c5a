--------------------------- MODULE Stage4MergeProofs ---------------------------
(***************************************************************************)
(* Proofs about Stage 4, for any outputs of Stage 2, units, ids, named     *)
(* clusters, interval, tolerance and bounds: type correctness, what an     *)
(* interrupted run and a delta run keep, and what the preflight of Stage 5 *)
(* lets through.                                                           *)
(***************************************************************************)
EXTENDS Stage4Merge, FiniteSetTheorems, TLAPS

USE SetsAssumption, LimitsAssumption

-----------------------------------------------------------------------------
(* Lemmas *)

\* The units of an output are a finite set, each of a cluster and with an id.
LEMMA OfCorpus ==
    ASSUME NEW v \in Corpora
    PROVE  /\ IsFiniteSet(Of(v)) /\ Of(v) \subseteq Units
           /\ \A u \in Of(v) : IdOf(u) \in Ids /\ ClusterOf(u) \in Clusters
           /\ ClustersOf(Of(v)) \subseteq Clusters
BY DEF Units, Clusters, ClustersOf

\* Some ids are a number of ids.
LEMMA HeldFinite ==
    ASSUME NEW f
    PROVE  IsFiniteSet(Held(f)) /\ Cardinality(Held(f)) \in Nat
<1>1. Held(f) \subseteq Ids
  BY DEF Held
<1>2. IsFiniteSet(Held(f))
  BY <1>1, FS_Subset
<1>3. QED
  BY <1>2, FS_CardinalityType

\* Some units are a number of units.
LEMMA UnitsFinite ==
    ASSUME NEW v \in Corpora, NEW S \in SUBSET Of(v)
    PROVE  IsFiniteSet(S) /\ Cardinality(S) \in Nat
<1>1. IsFiniteSet(S)
  BY OfCorpus, FS_Subset
<1>2. QED
  BY <1>1, FS_CardinalityType

\* What a start loads are FBs and clusters, and it takes up units of its input.
LEMMA StartTyped ==
    ASSUME TypeOK
    PROVE  /\ NoFBs \in FBs /\ Loaded \in FBs /\ Done \subseteq Clusters
           /\ \A only : Named(only) \subseteq Of(corpus)
<1>1. NoFBs \in FBs /\ Loaded \in FBs
  BY DEF TypeOK, NoFBs, Loaded, FBs
<1>2. CASE ckpt = Absent
  <2>1. Done = {}
    BY <1>2 DEF Done
  <2>2. QED
    BY <1>1, <2>1 DEF Named
<1>3. CASE ckpt # Absent /\ segids # Absent
  <2>1. Done = segids
    BY <1>3 DEF Done
  <2>2. QED
    BY <1>1, <1>3, <2>1 DEF TypeOK, Named
<1>4. CASE ckpt # Absent /\ segids = Absent
  <2>1. Done = SourcesIn(ckpt)
    BY <1>4 DEF Done
  <2>2. SourcesIn(ckpt) \subseteq Clusters
    BY <1>4 DEF TypeOK, SourcesIn, FBs
  <2>3. QED
    BY <1>1, <2>1, <2>2 DEF Named
<1>5. QED
  BY <1>2, <1>3, <1>4

\* What stays behind in memory when a run ends.
LEMMA EndsTyped ==
    ASSUME TypeOK, NEW how \in {0, 1, 2, 130}, Ends(how)
    PROVE  /\ pc' = "idle" /\ delta' = delta /\ exit' = how
           /\ fbs' \in FBs /\ processed' \subseteq Clusters
           /\ todo' = {} /\ failed' = {} /\ errors' \in Nat /\ interrupted' \in BOOLEAN
           /\ exit' \in {0, 1, 2, 130, Absent}
BY StartTyped DEF Ends

-----------------------------------------------------------------------------
(* Type correctness *)

\* No step breaks the types; another output of Stage 2 comes when no run has units
\* of the old one.
LEMMA TypeOKStep == TypeOK /\ IInv /\ [Next]_vars => TypeOK'
<1> SUFFICES ASSUME TypeOK, IInv, [Next]_vars
             PROVE  TypeOK'
  OBVIOUS
<1> USE DEF input, disk, memory, faults, Goes
<1>1. CASE Start \/ StartDelta
  <2>1. ASSUME NEW only \in Deltas \cup {{}}, NEW stale \in BOOLEAN, Starts(only, stale)
        PROVE  TypeOK'
    <3>1. /\ fbs' \in FBs /\ processed' \subseteq Clusters /\ todo' \subseteq Of(corpus)
          /\ failed = {}
      BY <2>1, StartTyped DEF Starts, IInv, AtRest
    <3>2. QED
      BY <2>1, <3>1 DEF TypeOK, Starts
  <2>2. Stale \in BOOLEAN
    BY DEF Stale
  <2>3. CASE Start
    BY <2>1, <2>2, <2>3 DEF Start
  <2>4. CASE StartDelta
    BY <2>1, <2>4 DEF StartDelta
  <2>5. QED
    BY <1>1, <2>3, <2>4
<1>2. ASSUME NEW u \in todo,
             Merge(u) \/ MergeDuplicate(u) \/ FailCluster(u) \/ FailClassification(u)
      PROVE  TypeOK'
  <2>1. /\ u \in Of(corpus) /\ IdOf(u) \in Ids /\ ClusterOf(u) \in Clusters
        /\ todo \ {u} \subseteq Of(corpus) /\ u \notin failed
    BY OfCorpus DEF TypeOK
  <2>2. CASE Merge(u)
    <3>1. fbs' \in FBs
      BY <2>1, <2>2 DEF TypeOK, Merge, FBs
    <3>2. pc' \in {"ckpt", "loop"} /\ processed' \subseteq Clusters /\ todo' = todo \ {u}
      BY <2>1, <2>2 DEF TypeOK, Merge, Takes, Ticks
    <3>3. QED
      BY <2>1, <2>2, <3>1, <3>2 DEF TypeOK, Merge
  <2>3. CASE MergeDuplicate(u)
    <3>1. fbs' \in FBs
      BY <2>1, <2>3 DEF TypeOK, MergeDuplicate, FBs
    <3>2. QED
      BY <2>1, <2>3, <3>1 DEF TypeOK, MergeDuplicate, Takes
  <2>4. CASE FailCluster(u)
    BY <2>1, <2>4 DEF TypeOK, FailCluster, Takes, Fails
  <2>5. CASE FailClassification(u)
    BY <2>1, <2>5 DEF TypeOK, FailClassification, Takes, Ticks, Fails
  <2>6. QED
    BY <1>2, <2>2, <2>3, <2>4, <2>5
<1>3. CASE Signal
  BY <1>3 DEF TypeOK, Signal
<1>4. CASE WriteCheckpoint \/ WriteSegids \/ FinalCheckpoint
  BY <1>4 DEF TypeOK, WriteCheckpoint, WriteSegids, FinalCheckpoint
<1>5. CASE WriteState
  <2>1. state' \in State /\ UNCHANGED <<input, ckpt, segids, expected, faults>>
    BY <1>5, HeldFinite DEF TypeOK, WriteState, StateWith, State
  <2>2. CASE interrupted
    BY <1>5, <2>1, <2>2, EndsTyped DEF TypeOK, WriteState
  <2>3. CASE ~interrupted
    BY <1>5, <2>1, <2>3 DEF TypeOK, WriteState
  <2>4. QED
    BY <2>2, <2>3
<1>6. CASE WriteExpected
  <2>1. /\ Cardinality(Of(corpus)) \in Nat /\ Cardinality(Named(delta)) \in Nat
        /\ failed \subseteq Units /\ Receipts \subseteq Units
    BY OfCorpus, UnitsFinite, StartTyped DEF TypeOK, Receipts, Expected
  <2>2. Expectation \in Expected
    BY <2>1 DEF TypeOK, Expectation, Expected
  <2>3. QED
    BY <1>6, <2>2 DEF TypeOK, WriteExpected
<1>7. CASE FinalRefused \/ ExpectedRefused \/ GateFails
  <2>1. \E how \in {1, 2} : Ends(how)
    BY <1>7 DEF FinalRefused, ExpectedRefused, GateFails
  <2>2. UNCHANGED <<input, disk, faults>>
    BY <1>7 DEF FinalRefused, ExpectedRefused, GateFails
  <2>3. QED
    BY <2>1, <2>2, EndsTyped DEF TypeOK
<1>8. CASE GatePasses \/ RemoveSegids
  BY <1>8 DEF TypeOK, GatePasses, RemoveSegids
<1>9. CASE RemoveState
  BY <1>9, EndsTyped DEF TypeOK, RemoveState
<1>10. CASE Crash
  BY <1>10, EndsTyped DEF TypeOK, Crash
<1>11. CASE Upgrade \/ Regenerate
  BY <1>11 DEF TypeOK, Upgrade, Regenerate, IInv, AtRest
<1>12. CASE UNCHANGED vars
  BY <1>12 DEF TypeOK, vars
<1>13. QED
  BY <1>1, <1>2, <1>3, <1>4, <1>5, <1>6, <1>7, <1>8, <1>9, <1>10, <1>11, <1>12
     DEF Next, StageStep, LoopStep

-----------------------------------------------------------------------------
(* The inductive invariant *)

LEMMA InitInv == Init => TypeOK /\ IInv
<1> SUFFICES ASSUME Init
             PROVE  TypeOK /\ IInv
  OBVIOUS
<1>1. NoFBs \in FBs
  BY DEF NoFBs, FBs
<1>2. TypeOK
  <2>1. /\ corpus \in Corpora /\ code \in Codes
        /\ crashes \in 0..MaxCrashes /\ failures \in 0..MaxFailures
    BY DEF Init
  <2>2. /\ fbs \in FBs /\ processed \subseteq Clusters
        /\ todo \subseteq Of(corpus) /\ failed \subseteq Of(corpus) \ todo
    BY <1>1 DEF Init
  <2>3. QED
    BY <2>1, <2>2 DEF Init, TypeOK
<1>3. IInv
  BY DEF Init, IInv, AtRest, Running, FilesInOrder, DeltaHolds, ExpectsAll
<1>4. QED
  BY <1>2, <1>3

\* A run that ends without success leaves nothing that the invariant speaks of.
LEMMA EndsInv ==
    ASSUME TypeOK, NEW how \in {1, 2, 130}, Ends(how)
    PROVE  IInv'
BY EndsTyped DEF IInv, AtRest, Running, FilesInOrder, DeltaHolds, ExpectsAll

\* Every step of the merge, an interrupt included, keeps the inductive invariant.
LEMMA IInvStep == TypeOK /\ IInv /\ [Next]_vars => IInv'
<1> SUFFICES ASSUME TypeOK, IInv, [Next]_vars
             PROVE  IInv'
  OBVIOUS
<1> USE DEF input, disk, memory, faults, Goes
<1>1. CASE Start
  BY <1>1 DEF Start, Starts, IInv, AtRest, Running, FilesInOrder, DeltaHolds, ExpectsAll
<1>2. CASE StartDelta
  BY <1>2 DEF StartDelta, Starts, Loaded,
              IInv, AtRest, Running, FilesInOrder, DeltaHolds, ExpectsAll
<1>3. ASSUME NEW u \in todo,
             Merge(u) \/ MergeDuplicate(u) \/ FailCluster(u) \/ FailClassification(u)
      PROVE  IInv'
  <2>1. /\ pc = "loop" /\ pc' \in {"loop", "ckpt"}
        /\ UNCHANGED <<input, disk, delta, exit>>
    BY <1>3 DEF Merge, MergeDuplicate, FailCluster, FailClassification, Takes, Ticks
  <2>2. \A i \in Ids : fbs[i] \subseteq fbs'[i]
    BY <1>3 DEF TypeOK, FBs, Merge, MergeDuplicate, FailCluster, FailClassification
  <2>3. QED
    BY <2>1, <2>2 DEF IInv, AtRest, Running, FilesInOrder, DeltaHolds, ExpectsAll
<1>4. CASE Signal
  BY <1>4 DEF Signal, IInv, AtRest, Running, FilesInOrder, DeltaHolds, ExpectsAll
<1>5. CASE WriteCheckpoint \/ WriteSegids \/ FinalCheckpoint
  BY <1>5 DEF WriteCheckpoint, WriteSegids, FinalCheckpoint,
              IInv, AtRest, Running, FilesInOrder, DeltaHolds, ExpectsAll
<1>6. CASE WriteState
  <2>1. CASE interrupted
    BY <1>6, <2>1, EndsInv DEF WriteState
  <2>2. CASE ~interrupted
    BY <1>6, <2>2 DEF WriteState, IInv, AtRest, Running, FilesInOrder, DeltaHolds, ExpectsAll
  <2>3. QED
    BY <2>1, <2>2
<1>7. CASE WriteExpected
  <2>1. delta = {} => expected' = Whole(failed)
    BY <1>7 DEF WriteExpected, Expectation, Whole
  <2>2. QED
    BY <1>7, <2>1 DEF WriteExpected, Whole,
                      IInv, AtRest, Running, FilesInOrder, DeltaHolds, ExpectsAll
<1>8. CASE FinalRefused \/ ExpectedRefused \/ GateFails \/ Crash
  <2>1. \E how \in {1, 2} : Ends(how)
    BY <1>8 DEF FinalRefused, ExpectedRefused, GateFails, Crash
  <2>2. QED
    BY <2>1, EndsInv
<1>9. CASE GatePasses
  <2>1. failed = {}
    <3>1. IsFiniteSet(failed) /\ Cardinality(failed) \in Nat /\ errors \in Nat
      BY UnitsFinite DEF TypeOK
    <3>2. Cardinality(failed) = 0
      BY <1>9, <3>1 DEF GatePasses, Failures
    <3>3. QED
      BY <3>1, <3>2, FS_EmptySet
  <2>2. QED
    BY <1>9, <2>1 DEF GatePasses, Whole,
                      IInv, AtRest, Running, FilesInOrder, DeltaHolds, ExpectsAll
<1>10. CASE RemoveSegids
  BY <1>10 DEF RemoveSegids, Whole,
               IInv, AtRest, Running, FilesInOrder, DeltaHolds, ExpectsAll
<1>11. CASE RemoveState
  BY <1>11, EndsTyped DEF RemoveState, Whole,
               IInv, AtRest, Running, FilesInOrder, DeltaHolds, ExpectsAll
<1>12. CASE Upgrade \/ Regenerate \/ UNCHANGED vars
  BY <1>12 DEF Upgrade, Regenerate, vars, Whole,
               IInv, AtRest, Running, FilesInOrder, DeltaHolds, ExpectsAll
<1>13. QED
  BY <1>1, <1>2, <1>3, <1>4, <1>5, <1>6, <1>7, <1>8, <1>9, <1>10, <1>11, <1>12
     DEF Next, StageStep, LoopStep

\* Every variable of Stage 4 has its type.
THEOREM TypeCorrect == Spec => []TypeOK
<1>1. Init => TypeOK /\ IInv
  BY InitInv
<1>2. TypeOK /\ IInv /\ [Next]_vars => (TypeOK /\ IInv)'
  BY TypeOKStep, IInvStep
<1>3. QED
  BY <1>1, <1>2, PTL DEF Spec

\* The type and the inductive invariant hold in every reachable state.
LEMMA Inductive == Spec => [](TypeOK /\ IInv)
<1>1. TypeOK /\ IInv /\ [Next]_vars => (TypeOK /\ IInv)'
  BY TypeOKStep, IInvStep
<1>2. QED
  BY InitInv, <1>1, PTL DEF Spec

-----------------------------------------------------------------------------
(* What an interrupted run and a delta run keep *)

\* Only the end of a tick ends a run with 130.
LEMMA InterruptStep ==
    ASSUME TypeOK, IInv, [Next]_vars, pc # "idle", exit' = 130
    PROVE  WriteState /\ interrupted
<1>1. exit = Absent /\ exit # 130
  BY DEF IInv, Running
<1> USE DEF input, disk, memory, faults, Goes
<1>2. exit' # exit
  BY <1>1
<1>3. ~(Start \/ StartDelta \/ Signal \/ WriteCheckpoint \/ WriteSegids \/ FinalCheckpoint
        \/ WriteExpected \/ GatePasses \/ RemoveSegids \/ Upgrade \/ Regenerate
        \/ UNCHANGED vars)
  BY <1>2 DEF Start, StartDelta, Starts, Signal, WriteCheckpoint, WriteSegids, FinalCheckpoint,
              WriteExpected, GatePasses, RemoveSegids, Upgrade, Regenerate, vars
<1>4. \A u \in todo :
         ~(Merge(u) \/ MergeDuplicate(u) \/ FailCluster(u) \/ FailClassification(u))
  BY <1>2 DEF Merge, MergeDuplicate, FailCluster, FailClassification
<1>5. ~(FinalRefused \/ ExpectedRefused \/ GateFails \/ RemoveState \/ Crash)
  BY DEF FinalRefused, ExpectedRefused, GateFails, RemoveState, Crash, Ends
<1>6. WriteState
  BY <1>3, <1>4, <1>5 DEF Next, StageStep, LoopStep
<1>7. QED
  BY <1>2, <1>6 DEF WriteState

\* The files a tick leaves pass the first three guards of the next full run, and
\* fail the fourth only when no cluster of this input is among them.
LEMMA InterruptKept ==
    ASSUME TypeOK, IInv, WriteState, interrupted
    PROVE  Resumable' \cap ClustersOf(Of(corpus))'
           = processed \cap ClustersOf(Of(corpus))
<1>1. /\ ckpt' = fbs /\ segids' = processed /\ state' = StateWith(Cardinality(Held(fbs)))
      /\ corpus' = corpus /\ code' = code
  BY DEF WriteState, IInv, FilesInOrder, Goes, input
<1>2. ckpt' # Absent /\ segids' # Absent
  BY <1>1 DEF TypeOK
<1>3. Done' = processed
  BY <1>1, <1>2 DEF Done
<1>4. state'.corpus = corpus' /\ state'.code = code' /\ state'.count = Cardinality(Held(ckpt'))
  BY <1>1 DEF StateWith
<1>5. Stale' => Done' \cap ClustersOf(Of(corpus))' = {}
  BY <1>4 DEF Stale
<1>6. ClustersOf(Of(corpus))' = ClustersOf(Of(corpus))
  BY <1>1
<1>7. QED
  BY <1>3, <1>5, <1>6 DEF Resumable

\* What an interrupted run has processed is what the next full run resumes.
THEOREM InterruptIsLossless == Spec => InterruptKeeps
<1>1. TypeOK /\ IInv /\ [Next]_vars =>
        [pc # "idle" /\ exit' = 130 =>
            Resumable' \cap ClustersOf(Of(corpus)) = processed \cap ClustersOf(Of(corpus))]_vars
  <2> SUFFICES ASSUME TypeOK, IInv, [Next]_vars, pc # "idle", exit' = 130
               PROVE  Resumable' \cap ClustersOf(Of(corpus)) = processed \cap ClustersOf(Of(corpus))
    OBVIOUS
  <2>1. WriteState /\ interrupted
    BY InterruptStep
  <2>2. ClustersOf(Of(corpus))' = ClustersOf(Of(corpus))
    BY <2>1 DEF WriteState, input
  <2>3. QED
    BY <2>1, <2>2, InterruptKept
<1>2. QED
  BY Inductive, <1>1, PTL DEF Spec, InterruptKeeps

\* No step of a delta run takes an FB or a source out of the checkpoint.
THEOREM DeltaIsLossless == Spec => DeltaDiscardsNothing
<1>1. TypeOK /\ IInv /\ [Next]_vars =>
        [pc # "idle" /\ delta # {} /\ ckpt # Absent =>
            \A i \in Ids : ckpt[i] \subseteq ckpt'[i]]_vars
  <2> SUFFICES ASSUME TypeOK, IInv, [Next]_vars, pc # "idle", delta # {}, ckpt # Absent
               PROVE  \A i \in Ids : ckpt[i] \subseteq ckpt'[i]
    OBVIOUS
  <2>1. ckpt' \in {ckpt, fbs}
    <3> USE DEF disk, Goes
    <3>1. CASE Next
      BY <3>1 DEF Next, StageStep, LoopStep, Start, StartDelta, Starts, Merge, MergeDuplicate,
                  FailCluster, FailClassification, Signal, WriteCheckpoint, WriteSegids,
                  WriteState, FinalCheckpoint, FinalRefused, WriteExpected, ExpectedRefused,
                  GateFails, GatePasses, RemoveSegids, RemoveState, Crash, Upgrade, Regenerate
    <3>2. CASE UNCHANGED vars
      BY <3>2 DEF vars
    <3>3. QED
      BY <3>1, <3>2
  <2>2. \A i \in Ids : ckpt[i] \subseteq fbs[i]
    BY DEF IInv, DeltaHolds
  <2>3. QED
    BY <2>1, <2>2
<1>2. QED
  BY Inductive, <1>1, PTL DEF Spec, DeltaDiscardsNothing

-----------------------------------------------------------------------------
(* What the preflight of Stage 5 lets through *)

\* An output has no more ids than units.
LEMMA IdsCounted ==
    ASSUME NEW v \in Corpora
    PROVE  /\ IsFiniteSet(IdsOf(v)) /\ IdsOf(v) \subseteq Ids
           /\ Cardinality(IdsOf(v)) \in Nat
           /\ Cardinality(IdsOf(v)) <= Cardinality(Of(v))
<1>1. IsFiniteSet(Of(v)) /\ IdsOf(v) \subseteq Ids
  BY OfCorpus DEF IdsOf
<1>2. IsFiniteSet(IdsOf(v))
  BY <1>1, FS_Subset
<1>3. DEFINE f == [u \in Of(v) |-> IdOf(u)]
<1>4. f \in Surjection(Of(v), IdsOf(v))
  BY DEF Surjection, IdsOf
<1>5. Cardinality(IdsOf(v)) <= Cardinality(Of(v))
  <2> HIDE DEF f
  <2> QED
    BY <1>1, <1>4, FS_Surjection
<1>6. QED
  BY <1>1, <1>2, <1>5, FS_CardinalityType

\* The counts of a clean run agree only when every unit has its FB: two units of one
\* id are one record, and make the count come out short.
LEMMA CountsAgree == TypeOK /\ IInv => HandsOverWhole
<1> SUFFICES ASSUME TypeOK, IInv, pc = "idle", exit = 0, delta = {}, Accepts,
                    Held(ckpt) \subseteq IdsOf(corpus)
             PROVE  IdsOf(corpus) \subseteq Held(ckpt)
  BY DEF HandsOverWhole
<1>1. expected = Whole({}) /\ expected # Absent
  <2>1. Cardinality(Of(corpus)) \in Nat
    BY UnitsFinite DEF TypeOK
  <2>2. Whole({}) \in Expected
    BY <2>1 DEF Whole, Expected
  <2>3. QED
    BY <2>2 DEF IInv, ExpectsAll
<1>2. Cardinality(Held(ckpt)) + Cardinality({}) = Cardinality(Of(corpus))
  BY <1>1 DEF Accepts, Whole
<1>3. Cardinality(Held(ckpt)) = Cardinality(Of(corpus))
  BY <1>2, FS_EmptySet, HeldFinite
<1>4. corpus \in Corpora
  BY DEF TypeOK
<1>5. Cardinality(Held(ckpt)) <= Cardinality(IdsOf(corpus))
  BY <1>4, IdsCounted, FS_Subset
<1>6. Cardinality(Held(ckpt)) = Cardinality(IdsOf(corpus))
  BY <1>3, <1>4, <1>5, IdsCounted, HeldFinite, UnitsFinite
<1>7. QED
  BY <1>4, <1>6, IdsCounted, FS_Subset

\* What a clean full run hands over, and the preflight lets through, is whole.
THEOREM HandedOverIsWhole == Spec => []HandsOverWhole
BY Inductive, CountsAgree, PTL

=============================================================================
