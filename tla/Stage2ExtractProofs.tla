------------------------ MODULE Stage2ExtractProofs ------------------------
(***************************************************************************)
(* Proofs about Stage 2, for any clusters, principles, interval, tolerance *)
(* and bounds on crashes and failures: type correctness, that a resume     *)
(* skips only what is saved, that a certified run covers the corpus but    *)
(* for what the tolerance allows, and that the stage implements            *)
(* ResumableWork.                                                          *)
(***************************************************************************)
EXTENDS Stage2Extract, FiniteSetTheorems, TLAPS

USE SetsAssumption, LimitsAssumption

-----------------------------------------------------------------------------
(* Lemmas *)

\* Bags of FBs, from the empty one on.
LEMMA BagEmpty == IsBagOf(EmptyBag, FB)
BY DEF IsBagOf, IsABag, BagToSet, EmptyBag, SetToBag

\* Adding each Foundation Block of a set once to a bag of them gives such a bag.
LEMMA BagAdd ==
    ASSUME NEW b, IsBagOf(b, FB), NEW S \in SUBSET FB
    PROVE  /\ IsBagOf(b (+) SetToBag(S), FB)
           /\ BagToSet(b (+) SetToBag(S)) = BagToSet(b) \cup S
BY DEF IsBagOf, IsABag, BagToSet, SetToBag, (+)

\* A bag of FBs is a checkpoint that exists.
LEMMA BagIsThere ==
    ASSUME NEW b, IsBagOf(b, FB)
    PROVE  b # Absent
<1>1. DOMAIN b \in SUBSET FB /\ b \in [DOMAIN b -> {n \in Nat : n > 0}]
  BY DEF IsBagOf, IsABag, BagToSet
<1>2. b \in [DOMAIN b -> Nat]
  BY <1>1
<1>3. QED
  BY <1>1, <1>2

\* A counter taken modulo the checkpoint interval stays below it.
LEMMA Remainder ==
    ASSUME NEW n \in Nat
    PROVE  (n + 1) % Every \in 0..(Every - 1)
OBVIOUS

\* A part of the clusters has a cardinality.
LEMMA PartFinite ==
    ASSUME NEW S, S \subseteq Clusters
    PROVE  IsFiniteSet(S) /\ Cardinality(S) \in Nat
BY FS_Subset, FS_CardinalityType

Memory ==
    /\ IsBagOf(fbs, FB) /\ processed \subseteq Clusters /\ index \subseteq Text
    /\ work \in [Clusters -> {"out", "queued", "ready", "handled"}]
    /\ result \in [Clusters -> Result \cup {Absent}]
    /\ \A c \in Clusters : work[c] = "ready" <=> result[c] # Absent
    /\ completed \in 0..(Every - 1) /\ failed \in Nat

\* A process that is gone has well-typed memory.
LEMMA EndsTyped ==
    ASSUME NEW how, Ends(how)
    PROVE  Memory' /\ pc' = "idle" /\ exit' = how
BY BagEmpty DEF Ends, Memory, NoWork, NoResult

\* What a worker returns is kept for its cluster.
LEMMA ReturnsTyped ==
    ASSUME TypeOK, NEW c \in Clusters, NEW r \in Result, Returns(c, r)
    PROVE  /\ work' \in [Clusters -> {"out", "queued", "ready", "handled"}]
           /\ result' \in [Clusters -> Result \cup {Absent}]
           /\ \A d \in Clusters : work'[d] = "ready" <=> result'[d] # Absent
BY DEF TypeOK, Returns

\* And what the main thread takes is gone from there.
LEMMA TakesTyped ==
    ASSUME TypeOK, NEW c \in Clusters, Takes(c)
    PROVE  /\ work' \in [Clusters -> {"out", "queued", "ready", "handled"}]
           /\ result' \in [Clusters -> Result \cup {Absent}]
           /\ \A d \in Clusters : work'[d] = "ready" <=> result'[d] # Absent
           /\ completed' \in 0..(Every - 1)
           /\ result[c] \in Result
           /\ result[c].fbs \in SUBSET FB /\ result[c].bad \in Nat
<1>1. completed' \in 0..(Every - 1)
  BY Remainder DEF TypeOK, Takes
<1>2. result[c] \in Result
  BY DEF TypeOK, Takes
<1>3. result[c].fbs \in SUBSET FB /\ result[c].bad \in Nat
  BY <1>2 DEF Result
<1>4. QED
  BY <1>1, <1>2, <1>3 DEF TypeOK, Takes

\* An answer is a result.
LEMMA AnswerTyped ==
    ASSUME NEW c \in Clusters, NEW good \in SUBSET Yield(c), NEW signed \in [good -> BOOLEAN]
    PROVE  [kind |-> "got",
            fbs  |-> {[cluster |-> c, principle |-> p, signed |-> signed[p]] : p \in good},
            bad  |-> Cardinality(Yield(c) \ good)] \in Result
<1>1. Cardinality(Yield(c) \ good) \in Nat
  BY FS_Subset, FS_CardinalityType
<1>2. {[cluster |-> c, principle |-> p, signed |-> signed[p]] : p \in good} \in SUBSET FB
  BY DEF FB
<1>3. QED
  BY <1>1, <1>2 DEF Result

-----------------------------------------------------------------------------
(* Type correctness *)

\* No step of the workers, the main thread or the environment breaks the types.
LEMMA TypeOKStep == TypeOK /\ IInv /\ [Next]_vars => TypeOK'
<1> SUFFICES ASSUME TypeOK, IInv, [Next]_vars
             PROVE  TypeOK'
  OBVIOUS
<1> USE DEF disk, memory, faults, Goes
<1>1. CASE Start
  <2>1. IsBagOf(ResumedFBs, FB) /\ Resumable \subseteq Clusters
    BY BagEmpty DEF TypeOK, ResumedFBs, Resumable, Saved
  <2>2. index' \subseteq Text
    <3>1. \A g \in BagToSet(fbs') : g \in FB /\ TextOf(g) \in Text
      BY <1>1, <2>1 DEF Start, IsBagOf, FB, Text, TextOf
    <3>2. QED
      BY <1>1, <3>1 DEF Start
  <2>3. \A c \in Clusters : result'[c] = Absent /\ work'[c] # "ready"
    BY <1>1 DEF TypeOK, IInv, Between, Start
  <2>4. /\ work' \in [Clusters -> {"out", "queued", "ready", "handled"}]
        /\ pc' = "extract" /\ exit' = Absent
        /\ UNCHANGED <<code, disk, result, completed, failed, faults>>
    BY <1>1 DEF Start
  <2>5. IsBagOf(fbs', FB) /\ processed' \subseteq Clusters
    BY <1>1, <2>1 DEF Start
  <2>6. QED
    BY <2>2, <2>3, <2>4, <2>5 DEF TypeOK
<1>2. CASE RefuseOtherCode
  BY <1>2 DEF TypeOK, RefuseOtherCode
<1>3. ASSUME NEW c \in Clusters, Extracted(c) \/ PartlyExtracted(c)
      PROVE  TypeOK'
  <2>1. PICK good \in SUBSET Yield(c) : \E signed \in [good -> BOOLEAN] : Answered(c, good, signed)
    BY <1>3 DEF Extracted, PartlyExtracted
  <2>2. PICK signed \in [good -> BOOLEAN] : Answered(c, good, signed)
    BY <2>1
  <2>3. index' \subseteq Text
    BY <2>2 DEF Answered, TypeOK, Text
  <2>4. /\ failures' \in 0..MaxFailures
        /\ UNCHANGED <<code, disk, pc, fbs, processed, completed, failed, exit, crashes>>
    BY <1>3, <2>2 DEF TypeOK, Extracted, PartlyExtracted, Fails, Answered, Returns
  <2>5. /\ work' \in [Clusters -> {"out", "queued", "ready", "handled"}]
        /\ result' \in [Clusters -> Result \cup {Absent}]
        /\ \A d \in Clusters : work'[d] = "ready" <=> result'[d] # Absent
    BY <2>2, AnswerTyped, ReturnsTyped DEF Answered
  <2>6. QED
    BY <2>3, <2>4, <2>5 DEF TypeOK
<1>4. ASSUME NEW c \in Clusters, NotExtracted(c)
      PROVE  TypeOK'
  <2>1. PICK r \in Result : Returns(c, r)
    BY <1>4 DEF NotExtracted, Result
  <2>2. QED
    BY <1>4, <2>1, ReturnsTyped DEF TypeOK, NotExtracted, Fails, Returns
<1>5. ASSUME NEW c \in Clusters, Collect(c)
      PROVE  TypeOK'
  <2>1. IsBagOf(fbs', FB)
    <3>1. {fb \in result[c].fbs : ~Duplicate(fb)} \in SUBSET FB
      BY <1>5, TakesTyped DEF Collect
    <3>2. QED
      BY <1>5, <3>1, BagAdd DEF TypeOK, Collect
  <2>2. failed' \in Nat
    BY <1>5, TakesTyped DEF TypeOK, Collect
  <2>3. QED
    BY <1>5, <2>1, <2>2, TakesTyped DEF TypeOK, Collect
<1>6. ASSUME NEW c \in Clusters, CollectFailure(c)
      PROVE  TypeOK'
  BY <1>6, TakesTyped DEF TypeOK, CollectFailure
<1>7. ASSUME NEW c \in Clusters, AbortRun(c)
      PROVE  TypeOK'
  BY <1>7, EndsTyped DEF TypeOK, AbortRun, Memory
<1>8. CASE WriteCheckpoint \/ FinalCheckpoint
  BY <1>8 DEF TypeOK, WriteCheckpoint, FinalCheckpoint
<1>9. CASE WriteSegids \/ FinalSegids
  BY <1>9 DEF TypeOK, WriteSegids, FinalSegids, Fails
<1>10. CASE WriteSidecar
  BY <1>10 DEF TypeOK, WriteSidecar
<1>11. CASE FinalRefused \/ Exit
  BY <1>11, EndsTyped DEF TypeOK, FinalRefused, Exit, Memory
<1>12. CASE Upgrade
  BY <1>12 DEF TypeOK, Upgrade
<1>13. CASE Crash
  BY <1>13, EndsTyped DEF TypeOK, Crash, Memory
<1>14. CASE UNCHANGED vars
  BY <1>14 DEF TypeOK, vars
<1>15. QED
  BY <1>1, <1>2, <1>3, <1>4, <1>5, <1>6, <1>7, <1>8, <1>9, <1>10, <1>11, <1>12, <1>13,
     <1>14 DEF Next, StageStep

-----------------------------------------------------------------------------
(* What is saved *)

\* The part of the invariant that is about the disk.
DiskInv == (segids # Absent => ckpt # Absent) /\ SkipsOnlyCovered /\ CertifiedCovers

\* While the files stay, so does what they cover; a new exit code needs nothing
\* unless it is 0.
LEMMA DiskStays ==
    ASSUME TypeOK, DiskInv, UNCHANGED <<ckpt, segids>>, exit' = exit \/ exit' # 0
    PROVE  DiskInv' /\ Resumable' = Resumable /\ \A c \in Clusters : Covers(c)' = Covers(c)
<1>1. Resumable' = Resumable /\ \A c : Covers(c)' = Covers(c)
  BY DEF Resumable, Saved, Covers, Holds
<1>2. {c \in Clusters : ~Covers(c)'} = {c \in Clusters : ~Covers(c)}
  BY <1>1
<1>3. QED
  BY <1>1, <1>2 DEF DiskInv, SkipsOnlyCovered, CertifiedCovers

\* A new checkpoint, of a run that is not done.
LEMMA CheckpointKeeps ==
    ASSUME TypeOK, IInv, pc # "idle", ckpt' = fbs, segids' = segids, exit' # 0
    PROVE  /\ DiskInv' /\ Resumable' = Resumable
           /\ \A c \in processed : Covers(c)'
<1>1. ckpt' # Absent
  BY BagIsThere DEF TypeOK
<1>2. Resumable' = Resumable
  BY <1>1 DEF Resumable, Saved, IInv, FilesInOrder
<1>3. \A c \in processed : Covers(c)'
  BY <1>1 DEF IInv, RunHolds, Covers, Holds
<1>4. QED
  BY <1>1, <1>2, <1>3 DEF DiskInv, IInv, RunHolds, SkipsOnlyCovered, CertifiedCovers

\* New ids, of clusters the checkpoint covers: more of them than before.
LEMMA SegidsKeep ==
    ASSUME TypeOK, IInv, pc # "idle", ckpt = fbs, ckpt' = ckpt, segids' = processed, exit' # 0
    PROVE  /\ DiskInv'
           /\ Resumable \subseteq Resumable' /\ Resumable' \subseteq processed
           /\ \A c \in processed : Covers(c)
<1>1. ckpt # Absent /\ processed # Absent
  BY BagIsThere DEF TypeOK
<1>2. \A c \in processed : Covers(c) /\ Covers(c)'
  BY <1>1 DEF IInv, RunHolds, Covers, Holds
<1>3. Resumable' \subseteq processed /\ Resumable \subseteq processed
  BY DEF Resumable, IInv, RunHolds
<1>4. Resumable \subseteq Resumable'
  BY <1>1, <1>3 DEF Resumable, Saved
<1>5. QED
  BY <1>1, <1>2, <1>3, <1>4 DEF DiskInv, SkipsOnlyCovered, CertifiedCovers

\* At its end a run has covered all but the clusters it counted as failed.
LEMMA EndCovers ==
    ASSUME TypeOK, IInv, pc = "exit"
    PROVE  Cardinality({c \in Clusters : ~Covers(c)}) <= failed
<1>1. \A c \in Clusters : ~Covers(c) => c \in Missed
  BY BagIsThere DEF TypeOK, IInv, RunHolds, FailuresCounted, FilesInOrder, AllHandled, Missed, Covers
<1>2. {c \in Clusters : ~Covers(c)} \subseteq Missed /\ Missed \subseteq Clusters
  BY <1>1 DEF Missed
<1>3. Cardinality({c \in Clusters : ~Covers(c)}) <= Cardinality(Missed)
  BY <1>2, PartFinite, FS_Subset
<1>4. Cardinality({c \in Clusters : ~Covers(c)}) \in Nat /\ Cardinality(Missed) \in Nat
  BY <1>2, PartFinite
<1>5. Cardinality(Missed) <= failed /\ failed \in Nat
  BY DEF TypeOK, IInv, FailuresCounted
<1>6. QED
  BY <1>3, <1>4, <1>5

\* What remains of the invariant once the disk's part is there and the process
\* has ended.
LEMMA EndedKeeps ==
    ASSUME NEW how, Ends(how), DiskInv'
    PROVE  IInv'
BY DEF Ends, NoWork, NoResult, IInv, RunHolds, AnswersWhole, FailuresCounted, Between,
       FilesInOrder, DiskInv

\* An answer counts what is missing in it.
LEMMA AnswerWhole ==
    ASSUME NEW c \in Clusters, NEW good \in SUBSET Yield(c), Cardinality(Yield(c) \ good) = 0
    PROVE  good = Yield(c)
<1>1. IsFiniteSet(Yield(c) \ good)
  BY FS_Subset
<1>2. Yield(c) \ good = {}
  BY <1>1, FS_EmptySet
<1>3. QED
  BY <1>2

\* One cluster more that was handled and is not processed.
LEMMA OneMoreMissed ==
    ASSUME TypeOK, NEW c \in Clusters, Takes(c), processed' = processed
    PROVE  Cardinality(Missed') <= Cardinality(Missed) + 1
<1>1. Missed' \subseteq Missed \cup {c}
  BY DEF TypeOK, Takes, Missed
<1>2. IsFiniteSet(Missed) /\ Missed \subseteq Clusters /\ Cardinality(Missed) \in Nat
  BY PartFinite DEF Missed
<1>3. /\ IsFiniteSet(Missed \cup {c})
      /\ Cardinality(Missed \cup {c}) = IF c \in Missed THEN Cardinality(Missed)
                                        ELSE Cardinality(Missed) + 1
  BY <1>2, FS_AddElement
<1>4. /\ Cardinality(Missed') <= Cardinality(Missed \cup {c})
      /\ Cardinality(Missed') \in Nat
      /\ Cardinality(Missed \cup {c}) \in Nat
  BY <1>1, <1>2, <1>3, FS_Subset, FS_CardinalityType
<1>5. QED
  BY <1>2, <1>3, <1>4

-----------------------------------------------------------------------------
(* The inductive invariant *)

\* A worker's answer leaves the files and what is processed alone.
LEMMA ReturnKeeps ==
    ASSUME TypeOK, IInv, NEW c \in Clusters, NEW r \in Result, Returns(c, r),
           r.kind = "got" /\ r.bad = 0 =>
               \A p \in Yield(c) : \E fb \in r.fbs : fb.principle = p
    PROVE  IInv'
<1>1. UNCHANGED <<ckpt, segids, pc, fbs, processed, failed, exit>> /\ pc # "idle"
  BY DEF Returns, disk
<1>2. DiskInv' /\ Resumable' = Resumable
  BY <1>1, DiskStays DEF IInv, DiskInv, FilesInOrder
<1>3. RunHolds'
  BY <1>1, <1>2 DEF IInv, RunHolds, Holds
<1>4. AnswersWhole'
  BY DEF TypeOK, IInv, AnswersWhole, Returns
<1>5. FailuresCounted'
  <2>1. Missed' = Missed
    BY <1>1 DEF TypeOK, Returns, Missed
  <2>2. QED
    BY <1>1, <2>1 DEF TypeOK, IInv, FailuresCounted, Returns
<1>6. FilesInOrder'
  <2>1. pc \notin {"sidecar", "final", "exit"}
    BY DEF IInv, FilesInOrder, AllHandled, Returns
  <2>2. QED
    BY <1>1, <2>1 DEF IInv, FilesInOrder
<1>7. QED
  BY <1>1, <1>2, <1>3, <1>4, <1>5, <1>6 DEF IInv, Between, DiskInv

\* The main thread adds what it takes to what it holds.
LEMMA CollectKeeps ==
    ASSUME TypeOK, IInv, NEW c \in Clusters, Collect(c) \/ CollectFailure(c)
    PROVE  IInv'
<1>1. /\ UNCHANGED <<ckpt, segids, exit>> /\ Takes(c) /\ pc = "extract"
      /\ pc' \in {"extract", "ckpt"}
  BY DEF Collect, CollectFailure, Takes, disk, faults
<1>2. DiskInv' /\ Resumable' = Resumable
  BY <1>1, DiskStays DEF IInv, DiskInv, FilesInOrder
<1>3. AnswersWhole'
  BY <1>1 DEF TypeOK, IInv, AnswersWhole, Takes
<1>4. RunHolds' /\ FailuresCounted'
  <2>1. CASE Collect(c)
    <3>1. result[c] \in Result /\ result[c].fbs \in SUBSET FB /\ result[c].bad \in Nat
      BY <1>1, TakesTyped
    <3>2. BagToSet(fbs') = BagToSet(fbs) \cup {fb \in result[c].fbs : ~Duplicate(fb)}
      BY <2>1, <3>1, BagAdd DEF TypeOK, Collect
    <3>3. \A d \in Clusters : Holds(fbs, d) => Holds(fbs', d)
      BY <3>2 DEF Holds
    <3>4. result[c].bad = 0 => Holds(fbs', c)
      <4> SUFFICES ASSUME result[c].bad = 0, NEW p \in Yield(c)
                   PROVE  \E fb \in BagToSet(fbs') : fb.principle = p
        BY DEF Holds
      <4>1. PICK fb \in result[c].fbs : fb.principle = p
        BY <2>1, <3>1 DEF IInv, AnswersWhole, Collect, Takes, TypeOK
      <4>2. CASE Duplicate(fb)
        BY <3>2, <4>1, <4>2 DEF Duplicate
      <4>3. CASE ~Duplicate(fb)
        BY <3>2, <4>1, <4>3
      <4>4. QED
        BY <4>2, <4>3
    <3>5. RunHolds'
      BY <1>1, <1>2, <2>1, <3>3, <3>4 DEF TypeOK, IInv, RunHolds, Collect
    <3>6. CASE result[c].bad = 0
      <4>1. Missed' = Missed
        BY <1>1, <2>1, <3>6 DEF TypeOK, Collect, Takes, Missed
      <4>2. QED
        BY <1>1, <2>1, <3>1, <3>5, <3>6, <4>1 DEF TypeOK, IInv, FailuresCounted, Collect, Takes
    <3>7. CASE result[c].bad # 0
      <4>1. processed' = processed /\ failed' = failed + result[c].bad
        BY <2>1, <3>7 DEF Collect
      <4>2. Cardinality(Missed') <= Cardinality(Missed) + 1 /\ Cardinality(Missed) <= failed
        BY <1>1, <4>1, OneMoreMissed DEF IInv, FailuresCounted
      <4>3. Cardinality(Missed') \in Nat /\ Cardinality(Missed) \in Nat
        BY <4>1, PartFinite DEF Missed
      <4>4. Cardinality(Missed') <= failed'
        BY <3>1, <3>7, <4>1, <4>2, <4>3 DEF TypeOK
      <4>5. QED
        BY <1>1, <3>5, <4>1, <4>4 DEF TypeOK, IInv, FailuresCounted, Takes
    <3>8. QED
      BY <3>6, <3>7
  <2>2. CASE CollectFailure(c)
    <3>1. processed' = processed /\ failed' = failed + 1 /\ fbs' = fbs
      BY <2>2 DEF CollectFailure
    <3>2. Cardinality(Missed') <= Cardinality(Missed) + 1 /\ Cardinality(Missed) <= failed
      BY <1>1, <3>1, OneMoreMissed DEF IInv, FailuresCounted
    <3>3. Cardinality(Missed') \in Nat /\ Cardinality(Missed) \in Nat
      BY <3>1, PartFinite DEF Missed
    <3>4. Cardinality(Missed') <= failed'
      BY <3>1, <3>2, <3>3 DEF TypeOK
    <3>5. QED
      BY <1>1, <1>2, <3>1, <3>4 DEF TypeOK, IInv, RunHolds, FailuresCounted, Holds, Takes
  <2>3. QED
    BY <2>1, <2>2
<1>5. QED
  BY <1>1, <1>2, <1>3, <1>4 DEF IInv, Between, FilesInOrder, DiskInv

\* A start holds what it resumes.
LEMMA StartKeeps ==
    ASSUME TypeOK, IInv, Start
    PROVE  IInv'
<1>1. /\ UNCHANGED <<ckpt, segids, result>> /\ exit' = Absent /\ pc' = "extract"
      /\ processed' = Resumable /\ fbs' = ResumedFBs
      /\ work' = [c \in Clusters |-> IF c \in processed' THEN "out" ELSE "queued"]
  BY DEF Start, Goes, disk
<1>2. DiskInv' /\ Resumable' = Resumable
  BY <1>1, DiskStays DEF IInv, DiskInv, FilesInOrder
<1>3. RunHolds'
  <2>1. \A c \in Resumable : Holds(ResumedFBs, c)
    BY DEF IInv, SkipsOnlyCovered, Covers, Holds, Resumable, ResumedFBs
  <2>2. QED
    BY <1>1, <1>2, <2>1 DEF RunHolds, Holds
<1>4. FailuresCounted'
  <2>1. Missed' = {}
    BY <1>1 DEF Missed
  <2>2. Cardinality(Missed') = 0
    BY <2>1, FS_EmptySet
  <2>3. failed' \in Nat
    BY DEF TypeOK, Start
  <2>4. QED
    BY <1>1, <2>2, <2>3 DEF FailuresCounted
<1>5. QED
  BY <1>1, <1>2, <1>3, <1>4 DEF IInv, AnswersWhole, Between, FilesInOrder, DiskInv

\* Every step keeps the invariant.
LEMMA IInvStep == TypeOK /\ IInv /\ [Next]_vars => IInv'
<1> SUFFICES ASSUME TypeOK, IInv, [Next]_vars
             PROVE  IInv'
  OBVIOUS
<1> USE DEF disk, memory, faults, Goes
<1> DiskInv
  BY DEF IInv, DiskInv, FilesInOrder
<1>1. CASE Start
  BY <1>1, StartKeeps
<1>2. CASE RefuseOtherCode \/ Upgrade \/ UNCHANGED vars
  <2>1. /\ UNCHANGED <<ckpt, segids, pc, fbs, processed, work, result, failed>>
        /\ pc # "idle" => exit' = exit
        /\ exit' = exit \/ exit' # 0
    BY <1>2 DEF RefuseOtherCode, Upgrade, vars
  <2>2. DiskInv' /\ Resumable' = Resumable
    BY <2>1, DiskStays
  <2>3. Missed' = Missed
    BY <2>1 DEF Missed
  <2>4. QED
    BY <2>1, <2>2, <2>3 DEF IInv, RunHolds, Holds, AnswersWhole, FailuresCounted, Between,
                            FilesInOrder, AllHandled, DiskInv
<1>3. ASSUME NEW c \in Clusters, Extracted(c) \/ PartlyExtracted(c)
      PROVE  IInv'
  <2>1. PICK good \in SUBSET Yield(c) : \E signed \in [good -> BOOLEAN] : Answered(c, good, signed)
    BY <1>3 DEF Extracted, PartlyExtracted
  <2>2. PICK signed \in [good -> BOOLEAN] : Answered(c, good, signed)
    BY <2>1
  <2> DEFINE got == {[cluster |-> c, principle |-> p, signed |-> signed[p]] : p \in good}
             r == [kind |-> "got", fbs |-> got, bad |-> Cardinality(Yield(c) \ good)]
  <2>3. r \in Result /\ Returns(c, r)
    BY <2>2, AnswerTyped DEF Answered
  <2>4. ASSUME NEW p \in good
        PROVE  \E fb \in got : fb.principle = p
    <3> DEFINE fb == [cluster |-> c, principle |-> p, signed |-> signed[p]]
    <3>1. fb \in got
      OBVIOUS
    <3>2. fb.principle = p
      OBVIOUS
    <3> HIDE DEF fb, got
    <3>3. QED
      BY <3>1, <3>2
  <2>5. r.bad = 0 => \A p \in Yield(c) : \E fb \in r.fbs : fb.principle = p
    <3>1. r.fbs = got /\ r.bad = Cardinality(Yield(c) \ good)
      OBVIOUS
    <3> HIDE DEF got, r
    <3>2. r.bad = 0 => good = Yield(c)
      BY <3>1, AnswerWhole
    <3>3. QED
      BY <2>4, <3>1, <3>2
  <2>6. QED
    BY <2>3, <2>5, ReturnKeeps
<1>4. ASSUME NEW c \in Clusters, NotExtracted(c)
      PROVE  IInv'
  <2>1. PICK r \in Result : Returns(c, r) /\ ~(r.kind = "got" /\ r.bad = 0)
    BY <1>4 DEF NotExtracted, Result
  <2>2. QED
    BY <2>1, ReturnKeeps
<1>5. ASSUME NEW c \in Clusters, Collect(c) \/ CollectFailure(c)
      PROVE  IInv'
  BY <1>5, CollectKeeps
<1>6. ASSUME NEW c \in Clusters, AbortRun(c)
      PROVE  IInv'
  BY <1>6, CheckpointKeeps, EndsTyped, EndedKeeps DEF AbortRun
<1>7. CASE WriteCheckpoint \/ FinalCheckpoint
  <2>1. /\ pc # "idle" /\ ckpt' = fbs /\ segids' = segids /\ exit' = exit
        /\ UNCHANGED <<fbs, processed, work, result, failed>>
        /\ pc' = "segids" \/ (pc' = "sidecar" /\ AllHandled)
    BY <1>7 DEF WriteCheckpoint, FinalCheckpoint
  <2>2. DiskInv' /\ Resumable' = Resumable
    BY <2>1, CheckpointKeeps DEF IInv, RunHolds
  <2>3. Missed' = Missed /\ AllHandled' = AllHandled
    BY <2>1 DEF Missed, AllHandled
  <2>4. QED
    BY <2>1, <2>2, <2>3 DEF IInv, RunHolds, Holds, AnswersWhole, FailuresCounted, Between,
                            FilesInOrder, DiskInv
<1>8. CASE WriteSegids \/ FinalSegids
  <2>1. /\ pc \in {"segids", "final"} /\ pc' \in {"extract", "exit"} /\ ckpt' = ckpt
        /\ pc' = "exit" => pc = "final"
        /\ segids' \in {processed, segids} /\ exit' = exit
        /\ UNCHANGED <<fbs, processed, work, result, failed>>
    BY <1>8 DEF WriteSegids, FinalSegids
  <2>2. DiskInv' /\ Resumable' \subseteq processed
    <3>1. ckpt = fbs /\ exit' # 0
      BY <2>1 DEF IInv, FilesInOrder, RunHolds
    <3>2. CASE segids' = processed
      BY <2>1, <3>1, <3>2, SegidsKeep
    <3>3. CASE segids' = segids
      BY <2>1, <3>1, <3>3, DiskStays DEF IInv, RunHolds
    <3>4. QED
      BY <2>1, <3>2, <3>3
  <2>3. Missed' = Missed /\ AllHandled' = AllHandled
    BY <2>1 DEF Missed, AllHandled
  <2>4. QED
    BY <2>1, <2>2, <2>3 DEF IInv, RunHolds, Holds, AnswersWhole, FailuresCounted, Between,
                            FilesInOrder, DiskInv
<1>9. CASE WriteSidecar
  <2>1. /\ pc = "sidecar" /\ pc' = "final" /\ exit' = exit
        /\ UNCHANGED <<ckpt, segids, fbs, processed, work, result, failed>>
    BY <1>9 DEF WriteSidecar
  <2>2. DiskInv' /\ Resumable' = Resumable
    BY <2>1, DiskStays
  <2>3. Missed' = Missed /\ AllHandled' = AllHandled
    BY <2>1 DEF Missed, AllHandled
  <2>4. QED
    BY <2>1, <2>2, <2>3 DEF IInv, RunHolds, Holds, AnswersWhole, FailuresCounted, Between,
                            FilesInOrder, DiskInv
<1>10. CASE FinalRefused \/ Crash
  <2>1. Ends(1) /\ UNCHANGED <<ckpt, segids>>
    BY <1>10 DEF FinalRefused, Crash
  <2>2. QED
    BY <2>1, DiskStays, EndsTyped, EndedKeeps
<1>11. CASE Exit
  <2>1. UNCHANGED <<ckpt, segids>> /\ pc = "exit"
    BY <1>11 DEF Exit
  <2>2. CASE failed <= MaxFailed
    <3>1. Ends(0)
      BY <1>11, <2>2 DEF Exit
    <3>2. Cardinality({c \in Clusters : ~Covers(c)}) <= MaxFailed
      <4>1. Cardinality({c \in Clusters : ~Covers(c)}) \in Nat /\ failed \in Nat
        BY PartFinite DEF TypeOK
      <4>2. QED
        BY <2>1, <2>2, <4>1, EndCovers
    <3>3. /\ {c \in Clusters : ~Covers(c)'} = {c \in Clusters : ~Covers(c)}
          /\ Resumable' = Resumable /\ SkipsOnlyCovered'
      BY <2>1 DEF Covers, Holds, Resumable, Saved, DiskInv, SkipsOnlyCovered
    <3>4. DiskInv'
      BY <2>1, <3>2, <3>3 DEF DiskInv, CertifiedCovers
    <3>5. QED
      BY <3>1, <3>4, EndedKeeps
  <2>3. CASE ~(failed <= MaxFailed)
    <3>1. Ends(1)
      BY <1>11, <2>3 DEF Exit
    <3>2. QED
      BY <2>1, <3>1, DiskStays, EndsTyped, EndedKeeps
  <2>4. QED
    BY <2>2, <2>3
<1>12. QED
  BY <1>1, <1>2, <1>3, <1>4, <1>5, <1>6, <1>7, <1>8, <1>9, <1>10, <1>11 DEF Next, StageStep

-----------------------------------------------------------------------------
(* The theorems *)

\* Types and what is held, counted and saved are one inductive invariant.
LEMMA Inductive == Spec => [](TypeOK /\ IInv)
<1>1. Init => TypeOK
  BY BagEmpty DEF Init, TypeOK, NoWork, NoResult
<1>2. Init => IInv
  BY DEF Init, NoWork, NoResult, IInv, RunHolds, AnswersWhole, FailuresCounted, Between,
         FilesInOrder, SkipsOnlyCovered, Resumable, Saved, CertifiedCovers
<1>3. TypeOK /\ IInv /\ [Next]_vars => TypeOK' /\ IInv'
  BY TypeOKStep, IInvStep
<1>4. QED
  BY <1>1, <1>2, <1>3, PTL DEF Spec

\* The variables of Stage 2 keep their types.
THEOREM TypeCorrect == Spec => []TypeOK
BY Inductive, PTL

\* No start skips a cluster with a principle that is not in the checkpoint
\* ("never data loss").
THEOREM ResumeSkipsCovered == Spec => []SkipsOnlyCovered
<1>1. IInv => SkipsOnlyCovered
  BY DEF IInv
<1>2. QED
  BY <1>1, Inductive, PTL

\* A run that exits 0 leaves no more clusters uncovered than the tolerance
\* allows (D2331).
THEOREM CertifiedIsCovered == Spec => []CertifiedCovers
<1>1. IInv => CertifiedCovers
  BY DEF IInv
<1>2. QED
  BY <1>1, Inductive, PTL

\* Nothing is certified while a run goes on.
LEMMA RunUncertified ==
    ASSUME IInv, pc # "idle"
    PROVE  exit # 0
BY DEF IInv, RunHolds

\* A step that leaves the files alone and does not certify is a Resume.
LEMMA ResumeStep ==
    ASSUME TypeOK, IInv, UNCHANGED <<ckpt, segids>>, exit' # 0
    PROVE  Work!Resume
<1>1. Resumable' = Resumable /\ \A c \in Clusters : Covers(c)' = Covers(c)
  BY DiskStays DEF IInv, DiskInv, FilesInOrder
<1>2. {c \in Clusters : Covers(c)}' = {c \in Clusters : Covers(c)}
  BY <1>1
<1>3. (exit = 0)' = FALSE
  OBVIOUS
<1>4. QED
  BY <1>1, <1>2, <1>3 DEF Work!Resume

\* One that writes the checkpoint is a Save.
LEMMA SaveStep ==
    ASSUME TypeOK, IInv, pc # "idle", ckpt' = fbs, segids' = segids, exit' # 0
    PROVE  Work!Save
<1>1. Resumable' = Resumable /\ \A c \in processed : Covers(c)'
  BY CheckpointKeeps
<1>2. Resumable \subseteq {c \in Clusters : Covers(c)}'
  BY <1>1 DEF TypeOK, IInv, RunHolds
<1>3. QED
  BY <1>1, <1>2 DEF Work!Save

\* One that writes the ids is a Keep.
LEMMA KeepStep ==
    ASSUME TypeOK, IInv, pc # "idle", ckpt = fbs, ckpt' = ckpt, segids' = processed, exit' # 0
    PROVE  Work!Keep
<1>1. Resumable \subseteq Resumable' /\ Resumable' \subseteq processed
  BY SegidsKeep
<1>2. \A c \in processed : Covers(c)
  BY SegidsKeep
<1>3. \A c \in Clusters : Covers(c)' = Covers(c)
  BY DEF Covers, Holds
<1>4. {c \in Clusters : Covers(c)}' = {c \in Clusters : Covers(c)}
  BY <1>3
<1>5. Resumable' \subseteq {c \in Clusters : Covers(c)}
  BY <1>1, <1>2 DEF TypeOK
<1>6. QED
  BY <1>1, <1>4, <1>5 DEF Work!Keep

\* Every step of Stage 2 is a step of the resumable work, or none.
LEMMA WorkStep == TypeOK /\ IInv /\ [Next]_vars => [Work!Next]_(Work!vars)
<1> SUFFICES ASSUME TypeOK, IInv, [Next]_vars
             PROVE  [Work!Next]_(Work!vars)
  OBVIOUS
<1> USE DEF disk, memory, faults, Goes
<1>1. ASSUME UNCHANGED <<ckpt, segids>>, exit' = exit \/ exit' # 0
      PROVE  [Work!Next]_(Work!vars)
  <2>1. CASE exit' # 0
    BY <1>1, <2>1, ResumeStep DEF Work!Next
  <2>2. CASE exit' = exit
    <3>1. Resumable' = Resumable /\ \A c \in Clusters : Covers(c)' = Covers(c)
      BY <1>1, DiskStays DEF IInv, DiskInv, FilesInOrder
    <3>2. {c \in Clusters : Covers(c)}' = {c \in Clusters : Covers(c)}
      BY <3>1
    <3>3. QED
      BY <2>2, <3>1, <3>2 DEF Work!vars
  <2>3. QED
    BY <1>1, <2>1, <2>2
<1>2. CASE Start \/ RefuseOtherCode \/ WriteSidecar \/ Upgrade \/ UNCHANGED vars
  BY <1>1, <1>2 DEF Start, RefuseOtherCode, WriteSidecar, Upgrade, vars
<1>3. ASSUME NEW c \in Clusters, Extracted(c) \/ PartlyExtracted(c) \/ NotExtracted(c)
      PROVE  [Work!Next]_(Work!vars)
  BY <1>1, <1>3 DEF Extracted, PartlyExtracted, NotExtracted, Answered, Returns
<1>4. ASSUME NEW c \in Clusters, Collect(c) \/ CollectFailure(c)
      PROVE  [Work!Next]_(Work!vars)
  BY <1>1, <1>4 DEF Collect, CollectFailure
<1>5. ASSUME NEW c \in Clusters, AbortRun(c)
      PROVE  [Work!Next]_(Work!vars)
  BY <1>5, SaveStep, EndsTyped DEF AbortRun, Work!Next
<1>6. CASE WriteCheckpoint \/ FinalCheckpoint
  <2>1. pc # "idle" /\ ckpt' = fbs /\ segids' = segids /\ exit' = exit
    BY <1>6 DEF WriteCheckpoint, FinalCheckpoint
  <2>2. QED
    BY <2>1, RunUncertified, SaveStep DEF Work!Next
<1>7. CASE WriteSegids \/ FinalSegids
  <2>1. /\ pc # "idle" /\ ckpt = fbs /\ ckpt' = ckpt /\ exit' = exit
        /\ segids' \in {processed, segids}
    BY <1>7 DEF WriteSegids, FinalSegids, IInv, FilesInOrder
  <2>2. CASE segids' = processed
    BY <2>1, <2>2, RunUncertified, KeepStep DEF Work!Next
  <2>3. CASE segids' = segids
    BY <1>1, <2>1, <2>3
  <2>4. QED
    BY <2>1, <2>2, <2>3
<1>8. CASE FinalRefused \/ Crash
  BY <1>1, <1>8, EndsTyped DEF FinalRefused, Crash
<1>9. CASE Exit
  <2>1. UNCHANGED <<ckpt, segids>> /\ pc = "exit"
    BY <1>9 DEF Exit
  <2>2. CASE ~(failed <= MaxFailed)
    BY <1>1, <1>9, <2>1, <2>2, EndsTyped DEF Exit
  <2>3. CASE failed <= MaxFailed
    <3>1. exit' = 0
      BY <1>9, <2>3 DEF Exit, Ends
    <3>2. Clusters \ {c \in Clusters : Covers(c)} = {c \in Clusters : ~Covers(c)}
      OBVIOUS
    <3>3. Cardinality(Clusters \ {c \in Clusters : Covers(c)}) <= MaxFailed
      <4>1. Cardinality({c \in Clusters : ~Covers(c)}) \in Nat /\ failed \in Nat
        BY PartFinite DEF TypeOK
      <4>2. QED
        BY <2>1, <2>3, <3>2, <4>1, EndCovers
    <3>4. Resumable' = Resumable /\ \A c \in Clusters : Covers(c)' = Covers(c)
      BY <2>1 DEF Covers, Holds, Resumable, Saved
    <3>5. {c \in Clusters : Covers(c)}' = {c \in Clusters : Covers(c)}
      BY <3>4
    <3>6. Work!Certify
      <4>1. (exit = 0)' = TRUE
        BY <3>1
      <4>2. UNCHANGED <<{c \in Clusters : Covers(c)}, Resumable>>
        BY <3>4, <3>5
      <4>3. Work!Cardinality(Clusters \ {c \in Clusters : Covers(c)})
            = Cardinality(Clusters \ {c \in Clusters : Covers(c)})
        BY DEF Work!Cardinality, Cardinality
      <4>4. QED
        BY <3>3, <4>1, <4>2, <4>3 DEF Work!Certify
    <3>7. QED
      BY <3>6 DEF Work!Next
  <2>4. QED
    BY <2>2, <2>3
<1>10. QED
  BY <1>2, <1>3, <1>4, <1>5, <1>6, <1>7, <1>8, <1>9 DEF Next, StageStep

\* Stage 2 implements ResumableWork, whatever crashes, fails or is refused.
THEOREM Implements == Spec => IsResumable
<1>1. Init => Work!Init
  BY DEF Init, Work!Init, Covers, Resumable, Saved
<1>2. QED
  BY <1>1, Inductive, WorkStep, PTL DEF Spec, IsResumable, Work!Spec

=============================================================================
