-------------------------- MODULE EmbedCacheProofs --------------------------
(***************************************************************************)
(* Proofs about Stage 1.5's embedding cache, for any batches, corpora,     *)
(* versions of the code, sizes and bounds: type correctness, that clusters *)
(* are built on embeddings of their own segments only and, without a       *)
(* crash, of one version of the code, and that the cache keeps what it     *)
(* has taken.                                                              *)
(***************************************************************************)
EXTENDS EmbedCache, TLAPS

USE SetsAssumption, SizesAssumption

-----------------------------------------------------------------------------
(* Type correctness *)

Disk   == state \in States \cup {Absent} /\ sidecar \in Codes \cup {Absent}
Files  == file \in [Batches -> Embedding \cup {Absent}]
Memory == /\ fp \in Corpora
          /\ results \in [Batches -> (SUBSET Embedding) \cup {Absent}]
          /\ done \subseteq Batches
          /\ batch \in Batches \cup {Absent}

\* A process that ends, or has not begun, has well-typed memory.
LEMMA EndsTyped == Ends => Memory' /\ pc' \in Phases
BY DEF Ends, Memory, NoResults, Phases

\* rmtree removes files and changes none.
LEMMA RemoveOneTyped ==
    ASSUME TypeOK, RemoveOne
    PROVE  /\ Disk' /\ Files'
           /\ state' \in {state, Absent}
           /\ \A b \in Batches : file'[b] \in {file[b], Absent}
           /\ UNCHANGED <<corpus, code, ckpt, pc, fp, results, done, batch, crashes, failures>>
<1> USE DEF TypeOK, RemoveOne, Disk, Files, memory, faults
<1>1. UNCHANGED <<corpus, code, ckpt, pc, fp, results, done, batch, crashes, failures>>
  OBVIOUS
<1>2. CASE \E b \in Batches : /\ file[b] # Absent
                              /\ file' = [file EXCEPT ![b] = Absent]
                              /\ UNCHANGED <<state, sidecar>>
  BY <1>1, <1>2
<1>3. CASE state # Absent /\ state' = Absent /\ UNCHANGED <<sidecar, file>>
  BY <1>1, <1>3
<1>4. CASE sidecar # Absent /\ sidecar' = Absent /\ UNCHANGED <<state, file>>
  BY <1>1, <1>4
<1>5. QED
  BY <1>2, <1>3, <1>4

\* The clusters that are written hold an embedding, or none, for every batch.
LEMMA ClustersTyped ==
    ASSUME TypeOK, InProgress, WriteClusters
    PROVE  /\ ckpt' \in Clusters
           /\ ckpt'.fp = fp
           /\ \A b \in Batches : ckpt'.embeddings[b] # Absent =>
                                     /\ results[b] # Absent
                                     /\ ckpt'.embeddings[b] \in results[b]
<1> DEFINE Chosen(b) == IF b \in Dropped THEN Absent ELSE CHOOSE e \in results[b] : TRUE
<1>1. pc = "cluster" /\ ckpt' = [fp |-> fp, embeddings |-> [b \in Batches |-> Chosen(b)]]
  BY DEF WriteClusters, Goes
<1>2. ASSUME NEW b \in Batches
      PROVE  /\ Chosen(b) \in Embedding \cup {Absent}
             /\ Chosen(b) # Absent => results[b] # Absent /\ Chosen(b) \in results[b]
  <2>1. results[b] # Absent /\ results[b] \in SUBSET Embedding
    BY <1>1 DEF TypeOK, InProgress, Pending
  <2>2. CASE b \in Dropped
    BY <2>2
  <2>3. CASE b \notin Dropped
    <3>1. results[b] # {}
      BY <2>3 DEF Dropped
    <3>2. Chosen(b) \in results[b]
      BY <2>3, <3>1
    <3>3. QED
      BY <2>1, <3>2
  <2>4. QED
    BY <2>2, <2>3
<1> HIDE DEF Chosen
<1>3. [b \in Batches |-> Chosen(b)] \in [Batches -> Embedding \cup {Absent}]
  BY <1>2
<1>4. QED
  BY <1>1, <1>2, <1>3 DEF TypeOK, Clusters

\* No step of the stage, of the operator or of a crash breaks the types.
LEMMA TypeOKStep ==
    ASSUME TypeOK, IInv, [Next]_vars
    PROVE  TypeOK'
<1> USE DEF TypeOK, disk, memory, faults, Goes
<1> HIDE DEF States, Clusters, Embedding
<1>1. CASE CorpusChanges \/ Upgrade
  BY <1>1 DEF CorpusChanges, Upgrade
<1>2. CASE Start \/ PassCodeCheck \/ DiscardEnds \/ EmbeddingEnds
  BY <1>2 DEF Start, PassCodeCheck, DiscardEnds, EmbeddingEnds, Phases
<1>3. CASE RefuseOtherCode \/ DropGateFails \/ ClustersRefused \/ Finishes
  BY <1>3, EndsTyped DEF RefuseOtherCode, DropGateFails, ClustersRefused, Finishes, Memory
<1>4. CASE Crash
  BY <1>4, EndsTyped DEF Crash, Memory
<1>5. CASE Discard \/ Clean
  BY <1>5, RemoveOneTyped DEF Discard, Clean, Disk, Files
<1>6. CASE LoadCache
  <2>1. state \in States
    BY <1>6 DEF LoadCache, IInv, CacheIsOwn
  <2>2. state.done \subseteq Batches
    BY <2>1 DEF States
  <2>3. done' \subseteq Batches /\ \A b \in done' : file[b] \in Embedding
    BY <1>6, <2>2 DEF LoadCache
  <2>4. results' \in [Batches -> (SUBSET Embedding) \cup {Absent}]
    BY <1>6, <2>3 DEF LoadCache
  <2>5. QED
    BY <1>6, <2>3, <2>4 DEF LoadCache, Phases
<1>7. CASE Embedded
  <2>1. PICK b \in Pending : results' = [results EXCEPT ![b] = {[of |-> fp, by |-> code]}]
                            /\ batch' = b
    BY <1>7 DEF Embedded
  <2>2. [of |-> fp, by |-> code] \in Embedding
    BY DEF Embedding
  <2>3. QED
    BY <1>7, <2>1, <2>2 DEF Embedded, Pending, Phases
<1>8. CASE Quarantined
  BY <1>8 DEF Quarantined, Pending
<1>9. CASE WriteFile
  <2>1. batch \in Batches /\ results[batch] \subseteq Embedding
    BY <1>9 DEF WriteFile, IInv, InProgress
  <2>2. QED
    BY <1>9, <2>1 DEF WriteFile, Phases
<1>10. CASE WriteState
  <2>1. state' \in States
    BY <1>10 DEF WriteState, States
  <2>2. QED
    BY <1>10, <2>1 DEF WriteState, Phases
<1>11. CASE StateRefused
  BY <1>11 DEF StateRefused, Phases
<1>12. CASE WriteSidecar
  BY <1>12 DEF WriteSidecar, Phases
<1>13. CASE WriteClusters
  <2>1. ckpt' \in Clusters
    BY <1>13, ClustersTyped DEF IInv
  <2>2. QED
    BY <1>13, <2>1 DEF WriteClusters, Phases
<1>14. CASE UNCHANGED vars
  BY <1>14 DEF vars
<1>15. QED
  BY <1>1, <1>2, <1>3, <1>4, <1>5, <1>6, <1>7, <1>8, <1>9, <1>10, <1>11, <1>12,
     <1>13, <1>14
     DEF Next, StageStep

-----------------------------------------------------------------------------
(* The inductive invariant *)

\* The memory of a process that ends claims nothing.
LEMMA EndsClaimsNothing ==
    ASSUME IInv, Ends, UNCHANGED disk
    PROVE  IInv'
BY DEF IInv, Ends, disk, ListedMatch, CacheIsOwn, NothingYet, WorkIsOwn, InProgress,
       ClustersMatchCorpus, NoResults

\* A step of rmtree leaves less to claim.
LEMMA RemoveOneClaimsLess ==
    ASSUME TypeOK, IInv, RemoveOne, pc \in {"discard", "clean"}
    PROVE  IInv'
<1> USE RemoveOneTyped DEF TypeOK
<1>1. ListedMatch'
  BY DEF IInv, ListedMatch, States
<1>2. CacheIsOwn' /\ NothingYet' /\ InProgress'
  BY DEF IInv, CacheIsOwn, NothingYet, InProgress, NoResults
<1>3. WorkIsOwn'
  BY DEF IInv, WorkIsOwn
<1>4. ClustersMatchCorpus'
  BY DEF IInv, ClustersMatchCorpus
<1>5. QED
  BY <1>1, <1>2, <1>3, <1>4 DEF IInv

\* Every step, a crash included, keeps the inductive invariant.
LEMMA IInvStep ==
    ASSUME TypeOK, IInv, [Next]_vars
    PROVE  IInv'
<1> USE DEF TypeOK, disk, memory, faults, Goes
<1>1. CASE CorpusChanges \/ Upgrade
  BY <1>1 DEF CorpusChanges, Upgrade, IInv, ListedMatch, CacheIsOwn, NothingYet,
              WorkIsOwn, InProgress, ClustersMatchCorpus, Pending
<1>2. CASE Start
  BY <1>2 DEF Start, IInv, ListedMatch, CacheIsOwn, NothingYet, WorkIsOwn, InProgress,
              ClustersMatchCorpus, NoResults
<1>3. CASE PassCodeCheck
  BY <1>3 DEF PassCodeCheck, FingerprintMatches, IInv, ListedMatch, CacheIsOwn,
              NothingYet, WorkIsOwn, InProgress, ClustersMatchCorpus
<1>4. CASE DiscardEnds \/ EmbeddingEnds
  BY <1>4 DEF DiscardEnds, CacheGone, EmbeddingEnds, IInv, ListedMatch, CacheIsOwn,
              NothingYet, WorkIsOwn, InProgress, ClustersMatchCorpus, Pending
<1>5. CASE RefuseOtherCode \/ DropGateFails \/ ClustersRefused \/ Finishes \/ Crash
  BY <1>5, EndsClaimsNothing
     DEF RefuseOtherCode, DropGateFails, ClustersRefused, Finishes, Crash
<1>6. CASE Discard \/ Clean
  BY <1>6, RemoveOneClaimsLess DEF Discard, Clean
<1>7. CASE LoadCache
  <2>1. state # Absent /\ state \in States /\ state.fp = fp
    BY <1>7 DEF LoadCache, IInv, CacheIsOwn
  <2>2. state.done \subseteq Batches
    BY <2>1 DEF States
  <2>3. done' = {b \in state.done : file[b] # Absent} /\ done' \subseteq Batches
    BY <1>7, <2>2 DEF LoadCache
  <2>4. \A b \in Batches : results'[b] = IF b \in done' THEN {file[b]} ELSE Absent
    BY <1>7 DEF LoadCache
  <2>5. \A b \in done' : file[b].of = fp
    BY <2>1, <2>2, <2>3 DEF IInv, ListedMatch
  <2>6. fp' = fp /\ file' = file
    BY <1>7 DEF LoadCache
  <2>7. WorkIsOwn'
    <3>1. ASSUME NEW b \in Batches, results'[b] # Absent, NEW e \in results'[b]
          PROVE  e.of = fp
      <4>1. b \in done'
        BY <2>4, <3>1
      <4>2. e = file[b]
        BY <2>4, <3>1, <4>1
      <4>3. QED
        BY <2>5, <4>1, <4>2
    <3>2. QED
      BY <2>5, <2>6, <3>1 DEF WorkIsOwn
  <2>8. ListedMatch' /\ CacheIsOwn' /\ NothingYet' /\ InProgress' /\ ClustersMatchCorpus'
    BY <1>7, <2>1 DEF LoadCache, IInv, ListedMatch, CacheIsOwn, NothingYet, InProgress,
                      ClustersMatchCorpus
  <2>9. QED
    BY <2>7, <2>8 DEF IInv
<1>8. CASE Embedded
  <2>1. PICK b \in Pending : results' = [results EXCEPT ![b] = {[of |-> fp, by |-> code]}]
                            /\ batch' = b
    BY <1>8 DEF Embedded
  <2>2. b \in Batches /\ results'[b] = {[of |-> fp, by |-> code]}
    BY <2>1 DEF Pending
  <2>3. [of |-> fp, by |-> code] \in Embedding
    BY DEF Embedding
  <2>4. \A c \in Batches : c # b => results'[c] = results[c]
    BY <2>1
  <2>5. WorkIsOwn'
    BY <1>8, <2>2, <2>4 DEF Embedded, IInv, WorkIsOwn
  <2>6. InProgress'
    <3>1. {[of |-> fp, by |-> code]} # Absent
      BY <2>3
    <3>2. QED
      BY <1>8, <2>1, <2>2, <3>1 DEF Embedded, InProgress
  <2>7. ListedMatch' /\ CacheIsOwn' /\ NothingYet' /\ ClustersMatchCorpus'
    BY <1>8 DEF Embedded, IInv, ListedMatch, CacheIsOwn, NothingYet, ClustersMatchCorpus
  <2>8. QED
    BY <2>5, <2>6, <2>7 DEF IInv
<1>9. CASE Quarantined
  <2>1. PICK b \in Pending : results' = [results EXCEPT ![b] = {}]
    BY <1>9 DEF Quarantined
  <2>2. \A c \in Batches : results'[c] \in {results[c], {}}
    BY <2>1 DEF Pending
  <2>3. WorkIsOwn'
    BY <1>9, <2>2 DEF Quarantined, IInv, WorkIsOwn
  <2>4. ListedMatch' /\ CacheIsOwn' /\ NothingYet' /\ InProgress' /\ ClustersMatchCorpus'
    BY <1>9 DEF Quarantined, IInv, ListedMatch, CacheIsOwn, NothingYet, InProgress,
                ClustersMatchCorpus
  <2>5. QED
    BY <2>3, <2>4 DEF IInv
<1>10. CASE WriteFile
  <2>1. batch \in Batches /\ results[batch] # Absent
    BY <1>10 DEF WriteFile, IInv, InProgress
  <2>2. PICK e \in results[batch] : file' = [file EXCEPT ![batch] = e]
    BY <1>10 DEF WriteFile
  <2>3. e.of = fp
    BY <2>1, <2>2 DEF IInv, WorkIsOwn
  <2>4. file'[batch] = e /\ \A c \in Batches : c # batch => file'[c] = file[c]
    BY <2>1, <2>2
  <2>5. WorkIsOwn'
    BY <1>10, <2>3, <2>4 DEF WriteFile, IInv, WorkIsOwn
  <2>6. state # Absent => state.fp = fp /\ state.done \subseteq Batches
    BY <1>10 DEF WriteFile, IInv, CacheIsOwn, States
  <2>7. ListedMatch'
    BY <1>10, <2>3, <2>4, <2>6 DEF WriteFile, IInv, ListedMatch
  <2>8. CacheIsOwn' /\ NothingYet' /\ InProgress' /\ ClustersMatchCorpus'
    BY <1>10 DEF WriteFile, IInv, CacheIsOwn, NothingYet, InProgress, ClustersMatchCorpus
  <2>9. QED
    BY <2>5, <2>7, <2>8 DEF IInv
<1>11. CASE WriteState
  BY <1>11 DEF WriteState, IInv, ListedMatch, CacheIsOwn, NothingYet, WorkIsOwn,
               InProgress, ClustersMatchCorpus
<1>12. CASE StateRefused
  <2>1. \A c \in Batches : results'[c] \in {results[c], {}}
    BY <1>12 DEF StateRefused
  <2>2. WorkIsOwn'
    BY <1>12, <2>1 DEF StateRefused, IInv, WorkIsOwn
  <2>3. ListedMatch' /\ CacheIsOwn' /\ NothingYet' /\ InProgress' /\ ClustersMatchCorpus'
    BY <1>12 DEF StateRefused, IInv, ListedMatch, CacheIsOwn, NothingYet, InProgress,
                 ClustersMatchCorpus
  <2>4. QED
    BY <2>2, <2>3 DEF IInv
<1>13. CASE WriteSidecar
  BY <1>13 DEF WriteSidecar, IInv, ListedMatch, CacheIsOwn, NothingYet, WorkIsOwn,
               InProgress, ClustersMatchCorpus
<1>14. CASE WriteClusters
  <2>1. ClustersMatchCorpus'
    BY <1>14, ClustersTyped DEF IInv, WorkIsOwn, ClustersMatchCorpus
  <2>2. ListedMatch' /\ CacheIsOwn' /\ NothingYet' /\ WorkIsOwn' /\ InProgress'
    BY <1>14 DEF WriteClusters, IInv, ListedMatch, CacheIsOwn, NothingYet, WorkIsOwn,
                 InProgress
  <2>3. QED
    BY <2>1, <2>2 DEF IInv
<1>15. CASE UNCHANGED vars
  BY <1>15 DEF vars, IInv, ListedMatch, CacheIsOwn, NothingYet, WorkIsOwn, InProgress,
               ClustersMatchCorpus, Pending
<1>16. QED
  BY <1>1, <1>2, <1>3, <1>4, <1>5, <1>6, <1>7, <1>8, <1>9, <1>10, <1>11, <1>12,
     <1>13, <1>14, <1>15
     DEF Next, StageStep

\* The type and the inductive invariant hold in every reachable state.
LEMMA InvHolds == Spec => [](TypeOK /\ IInv)
<1>1. Init => TypeOK /\ IInv
  <2> USE DEF Init, NoFiles, NoResults
  <2>1. Init => TypeOK
    BY DEF TypeOK, Phases
  <2>2. Init => IInv
    BY DEF IInv, ListedMatch, CacheIsOwn, NothingYet, WorkIsOwn, InProgress,
           ClustersMatchCorpus
  <2>3. QED
    BY <2>1, <2>2
<1>2. TypeOK /\ IInv /\ [Next]_vars => (TypeOK /\ IInv)'
  BY TypeOKStep, IInvStep
<1>3. QED
  BY <1>1, <1>2, PTL DEF Spec

-----------------------------------------------------------------------------
(* What a later start takes up *)

\* A step that leaves the books, state.json and the files alone keeps the same.
LEMMA KeptUnchanged ==
    ASSUME UNCHANGED <<corpus, state, file>>
    PROVE  Kept' = Kept
BY DEF Kept

\* Every step keeps TakesUp, and no step before the cleaning keeps less.
LEMMA TakesUpStep ==
    ASSUME TypeOK, IInv, TakesUp, [Next]_vars
    PROVE  /\ TakesUp'
           /\ corpus' = corpus /\ pc # "clean" => Kept \subseteq Kept'
<1> USE DEF disk, memory, faults, Goes
<1>1. CASE CorpusChanges
  BY <1>1 DEF CorpusChanges, TakesUp, TypeOK
<1>2. CASE Upgrade
  BY <1>2, KeptUnchanged DEF Upgrade, TakesUp
<1>3. CASE Start
  BY <1>3, KeptUnchanged DEF Start, TakesUp
<1>4. CASE PassCodeCheck
  BY <1>4, KeptUnchanged DEF PassCodeCheck, FingerprintMatches, TakesUp, Kept
<1>5. CASE RefuseOtherCode \/ DropGateFails \/ ClustersRefused \/ Finishes \/ Crash
  BY <1>5, KeptUnchanged
     DEF RefuseOtherCode, DropGateFails, ClustersRefused, Finishes, Crash, Ends, TakesUp
<1>6. CASE Discard \/ Clean
  <2>1. RemoveOne /\ pc \in {"discard", "clean"}
    BY <1>6 DEF Discard, Clean
  <2>2. UNCHANGED <<corpus, pc, fp, done>> /\ state' \in {state, Absent}
    BY <2>1, RemoveOneTyped
  <2>3. \A b \in Batches : file'[b] \in {file[b], Absent}
    BY <2>1, RemoveOneTyped
  <2>4. state # Absent => state.done \subseteq Batches
    BY DEF TypeOK, States
  <2>5. Kept' \subseteq Kept
    BY <2>2, <2>3, <2>4 DEF Kept
  <2>6. pc = "discard" => Kept = {}
    BY DEF TakesUp
  <2>7. QED
    BY <2>1, <2>2, <2>5, <2>6 DEF TakesUp
<1>7. CASE LoadCache
  BY <1>7, KeptUnchanged DEF LoadCache, IInv, CacheIsOwn, TakesUp, Kept
<1>8. CASE DiscardEnds
  BY <1>8, KeptUnchanged DEF DiscardEnds, TakesUp
<1>9. CASE Embedded \/ Quarantined \/ StateRefused \/ WriteSidecar \/ EmbeddingEnds \/ WriteClusters
  BY <1>9, KeptUnchanged
     DEF Embedded, Quarantined, StateRefused, WriteSidecar, EmbeddingEnds, WriteClusters,
         TakesUp
<1>10. CASE WriteFile
  <2>1. batch \in Batches /\ results[batch] \subseteq Embedding
    BY <1>10 DEF WriteFile, IInv, InProgress, TypeOK
  <2>2. PICK e \in results[batch] : file' = [file EXCEPT ![batch] = e]
    BY <1>10 DEF WriteFile
  <2>3. e # Absent
    BY <2>1, <2>2
  <2>4. file'[batch] = e /\ \A c \in Batches : c # batch => file'[c] = file[c]
    BY <2>1, <2>2 DEF TypeOK
  <2>5. state # Absent => state.done \subseteq Batches
    BY DEF TypeOK, States
  <2>6. Kept \subseteq Kept' /\ Kept' \subseteq Kept \cup {batch}
    BY <1>10, <2>3, <2>4, <2>5 DEF WriteFile, Kept
  <2>7. QED
    BY <1>10, <2>6 DEF WriteFile, TakesUp
<1>11. CASE WriteState
  <2>1. Kept' = {b \in done : file[b] # Absent}
    <3>1. state' = [fp |-> fp, done |-> done] /\ state' # Absent
      BY <1>11 DEF WriteState, TypeOK, States
    <3>2. fp = corpus
      BY <1>11 DEF WriteState, TakesUp
    <3>3. QED
      BY <1>11, <3>1, <3>2 DEF WriteState, Kept
  <2>2. Kept \subseteq done /\ \A b \in Kept : file[b] # Absent
    BY <1>11 DEF WriteState, TakesUp, Kept
  <2>3. QED
    BY <1>11, <2>1, <2>2 DEF WriteState, TakesUp
<1>12. CASE UNCHANGED vars
  BY <1>12, KeptUnchanged DEF vars, TakesUp
<1>13. QED
  BY <1>1, <1>2, <1>3, <1>4, <1>5, <1>6, <1>7, <1>8, <1>9, <1>10, <1>11, <1>12
     DEF Next, StageStep

-----------------------------------------------------------------------------
(* One version of the code *)

\* A process that ends leaves a cache whose sidecar names its code.
LEMMA EndsCode ==
    ASSUME TypeOK, CodeInv, Ends, UNCHANGED <<code, disk>>, crashes' = 0 => crashes = 0,
           \/ pc \in {"check", "embed", "cluster"} \/ state = Absent \/ crashes' # 0
    PROVE  CodeInv'
<1>1. OneCode'
  BY DEF CodeInv, OneCode, disk
<1>2. crashes' = 0 => RunIsOneCode'
  BY DEF Ends, RunIsOneCode, NoResults
<1>3. ASSUME crashes' = 0, state # Absent
      PROVE  sidecar # Absent /\ \A b \in state.done : file[b] # Absent => file[b].by = sidecar
  <2>1. SidecarNamesCode /\ RunIsOneCode /\ pc \in {"check", "embed", "cluster"}
    BY <1>3 DEF CodeInv
  <2>2. sidecar = code \/ pc = "check"
    BY <1>3, <2>1 DEF RunIsOneCode
  <2>3. CASE pc = "check"
    BY <1>3, <2>1, <2>3 DEF SidecarNamesCode
  <2>4. CASE pc # "check"
    BY <1>3, <2>1, <2>2, <2>4 DEF RunIsOneCode, TypeOK
  <2>5. QED
    BY <2>3, <2>4
<1>4. crashes' = 0 => SidecarNamesCode'
  BY <1>3 DEF SidecarNamesCode, disk
<1>5. QED
  BY <1>1, <1>2, <1>4 DEF CodeInv

\* Every step keeps the invariant of the code.
LEMMA CodeInvStep ==
    ASSUME TypeOK, IInv, CodeInv, [Next]_vars
    PROVE  CodeInv'
<1> USE DEF disk, memory, faults, Goes
<1>1. CASE CorpusChanges
  BY <1>1 DEF CorpusChanges, CodeInv, SidecarNamesCode, RunIsOneCode, OneCode
<1>2. CASE Upgrade
  BY <1>2 DEF Upgrade, IInv, NothingYet, NoResults, CodeInv, SidecarNamesCode,
              RunIsOneCode, OneCode
<1>3. CASE Start
  BY <1>3 DEF Start, CodeInv, SidecarNamesCode, RunIsOneCode, OneCode
<1>4. CASE PassCodeCheck
  BY <1>4 DEF PassCodeCheck, CodeInv, SidecarNamesCode, RunIsOneCode, OneCode
<1>5. CASE RefuseOtherCode \/ DropGateFails \/ ClustersRefused
  BY <1>5, EndsCode DEF RefuseOtherCode, DropGateFails, ClustersRefused
<1>6. CASE Finishes
  BY <1>6, EndsCode DEF Finishes, CacheGone
<1>7. CASE Crash
  <2>1. crashes' # 0
    BY <1>7 DEF Crash, TypeOK
  <2>2. QED
    BY <1>7, <2>1, EndsCode DEF Crash
<1>8. CASE Discard \/ Clean
  <2>1. RemoveOne /\ pc \in {"discard", "clean"}
    BY <1>8 DEF Discard, Clean
  <2>2. UNCHANGED <<code, ckpt, pc, results, done, crashes>>
    BY <2>1, RemoveOneTyped
  <2>3. \A b \in done : file'[b] \in {file[b], Absent}
    BY <2>1, RemoveOneTyped DEF TypeOK
  <2>4. QED
    BY <2>1, <2>2, <2>3 DEF CodeInv, SidecarNamesCode, RunIsOneCode, OneCode
<1>9. CASE LoadCache
  <2>1. state # Absent /\ state.done \subseteq Batches
    BY <1>9 DEF LoadCache, IInv, CacheIsOwn, TypeOK, States
  <2>2. done' = {b \in state.done : file[b] # Absent}
    BY <1>9 DEF LoadCache
  <2>3. \A b \in Batches : results'[b] = IF b \in done' THEN {file[b]} ELSE Absent
    BY <1>9 DEF LoadCache
  <2>4. crashes = 0 => \A b \in done' : file[b].by = code
    BY <1>9, <2>1, <2>2 DEF LoadCache, CodeInv, RunIsOneCode
  <2>5. ASSUME crashes = 0, NEW b \in Batches, results'[b] # Absent, NEW e \in results'[b]
        PROVE  e.by = code
    <3>1. b \in done'
      BY <2>3, <2>5
    <3>2. e = file[b]
      BY <2>3, <2>5, <3>1
    <3>3. QED
      BY <2>4, <2>5, <3>1, <3>2
  <2>6. UNCHANGED <<code, state, sidecar, file, ckpt, crashes>> /\ pc = "load" /\ pc' = "embed"
    BY <1>9 DEF LoadCache
  <2>7. crashes' = 0 => SidecarNamesCode' /\ RunIsOneCode'
    BY <2>4, <2>5, <2>6 DEF CodeInv, SidecarNamesCode, RunIsOneCode
  <2>8. QED
    BY <2>6, <2>7 DEF CodeInv, OneCode
<1>10. CASE DiscardEnds \/ EmbeddingEnds
  BY <1>10 DEF DiscardEnds, CacheGone, EmbeddingEnds, CodeInv, SidecarNamesCode,
               RunIsOneCode, OneCode
<1>11. CASE Embedded
  <2>1. PICK b \in Pending : results' = [results EXCEPT ![b] = {[of |-> fp, by |-> code]}]
    BY <1>11 DEF Embedded
  <2>2. b \in Batches /\ results'[b] = {[of |-> fp, by |-> code]}
    BY <2>1 DEF Pending, TypeOK
  <2>3. \A c \in Batches : c # b => results'[c] = results[c]
    BY <2>1 DEF TypeOK
  <2>4. QED
    BY <1>11, <2>2, <2>3 DEF Embedded, CodeInv, SidecarNamesCode, RunIsOneCode, OneCode
<1>12. CASE Quarantined
  <2>1. PICK b \in Pending : results' = [results EXCEPT ![b] = {}]
    BY <1>12 DEF Quarantined
  <2>2. \A c \in Batches : results'[c] \in {results[c], {}}
    BY <2>1 DEF TypeOK
  <2>3. QED
    BY <1>12, <2>2 DEF Quarantined, CodeInv, SidecarNamesCode, RunIsOneCode, OneCode
<1>13. CASE WriteFile
  <2>1. batch \in Batches /\ results[batch] # Absent
    BY <1>13 DEF WriteFile, IInv, InProgress
  <2>2. PICK e \in results[batch] : file' = [file EXCEPT ![batch] = e]
    BY <1>13 DEF WriteFile
  <2>3. crashes = 0 => e.by = code
    BY <2>1, <2>2 DEF CodeInv, RunIsOneCode
  <2>4. file'[batch] = e /\ \A c \in Batches : c # batch => file'[c] = file[c]
    BY <2>1, <2>2 DEF TypeOK
  <2>5. state # Absent => state.done \subseteq Batches
    BY DEF TypeOK, States
  <2>6. done \subseteq Batches /\ done' = done \cup {batch}
    BY <1>13 DEF WriteFile, TypeOK
  <2>7. QED
    BY <1>13, <2>3, <2>4, <2>5, <2>6
       DEF WriteFile, CodeInv, SidecarNamesCode, RunIsOneCode, OneCode
<1>14. CASE WriteState
  BY <1>14 DEF WriteState, CodeInv, SidecarNamesCode, RunIsOneCode, OneCode
<1>15. CASE StateRefused
  <2>1. \A c \in Batches : results'[c] \in {results[c], {}}
    BY <1>15 DEF StateRefused, TypeOK
  <2>2. QED
    BY <1>15, <2>1 DEF StateRefused, CodeInv, SidecarNamesCode, RunIsOneCode, OneCode
<1>16. CASE WriteSidecar
  BY <1>16 DEF WriteSidecar, CodeInv, SidecarNamesCode, RunIsOneCode, OneCode
<1>17. CASE WriteClusters
  <2>1. \A b \in Batches : ckpt'.embeddings[b] # Absent =>
                               results[b] # Absent /\ ckpt'.embeddings[b] \in results[b]
    BY <1>17, ClustersTyped DEF IInv
  <2>2. crashes = 0 => \A b \in Batches : ckpt'.embeddings[b] # Absent =>
                                              ckpt'.embeddings[b].by = code
    BY <2>1 DEF CodeInv, RunIsOneCode
  <2>3. crashes' = crashes
    BY <1>17 DEF WriteClusters
  <2>4. OneCode'
    BY <2>2, <2>3 DEF OneCode
  <2>5. (crashes = 0 => SidecarNamesCode /\ RunIsOneCode)'
    BY <1>17 DEF WriteClusters, CodeInv, SidecarNamesCode, RunIsOneCode
  <2>6. QED
    BY <2>4, <2>5 DEF CodeInv
<1>18. CASE UNCHANGED vars
  BY <1>18 DEF vars, CodeInv, SidecarNamesCode, RunIsOneCode, OneCode
<1>19. QED
  BY <1>1, <1>2, <1>3, <1>4, <1>5, <1>6, <1>7, <1>8, <1>9, <1>10, <1>11, <1>12,
     <1>13, <1>14, <1>15, <1>16, <1>17, <1>18
     DEF Next, StageStep

-----------------------------------------------------------------------------
(* The theorems *)

\* Every variable of the stage and every file of its cache keeps its type,
\* through crashes, upgrades and half-removed caches.
THEOREM TypeCorrect == Spec => []TypeOK
BY InvHolds, PTL

\* The invariant that embed_restart checks for three batches: what state.json
\* lists, what the process holds in memory and what it wrote to the cache come
\* from the segments they claim to come from.
THEOREM CacheClaimsHold == Spec => []IInv
BY InvHolds, PTL

\* The clusters are never built on embeddings of other segments (D2409), for
\* any number of batches, corpora, versions, crashes and failed embeddings.
THEOREM ClustersMatch == Spec => []ClustersMatchCorpus
<1>1. IInv => ClustersMatchCorpus
  BY DEF IInv
<1>2. QED
  BY InvHolds, <1>1, PTL

\* Clusters come from one version of the code as long as nothing crashes
\* (BUG-614): upgrades, refused starts, quarantined batches and refused writes
\* do not mix two versions, because the sidecar names the code of every
\* embedding that a later run would take up.
THEOREM OneCodeOnly == Spec => []OneCode
<1>1. Init => CodeInv
  BY DEF Init, NoResults, CodeInv, SidecarNamesCode, RunIsOneCode, OneCode
<1>2. TypeOK /\ IInv /\ CodeInv /\ [Next]_vars => CodeInv'
  BY CodeInvStep
<1>3. CodeInv => OneCode
  BY DEF CodeInv
<1>4. QED
  BY <1>1, <1>2, <1>3, InvHolds, PTL DEF Spec

\* Neither a crash at any point nor a failed embedding nor a refused write takes
\* from the cache an embedding that the next start would have used.
THEOREM CacheIsKept == Spec => CacheSurvives
<1> DEFINE Survives == corpus' = corpus /\ pc # "clean" => Kept \subseteq Kept'
<1>1. Init => TakesUp
  BY DEF Init, TakesUp
<1>2. TypeOK /\ IInv /\ TakesUp /\ [Next]_vars => TakesUp' /\ Survives
  BY TakesUpStep
<1>3. Spec => [](TypeOK /\ IInv /\ TakesUp)
  BY <1>1, <1>2, InvHolds, PTL DEF Spec
<1>4. TypeOK /\ IInv /\ TakesUp /\ [Next]_vars => [Survives]_vars
  BY <1>2
<1> HIDE DEF Survives
<1>5. Spec => [][Survives]_vars
  BY <1>3, <1>4, PTL DEF Spec
<1>6. [][Survives]_vars => CacheSurvives
  BY DEF CacheSurvives, Survives
<1>7. QED
  BY <1>5, <1>6, PTL
=============================================================================
