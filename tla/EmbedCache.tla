----------------------------- MODULE EmbedCache -----------------------------
(***************************************************************************)
(* Stage 1.5 of the pipeline (stage1_5_embed_cluster.py): the segments are *)
(* embedded in batches, each batch is put into a cache of files so that a  *)
(* restart does not embed it again, and the cache is dropped once the      *)
(* cluster checkpoint is on disk.                                          *)
(*                                                                         *)
(* Corpora and versions of the stage's code are numbered; a corpus has a   *)
(* fingerprint of its own, because segment_id is the SHA-256 of the text.  *)
(***************************************************************************)
EXTENDS Naturals, FiniteSets

CONSTANTS Batches,
          Corpora,          \* versions of the segments
          Codes,            \* versions of the code that embeds them
          MaxDropped,       \* batches that max_embed_drop_rate lets go
          StateBase,        \* bytes of state.json besides done_batches
          ClusterBytes(_),  \* bytes of the clusters of each corpus
          MaxCrashes,       \* bound on crashes of the stage
          MaxFailures,      \* bound on failed embeddings
          Absent

VARIABLES corpus,   \* the segments in Stage 1's checkpoint
          code,     \* the code that is installed
          state,    \* state.json: a fingerprint and the done batches
          sidecar,  \* state.json.code_fingerprint
          file,     \* file[b]: batch_<b>.npy
          ckpt,     \* the cluster checkpoint
          pc,       \* where the stage's process is
          fp,       \* the fingerprint of the segments it has loaded
          results,  \* results[b]: {} when b was quarantined, Absent when pending
          done,     \* done_batches
          batch,    \* the batch whose future is being handled
          crashes, failures

disk == <<state, sidecar, file, ckpt>>
memory == <<fp, results, done, batch>>
faults == <<crashes, failures>>
vars == <<corpus, code, disk, pc, memory, faults>>

\* What a batch embeds: the segments it comes from and the code that did it.
Embedding == [of : Corpora, by : Codes]

\* state.json: the segments it was written for and the batches it lists.
States == [fp : Corpora, done : SUBSET Batches]

ASSUME SetsAssumption ==
    /\ IsFiniteSet(Batches)
    /\ Corpora \subseteq Nat /\ Codes \subseteq Nat
    /\ 1 \in Corpora /\ 1 \in Codes
    /\ Absent \notin Batches \cup Nat \cup Embedding \cup States
    /\ \A rows \in SUBSET Embedding : rows # Absent
ASSUME SizesAssumption ==
    /\ MaxDropped \in Nat /\ StateBase \in Nat /\ MaxCrashes \in Nat /\ MaxFailures \in Nat
    /\ \A c \in Corpora : ClusterBytes(c) \in Nat

Clusters == [fp : Corpora, embeddings : [Batches -> Embedding \cup {Absent}]]
Phases   == {"idle", "check", "load", "discard", "embed", "file", "state",
             "sidecar", "cluster", "clean"}

TypeOK ==
    /\ corpus \in Corpora /\ code \in Codes
    /\ state \in States \cup {Absent}
    /\ sidecar \in Codes \cup {Absent}
    /\ file \in [Batches -> Embedding \cup {Absent}]
    /\ ckpt \in Clusters \cup {Absent}
    /\ pc \in Phases
    /\ fp \in Corpora
    /\ results \in [Batches -> (SUBSET Embedding) \cup {Absent}]
    /\ done \subseteq Batches
    /\ batch \in Batches \cup {Absent}
    /\ crashes \in 0..MaxCrashes /\ failures \in 0..MaxFailures

NoResults == [b \in Batches |-> Absent]
NoFiles   == [b \in Batches |-> Absent]

Init ==
    /\ corpus = 1 /\ code = 1
    /\ state = Absent /\ sidecar = Absent /\ file = NoFiles
    /\ ckpt = Absent
    /\ pc = "idle"
    /\ fp = 1 /\ results = NoResults /\ done = {} /\ batch = Absent
    /\ crashes = 0 /\ failures = 0

Goes(from, to) == pc = from /\ pc' = to

\* The process is gone with its memory, which no later step reads.
Ends ==
    /\ pc' = "idle"
    /\ fp' = 1 /\ results' = NoResults /\ done' = {} /\ batch' = Absent

\* safe_write refuses to replace a file by one more than 10% smaller.
Shrinks(new, old) == old > 0 /\ 10 * new < 9 * old

StateBytes(s) == StateBase + Cardinality(s)

\* Mutation: a restart trusts the cache of any corpus.
AnyCorpus(s) == TRUE

FingerprintMatches(s) == s.fp = fp

-----------------------------------------------------------------------------
(* The world around the stage *)

\* Stage 1 or 1.3 runs again on other books.
CorpusChanges ==
    /\ pc = "idle"
    /\ corpus + 1 \in Corpora
    /\ corpus' = corpus + 1
    /\ UNCHANGED <<code, disk, pc, memory, faults>>

Upgrade ==
    /\ pc = "idle"
    /\ code + 1 \in Codes
    /\ code' = code + 1
    /\ UNCHANGED <<corpus, disk, pc, memory, faults>>

\* The runner starts the stage: again after a crash, or because it is told to.
Start ==
    /\ Goes("idle", "check")
    /\ fp' = corpus
    /\ UNCHANGED <<corpus, code, disk, results, done, batch, faults>>

Crash ==
    /\ pc # "idle"
    /\ crashes < MaxCrashes
    /\ crashes' = crashes + 1
    /\ Ends
    /\ UNCHANGED <<corpus, code, disk, failures>>

-----------------------------------------------------------------------------
(* embed_segments *)

\* check_stage_code_fingerprint raises on another code's sidecar...
RefuseOtherCode ==
    /\ pc = "check"
    /\ sidecar \notin {Absent, code}
    /\ Ends
    /\ UNCHANGED <<corpus, code, disk, faults>>

\* Mutation: the fingerprint of the code is not compared, as before BUG-614.
SkipCodeCheck ==
    /\ Goes("check", IF state = Absent THEN "embed"
                     ELSE IF FingerprintMatches(state) THEN "load" ELSE "discard")
    /\ UNCHANGED <<corpus, code, disk, memory, faults>>

\* ...and lets a cache without one pass.
PassCodeCheck ==
    /\ sidecar \in {Absent, code}
    /\ Goes("check", IF state = Absent THEN "embed"
                     ELSE IF FingerprintMatches(state) THEN "load" ELSE "discard")
    /\ UNCHANGED <<corpus, code, disk, memory, faults>>

\* Mutation: a batch listed as done is not looked for on disk.
LoadListed ==
    /\ Goes("load", "embed")
    /\ done' = state.done
    /\ results' = [b \in Batches |->
                      IF b \in done' THEN {file[b]} \ {Absent} ELSE Absent]
    /\ UNCHANGED <<corpus, code, disk, fp, batch, faults>>

\* Mutation: a batch's index is taken for its rows.
LoadIndex ==
    /\ Goes("load", "embed")
    /\ done' = {b \in state.done : file[b] # Absent}
    /\ results' = [b \in Batches |-> IF b \in done' THEN {b} ELSE Absent]
    /\ UNCHANGED <<corpus, code, disk, fp, batch, faults>>

\* Mutation: the rows are loaded, but their batches not counted as done.
LoadRowsOnly ==
    /\ Goes("load", "embed")
    /\ results' = [b \in Batches |->
                      IF b \in state.done /\ file[b] # Absent THEN {file[b]} ELSE Absent]
    /\ UNCHANGED <<corpus, code, disk, fp, done, batch, faults>>

\* The batches that are listed as done and whose files are there.
LoadCache ==
    /\ Goes("load", "embed")
    /\ done' = {b \in state.done : file[b] # Absent}
    /\ results' = [b \in Batches |-> IF b \in done' THEN {file[b]} ELSE Absent]
    /\ UNCHANGED <<corpus, code, disk, fp, batch, faults>>

\* shutil.rmtree takes the files one by one, in any order.
RemoveOne ==
    /\ \/ \E b \in Batches :
             /\ file[b] # Absent
             /\ file' = [file EXCEPT ![b] = Absent]
             /\ UNCHANGED <<state, sidecar>>
       \/ state # Absent /\ state' = Absent /\ UNCHANGED <<sidecar, file>>
       \/ sidecar # Absent /\ sidecar' = Absent /\ UNCHANGED <<state, file>>
    /\ UNCHANGED <<corpus, code, ckpt, pc, memory, faults>>

CacheGone == state = Absent /\ sidecar = Absent /\ file = NoFiles

Discard == pc = "discard" /\ RemoveOne

DiscardEnds ==
    /\ CacheGone
    /\ Goes("discard", "embed")
    /\ UNCHANGED <<corpus, code, disk, memory, faults>>

Pending == {b \in Batches : results[b] = Absent}

\* Some pending batch is embedded: the workers finish in any order...
Embedded ==
    /\ Goes("embed", "file")
    /\ \E b \in Pending :
          /\ batch' = b
          /\ results' = [results EXCEPT ![b] = {[of |-> fp, by |-> code]}]
    /\ UNCHANGED <<corpus, code, disk, fp, done, faults>>

\* ...or its embedding fails, and the batch is quarantined.
Quarantined ==
    /\ pc = "embed"
    /\ failures < MaxFailures
    /\ failures' = failures + 1
    /\ \E b \in Pending : results' = [results EXCEPT ![b] = {}]
    /\ UNCHANGED <<corpus, code, disk, pc, fp, done, batch, crashes>>

\* _atomic_npy_write; the batch is done from here on.
WriteFile ==
    /\ Goes("file", "state")
    /\ \E e \in results[batch] : file' = [file EXCEPT ![batch] = e]
    /\ done' = done \cup {batch}
    /\ UNCHANGED <<corpus, code, state, sidecar, ckpt, fp, results, batch, faults>>

StateShrinks == state # Absent /\ Shrinks(StateBytes(done), StateBytes(state.done))

WriteState ==
    /\ ~StateShrinks
    /\ Goes("state", "sidecar")
    /\ state' = [fp |-> fp, done |-> done]
    /\ UNCHANGED <<corpus, code, sidecar, file, ckpt, memory, faults>>

\* The shrink guard's ValueError is caught like a failed embedding: the batch is
\* dropped from this run, although its file is written.
StateRefused ==
    /\ StateShrinks
    /\ Goes("state", "embed")
    /\ results' = [results EXCEPT ![batch] = {}]
    /\ UNCHANGED <<corpus, code, disk, fp, done, batch, faults>>

WriteSidecar ==
    /\ Goes("sidecar", "embed")
    /\ sidecar' = code
    /\ UNCHANGED <<corpus, code, state, file, ckpt, memory, faults>>

Dropped == {b \in Batches : results[b] = {}}

\* The drop-rate gate (D2275).
DropGateFails ==
    /\ pc = "embed" /\ Pending = {}
    /\ Cardinality(Dropped) > MaxDropped
    /\ Ends
    /\ UNCHANGED <<corpus, code, disk, faults>>

EmbeddingEnds ==
    /\ Pending = {}
    /\ Cardinality(Dropped) <= MaxDropped
    /\ Goes("embed", "cluster")
    /\ UNCHANGED <<corpus, code, disk, memory, faults>>

-----------------------------------------------------------------------------
(* run_stage1_5 after the embedding *)

ClustersShrink == ckpt # Absent /\ Shrinks(ClusterBytes(fp), ClusterBytes(ckpt.fp))

WriteClusters ==
    /\ ~ClustersShrink
    /\ Goes("cluster", "clean")
    /\ ckpt' = [fp |-> fp,
                embeddings |-> [b \in Batches |->
                    IF b \in Dropped THEN Absent ELSE CHOOSE e \in results[b] : TRUE]]
    /\ UNCHANGED <<corpus, code, state, sidecar, file, memory, faults>>

\* The same guard on the clusters: the stage raises and keeps its cache.
ClustersRefused ==
    /\ pc = "cluster"
    /\ ClustersShrink
    /\ Ends
    /\ UNCHANGED <<corpus, code, disk, faults>>

Clean == pc = "clean" /\ RemoveOne

Finishes ==
    /\ pc = "clean" /\ CacheGone
    /\ Ends
    /\ UNCHANGED <<corpus, code, disk, faults>>

StageStep ==
    \/ Start \/ RefuseOtherCode \/ PassCodeCheck \/ LoadCache
    \/ Discard \/ DiscardEnds
    \/ Embedded \/ WriteFile \/ WriteState \/ StateRefused \/ WriteSidecar
    \/ DropGateFails \/ EmbeddingEnds
    \/ WriteClusters \/ ClustersRefused \/ Clean \/ Finishes

Next == StageStep \/ CorpusChanges \/ Upgrade \/ Quarantined \/ Crash

Spec == Init /\ [][Next]_vars

\* The runner starts the stage again and again, and the stage goes on.
FairSpec == Spec /\ WF_vars(StageStep)

-----------------------------------------------------------------------------
(* Properties *)

\* Clusters are never built on embeddings of other segments: whatever a crash
\* left in the cache directory, a changed corpus is embedded anew (D2409).
ClustersMatchCorpus ==
    ckpt # Absent =>
        \A b \in Batches : ckpt.embeddings[b] # Absent => ckpt.embeddings[b].of = ckpt.fp

\* As long as the stage does not crash, clusters are never built on embeddings
\* of two versions of the code, whatever failed embeddings, upgrades and
\* rejected runs lie between them (BUG-614).
OneCode ==
    crashes = 0 /\ ckpt # Absent =>
        \A b, c \in Batches :
            Absent \notin {ckpt.embeddings[b], ckpt.embeddings[c]}
                => ckpt.embeddings[b].by = ckpt.embeddings[c].by

\* The embeddings that a start from here would take up and not compute again.
Kept == IF state # Absent /\ state.fp = corpus THEN {b \in state.done : file[b] # Absent}
        ELSE {}

\* Whatever crashes, fails or is refused, an embedding that the cache has once
\* taken stays there for the next start, until the clusters that use it are
\* written or the books change.
CacheSurvives == [][corpus' = corpus /\ pc # "clean" => Kept \subseteq Kept']_vars

\* The stage recovers by itself from every crash and failed embedding, the
\* refused state writes of a half-removed cache included: started again and
\* again, it gets to new clusters of the current corpus, unless other code wrote
\* the cache or the clusters would shrink by more than the guard allows.
Recovers ==
    \/ []<>(pc = "clean" /\ fp = corpus)
    \/ <>[](sidecar \notin {Absent, code})
    \/ []<>(pc = "cluster" /\ ClustersShrink)
-----------------------------------------------------------------------------
(* The inductive invariant *)

\* The files that state.json lists come from the segments it names...
ListedMatch ==
    state # Absent =>
        \A b \in state.done : file[b] # Absent => file[b].of = state.fp

\* ...and from the cache check on, these are the segments that are loaded.
CacheIsOwn ==
    /\ pc = "load" => state # Absent
    /\ pc \notin {"idle", "check", "discard"} /\ state # Absent => state.fp = fp

\* Nothing is embedded before the cache is loaded...
NothingYet == pc \in {"idle", "check", "discard", "load"} => results = NoResults /\ done = {}

\* ...and all that is embedded comes from the loaded segments, in memory and on
\* disk.
WorkIsOwn ==
    /\ \A b \in Batches : results[b] # Absent => \A e \in results[b] : e.of = fp
    /\ \A b \in done : file[b] # Absent => file[b].of = fp

InProgress ==
    /\ pc = "file" => batch \in Batches /\ results[batch] # Absent
    /\ pc = "cluster" => Pending = {}

IInv ==
    /\ ListedMatch /\ CacheIsOwn /\ NothingYet /\ WorkIsOwn /\ InProgress
    /\ ClustersMatchCorpus

-----------------------------------------------------------------------------
(* ...of the cache across runs *)

\* A run has loaded the segments that Stage 1 last wrote, and from the load on
\* the batches it counts as done include all that are kept.
TakesUp ==
    /\ pc # "idle" => fp = corpus
    /\ pc = "discard" => Kept = {}
    /\ pc \in {"embed", "file", "state", "sidecar", "cluster"} => Kept \subseteq done

\* Without a crash, the sidecar that a start checks is there and names the code
\* of every listed embedding...
SidecarNamesCode ==
    pc \in {"idle", "check"} /\ state # Absent =>
        /\ sidecar # Absent
        /\ \A b \in state.done : file[b] # Absent => file[b].by = sidecar

\* ...so that a run that passes the check works with one code, its own, in the
\* cache and in memory.
RunIsOneCode ==
    /\ pc \in {"load", "embed", "file", "state", "sidecar", "cluster"} /\ state # Absent =>
          /\ pc # "sidecar" => sidecar = code
          /\ \A b \in state.done : file[b] # Absent => file[b].by = code
    /\ \A b \in Batches : results[b] # Absent => \A e \in results[b] : e.by = code
    /\ \A b \in done : file[b] # Absent => file[b].by = code

CodeInv == (crashes = 0 => SidecarNamesCode /\ RunIsOneCode) /\ OneCode
=============================================================================
