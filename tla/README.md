# Maxwell OS: verification of the knowledge pipeline

Maxwell OS turns a library of books into "Foundation Blocks" (FBs): a pipeline of eleven
stages converts the books, cuts them into segments, clusters the segments, asks a local LLM
for the principle behind each cluster, classifies and verifies the answers and commits them
to a database. One full run takes days. What the repository's bug register is about is not
the algorithms of the stages but what happens between two steps of a run: a crash, a pause,
a second runner, a restart over what an earlier run has left, two workers that fail at once.
That is what is specified here, in TLA+, checked with TLC and, liveness apart, proved with
TLAPS.

Paths are relative to the repository root (`src/`).

## 1. The system

### The pipeline and its control

| Component | State it keeps | Operations | Hard behaviour | What makes it correct | Module |
|---|---|---|---|---|---|
| Runner, `pipeline/runner.py` | per run_id: one checkpoint and one manifest per stage, `pipeline_resume.json` | start (marker, manifests, options), run a stage as a child process, record its success, pause on Ctrl-C | crash between checkpoint, marker and manifest; forced restarts; smoke runs on the same marker; Stage 1.3 rewrites Stage 1's checkpoint | no later stage on a partial or missing checkpoint; a certified checkpoint is whole; a forced run propagates; restarts reach the end | `PipelineRunner` |
| Runner lock, `pipeline/runner.py:578-631` | a lock file with a pid | check, read, probe the pid, unlink, write, unlink at exit | two starts at once, killed runners, orphaned stages, reused pids | one run at a time until two starts overlap, and one stage unless a runner was killed; no stale lock for ever | `RunnerLock`, `ExclusiveRuns` |
| Circuit breaker, `pipeline/omlx_call.py` | breaker state, failure count, cooldown; shared by worker threads | `allow_request`, `record_success`, `record_failure`, `call_omlx` with retries | unlocked read that writes, late answers, 4xx answers | opens on enough failures only, heals | `CircuitBreaker` |
| Stage 1.5, `pipeline/stage1_5_embed_cluster.py` | embedding cache (state, sidecar, one file per batch), cluster checkpoint | embed batches in 4 workers, persist each, cluster, drop the cache | crash between any two files, changed corpus, changed code, the shrink guard | clusters come from this corpus and one code; nothing cached is lost; a restart recovers | `EmbedCache` |
| Stage 2, `pipeline/stage2_extract.py` | checkpoint, `.segids`, `.gated_ids`, code sidecar, probe cache | extract clusters in parallel, collect, tick, abort, finish, resume | order of the files, aborted runs, lost answers, near-duplicates | a resume skips only what is saved; exit 0 means covered; progress is kept | `Stage2Extract`, `ResumableWork` |
| Stage 4, `pipeline/stage4_merge.py`, and the preflight of Stage 5, `scripts/preflight_checkpoint_check.py` | checkpoint, `.segids`, `.state.json` (input and code fingerprints, record count), `.expected_count.json` (count and receipts), depth and cribs sidecars | merge FBs one by one, tick, interrupt, resume behind four guards, merge named clusters only, hand over | three files per tick, units that share a cluster or an id, fingerprints that go with a completed run, receipts that only shrink | what passes the count is whole; an interrupt and a delta run lose nothing; no FB of an older input survives | `Stage4Merge` |
| Stage 5, `pipeline/stage5_verify.py` | checkpoint, input fingerprint, single-writer lock | verify FBs with an NLI model, resume, archive, adopt a fingerprint | input compared before the lock is held, changed inputs under old ids, kills between renames | verdicts belong to the FBs they are stored with; one writer; a kill costs an interval | `Stage5Verify` |
| Stage 6, `pipeline/stage6_commit.py`, with `pipeline/feedback.py` and `pipeline/evidence_accumulator.py` | SQLite store, vector table, ratings ledger, a record of the commit and two receipts | insert, update or replace rows in one transaction, roll back, check vectors, rate, merge sources | other writers before, between and after its transactions; rows that get other rowids; a record and receipts that may not shrink | all or nothing; exit 0 means stored; nothing of the others is lost; vectors follow their rows | `Stage6Commit` |
| Exports, `stage6b_anytype_push.py`, `stage6c_obsidian_export.py`, `stage6_okf_export.py` | push ledger, files | export | a retried push | no object pushed twice | not modelled |
| Stages 0, 0.5, 1, 1.3 | one checkpoint each, a completion flag (1.3) | convert, extract metadata, chunk, prefilter | per-book timeouts; the in-place rewrite of 1.3 | (with the runner) | the rewrite: `PipelineRunner` |
| I/O guard, `pipeline/io_guard.py` | files | `safe_write` (atomic replace, shrink guard), journal | the guard refuses a legitimate smaller file | | inside `PipelineRunner`, `EmbedCache`, `Stage2Extract`, `Stage4Merge`, `Stage5Verify`, `Stage6Commit` |
| Code fingerprints, `pipeline/stamp.py` | `.code_fingerprint` sidecars | write, check | sidecar and data written apart | | inside `EmbedCache`, `Stage2Extract`, `Stage4Merge` |
| OMLX server care, `pipeline/omlx_watchdog.py`, `model_lazyload.py`, `unloader.py`, `memory_guard.py` | RSS trend, restart count | check, kill, start, wait | a kill that fails is followed by a start | one server | planned |
| Worker pools, `pipeline/parallel.py`, `omlx_parallel.py` | results by index | `parallel_map` with a timeout per item | time waited for one item is time run for the next | no item lost in silence | planned |
| Serving gate, reliability, dedup gate, taxonomy | columns of the store | derive one column from others | | | not modelled (feedback and evidence accumulator: with Stage 6) |
| Ingest gate, safe delete, write guard, acquisition lane | ledgers, backups, an inbox, an index | admit, delete after backup, refuse foreign cells, download | a crash between landing a book and recording it | | not modelled |
| Retrieval, query, MCP server | none of their own (the store, read only) | search | | | not modelled |
| Subagent fan-out, governance scripts, tools, benchmarks, tests | ledgers and reports | | | | not modelled |

### How they interact

The runner starts each stage with `subprocess.run` and knows of it only the exit
code and the checkpoint file; a stage reads the checkpoint of the stage before it.
The stages never call each other. LLM-bound stages (2, 4) call `call_omlx` from
thread pools, and the process-wide breaker makes all of them fail fast. Every stage
that takes hours keeps a resume state of its own next to its checkpoint (cache,
segids, state, sidecars): the runner's manifests know nothing of it. Stage 1.3 is
the one stage that writes another stage's checkpoint.

### What is hard to test here

PROJECT.json lists the hazards with the line where each one bites and the property
that watches it. The main ones: the order of the files a stage writes, against a
crash at any point; a restart that trusts one file and should have trusted another;
the in-place rewrite of Stage 1.3 against the manifests; what is read before a lock
is held; the breaker's unlocked promotion; the shrink guard, which cannot tell a
damaged file from a smaller one; cluster ids that are indices and are shared by
several FBs; a store with three writers.

## 2. The modules

Each component is one module; its `VARIABLES` are the files and the process memory
that a restart can tell apart. A crash drops the memory and keeps the files.

| Module | Instances for TLC | Proofs |
|---|---|---|
| `PipelineRunner` | `MCPipelineRunner`: `runner_auto`, `runner_forced`, `runner_unfiltered` | `PipelineRunnerProofs` |
| `RunnerLock` | `lock_starts` | `RunnerLockProofs` |
| `CircuitBreaker` | `breaker_threads` | `CircuitBreakerProofs` |
| `EmbedCache` | `MCEmbedCache`: `embed_restart` | `EmbedCacheProofs` |
| `Stage2Extract` | `MCStage2Extract`: `extract_resume` | `Stage2ExtractProofs` |
| `Stage4Merge` | `MCStage4Merge`: `merge_resume`, `merge_stale`, `merge_retry` | `Stage4MergeProofs` |
| `Stage5Verify` | `MCStage5Verify`: `verify_resume` | `Stage5VerifyProofs` |
| `Stage6Commit` | `MCStage6Commit`: `commit_store` | `Stage6CommitProofs` |
| `ResumableWork` (abstract) | by `Stage2Extract`, in `extract_resume` | `Stage2ExtractProofs` |
| `ExclusiveRuns` (abstract) | by `RunnerLock`, in `lock_starts`; by `Stage5Verify`, in `verify_resume` | `RunnerLockProofs`, `Stage5VerifyProofs` |

Operators whose comment begins with "Mutation:" are variants of the definition below
them with a plausible bug; no specification uses them. They show that the
properties can tell the bug from the code. The last section of a module, "The
inductive invariant", is used by its proofs only; each such invariant holds in the
instance the module's run gives to TLC. The abstract modules model no code: they say
what a component promises to the others.

### PipelineRunner

Stages are `1..NumStages`. `ckpt[s]` and `manifest[s]` are contents: which corpus
version the data comes from, whether Stage 1.3 has filtered it, whether every stage
on the way ran to its end, and a stamp for the `created_at` that makes two writes of
a stage differ. SHA-256 is equality of contents. `marker` is `pipeline_resume.json`,
torn when a crash hits `write_text`. `phase`, `cur`, `todo` and `opts` are the
runner process: `next` is the loop of `run_pipeline`, `preflight` the watchdog call,
`exec` the child, `flag` the second half of Stage 1.3, `mark` and `manifest` the two
writes after a success. `StartRun` is `main` with `find_resume_point`; a plain start
parses the marker first and dies of a torn one. Stages that write as they go
(`Incremental`) may keep what their old checkpoint holds (`Basis`), whatever their
input now is: that is what Stage 2's resume does. The run is over whole stages; the
inside of a stage is another module's matter.

The checkpoints of the `Guarded` stages are written through `safe_write`, which raises
when a file would lose more than a tenth. `Size(s, c)` is the size of stage `s`'s file with
content `c`; a part of a checkpoint has any size up to that. `Accepts` and `Refuses` compare
the new file with the one that is there; a write that can be refused may end in
`WriteRefused`, where the stage raises and the run ends, as it will at the next start.
This goes for Stage 1 over the file of a larger corpus, and for Stage 1.3 when more than a
tenth of the segments is garbage. `Crash` is the death of the machine, or of the runner
with its stage: the child that outlives a killed runner is `RunnerLock`'s matter.

Left out: `--domain`, `--books` and `--quality`, which change what the stages
compute; `--dry-run`, which changes nothing; run_ids other than the one run and
`smoke`; the version gate, which is a pure check before the lock.

### RunnerLock

Each pid is free, foreign, starting or holding. The start is cut where another
process can come between: `exists`, `read_text`, `os.kill(pid, 0)`, `unlink`, and
the opening (which truncates) and the writing of `write_text`. The lock path leads to
an inode: a file that is unlinked while it is being written stays out of sight, and keeps
no text in the model, as nobody will read it (`Unlink`). A killed runner leaves its lock and
its stage behind.

Any number of runners may start at once (`MaxStarting` bounds them for TLC). The history
variable `raced` is set when one looks for the lock while another is between its look and
its write. Then the protocol excludes nothing: both can find no lock, or one can unlink
the lock that the other has just written. Up to that point the properties are
required to hold; what happens after it is part of the run, too, and `StartsAgain` has to hold
of it. The options that switch this lock and Stage 5's off are left out.

### ExclusiveRuns

What a lock is there for, without a lock: a process acquires the run when nobody has
it, starts a stage beside no other, and releases the run when its stage has ended; a
kill takes the killed process's run, and its stage with it or not. From a `Race` on, when
two starts have looked for the lock at once, runs and stages no longer exclude each other;
a run still ends after its stage, and no end or kill takes another run with it. Both of
the pid locks that are modelled implement it.

* `RunnerLock`, with `runs <- Holders`, `stages <- {p : child[p]}` and `clean <- (kills =
  0)`, as the PROPERTY `IsExclusive`. Of all the steps of a start the look that overlaps
  another is a `Race`, and the last, `WriteLock`, an `Acquire`; the others are none. A
  killed runner may leave its stage, and then stages no longer exclude each other.
  `PromiseExcludes` derives from the promise alone that, until a race, at most one process
  has the run (`AtMostOneHolder`) and, until a kill besides, at most one stage is alive
  (`StagesExclusive`).
* `Stage5Verify`, with `runs <- Writers`, `stages <- Working` (the work on the checkpoint,
  from its resume or archiving to its last write) and `clean <- TRUE`, as `WritersExclude`:
  the process that holds the lock does the work itself, so that a kill leaves none.

### CircuitBreaker

The three fields of the breaker, and for each thread where it is in `call_omlx`.
Methods under the lock are one step. The property `state`, read without the lock when
the error message is formatted, is two steps: the test and the assignment. The server
is up or down; while it is up an attempt succeeds or is rejected with 4xx.
`failures` stops counting at the threshold, above which only the comparison matters.
`lost` is a history variable.

### EmbedCache

`state`, `sidecar`, `file[b]` and `ckpt` are on disk, `fp`, `results`, `done` and
`batch` in the process. Each file is a step of its own, `shutil.rmtree` takes the
files in any order, and the shrink guard is modelled by its arithmetic on sizes.

Left out: the MPS path, which has no cache; the singletons file and the cluster
checkpoint's own sidecar, written between the clusters and the clean-up and read
by no step of this stage (what fails there looks like a crash before `clean`).

### Stage2Extract

`ckpt` is a bag of FBs, `segids` the clusters it covers. Workers (`Returns`) add to
the MinHash index when they build an FB; the main thread collects in any order, and
every fifth cluster (here every second) writes the checkpoint and then the segids. A
cluster without an answer passes by the tick, a run that meets an open breaker
writes the checkpoint and no segids, the end writes all of it, the sidecar in
between. `Start` is the resume: it needs checkpoint and segids, and gives both up
when no id is a cluster of Stage 1.5.

Left out: `--reprocess-gated`, `--reset-single-source` and the gated ids; the probe
of large clusters before the extraction (its results are the targets); the
singleton pass; modes that choose other targets (`--only-convergent`,
`--only-single-source`); unparseable checkpoints, which atomic writes exclude; and a new
clustering between two runs, for which see the plan.

### ResumableWork

What the runner and the operator rely on in a stage that works unit by unit over many
runs: `saved` units have their results on disk, `kept` units are those that every later
run goes on from, and `certified` says that the last run ended in success. A save may
replace the results by others but never loses a kept unit; only saved units become
kept, and kept units stay kept; only work within the tolerance is certified.

`Stage2Extract` implements it with the clusters as units, `Tolerance <- MaxFailed`,
`saved <- {c : Covers(c)}` (all principles of the cluster are in the checkpoint),
`kept <- Resumable` (what the next start will skip) and `certified <- exit = 0`. A tick is
two steps, a `Save` (the checkpoint) and a `Keep` (the ids); a run that meets the open
breaker does the first only; a refused final write and a crash are stutters or a
`Resume`. TLC checks it as the PROPERTY `IsResumable`, and `Implements` proves it.
`Stage4Merge` does not implement it and is not meant to: its guards discard a
checkpoint, so that `kept` shrinks.

### Stage4Merge

The units are the FBs of Stage 2, numbered in the order of their file; each has a
cluster (`ClusterOf`) and an FB id (`IdOf`), and neither is unique. `ckpt` maps an id to the
clusters its FB cites as sources, the empty set meaning that there is no such FB;
`segids`, `state` and `expected` are the other three files. `Start` is a full run with the
four guards as `Stale`; `StartDelta` is a run with `--cluster`, which has none. `Merge`,
`MergeDuplicate`, `FailCluster` and `FailClassification` are the ways through the body of
the loop, which take the tick or pass by it as the code does. `WriteCheckpoint`,
`WriteSegids`, `WriteState` are `_write_s4_checkpoint`; from `FinalCheckpoint` to `RemoveState` is
the end of a run with its gate. `Signal` is the handler of SIGINT and SIGTERM. `Accepts` is
the preflight of Stage 5, which is a pure check. `Regenerate` is another run of Stage 2.

Left out: the depth pre-pass with its sidecar, CRIBS batches, the records that are not
principles and go to other files, the cosine dedup, `--only-fb-ids`, the run manifest. The
files of those records (`pipeline/stage4_merge.py:2638-2696`) are written through the shrink
guard as well, after the expected count and before the final gate: where one of them shrinks,
a run fails that the module lets complete. `Completes` speaks of the FB checkpoint and
its expected count only.

### Stage5Verify

Each process is somewhere in `run_stage5`; `ckpt`, `print` (the input fingerprint) and
`lock` are on disk. The order is the code's: the input is loaded and compared with the
fingerprint (`Load`, `Compare`), then the lock is looked for (`FindFree`, `Refuse`), removed
if it is stale (`Reclaim`), written (`WriteLock`), then the checkpoint is resumed or
archived on the strength of the comparison made before. An FB is an id and a text, so that a
changed FB can come under an old id. `Crash` leaves the lock (`Gone`) and possibly an
unreadable fingerprint. `Adopt` is `--adopt-fingerprint`, which takes no lock.

Nothing keeps two processes from looking for the lock at once. When one looks while another
is between its look and its write, `raced` is set, and from then on both may write. The run
goes on from there: checkpoints are still of the input (`ResumesOwnInput`) and the stage still
completes (`Completes`), while `WritersExclude`, `LosesLittle` and `CompletesWhole` speak of the
time before. With two writers one can be further on than the other, and then `safe_write`
raises in the one behind (`Shrinks`, `WriteRefused`); its size is taken for the number of
verdicts in it.

Two simplifications. The lock is written in one step: while it is open and empty it
reads as a stale one, which is what a look before the write finds as well. And the input
changes only while no process runs, because the runner starts Stage 5 after Stage 4 has
ended.

### Stage6Commit

`store` and `vectors` are what is committed, `rows` and `vecs` what the transaction sees.
`Load` to `Exit` is `run_stage6`; a transaction sees what is committed when it first
writes, and until it ends nobody else writes (`Unlocked`). `Update` and `Insert` are the two
scopes of the commit, `Skip` the rows of the Stage 4 sidecars, `RefuseRow` a gate that
refuses a row. An FB is an id, a verdict and the sources of its record; the same id
can come with other sources in the next output, and `Insert` writes those of the record.

After the commit three files are written, each through the shrink guard and each before the
exit code: `record`, the checkpoint of Stage 6; the receipt of the non-FB tier
(`WriteTierReceipt`), whose size depends on the output and on which of its rows were new
(`TierSize`); and the receipt of the dedup gate (`WriteGateReceipt`), whose size depends on
the FBs that it lists for an owner (`GateSize` of `advised`). The gate lists an FB that is
inserted beside another of its name, or over a row with none of its sources (`Advises`): the
name and the sources decide that, the comparison of bodies behind it only names the list. A
write that would shrink its file raises, with the rows committed (`WriteRefused`). `Rate` is
`feedback.py`; `ReadEvidence` and `ApplyEvidence` are the two halves of the evidence
accumulator, between which anything may happen. `brought` is a history variable: the sources
that a commit of the scope `full_upsert` has put into old rows since the accumulator read
them. An id is a hash of name and definition, so that a vector belongs to an id.

Left out: an enforcing dedup gate (the configuration has it report only), the taxonomy
hook, Parquet snapshots, usage counters, the purge of superseded runs, `--export-only`
and the exports.

## 3. The runs

Bounds are in the `.cfg` files; every one of them is a CONSTANT.

| Run | Shows | Bounds, and why they are enough |
|---|---|---|
| `runner_auto` | types; certified checkpoints are whole (`CertifiedWhole`); plain starts never skip a partial stage (`ResumesOverWhole`); restarts complete (`PipelineCompletes`) | six stages: two before Stage 1.3, 1.3, one that writes once, an LLM stage that writes as it goes, the last; three faults, so that a fault can hit the repair of a fault; three corpora, the second too small to replace the first, the third large and half garbage, so that Stage 1 and Stage 1.3 are refused (355,720 states) |
| `runner_forced` | a completed `--resume-from` run leaves all later stages in line with the one before, up to the first incremental one (`ForcedRunPropagates`) | the same with two corpora and two faults, with `--stages`, smoke and plumbing runs in between |
| `runner_unfiltered` | fails: stages after 1.3 can work on unfiltered segments | two faults are needed |
| `lock_starts` | until two starts are between look and lock together, the lock implements `ExclusiveRuns` and names its holder; the pipeline starts again unless starts overlap for ever | three pids, two of them starting at once, two kills, one reused pid: a holder and two starters, or two starters and a foreign process (165,739 states); each exception is needed: `AtMostOneHolder` without it fails after two looks and two writes |
| `breaker_threads` | opens on the threshold only, 4xx never count, heals | three threads (one late promotion, one late failure, one caller), two outages |
| `embed_restart` | clusters match the corpus, one code while nothing crashes, nothing cached is lost (`CacheSurvives`), recovery | three batches, one of which may be dropped; two corpora, two codes, two crashes, two failures |
| `extract_resume` | a resume skips only covered clusters, certified runs cover all but the tolerated ones, the stage implements `ResumableWork` and completes | three targets, one a sub-cluster, two of them about one principle, a tick every two; two crashes, two failures, two codes |
| `merge_resume` | what the preflight lets through is whole (`HandsOverWhole`); an interrupt (`InterruptKeeps`) and a delta run (`DeltaDiscardsNothing`) lose nothing; the stage completes unless receipts are left | two inputs of three units that share clusters and ids within and across them; a tick every two; one delta; two crashes or signals, two failures, two codes: a fault during the repair of a fault |
| `merge_stale` | fails: FBs of an older input survive | two inputs, no fault |
| `merge_retry` | fails: a retry that succeeds does not complete | one failed unit |
| `verify_resume` | verdicts of this input, the stage completes; until two processes are between look and lock together, the lock implements `ExclusiveRuns`, an interval is lost at most and everything is verified at the end | two processes, two inputs of four FBs each (three ids in common, one with another text), a checkpoint every two, two codes, two kills |
| `commit_store` | exit 0 means stored, all or nothing, vectors follow rows, the others' columns are kept but for what a `full_upsert` brings under the accumulator, the stage completes unless one of its three files would shrink even with nothing to insert | three inputs (a new verdict and a new source, a new FB, an FB fewer and a smaller tier), two FBs of one name and concept, one row of a sidecar; a gate receipt that shrinks by a third without its one entry; six rowids, which is two full commits; one rating per FB, one accumulator, one failure |

`runner_auto` and `runner_unfiltered` do not check for deadlock: a torn marker really
keeps a plain start from running.

`ForcedRunPropagates` stops at the first incremental stage after the forced one.
Beyond it the code makes no such promise: Stage 2 skips the clusters its old
checkpoint covers. It also excepts the checkpoint that Stage 1.3 has rewritten when
the stage before Stage 1 is among those that ran: that checkpoint is filtered and
its input is not (`FollowsInput`). The proof of the property is what brought this up;
an instance with a single stage before Stage 1.3 does not show it, so the runner's
instance has two.

`PipelineCompletes` excepts two ends that are real: a torn marker, and files that outgrow
what the same stages would write from the books of now (`Outgrown`). `Completes` of
`Stage6Commit` excepts in the same way the state in which a run that has nothing left to
insert would shrink a file. Each of the exceptions (the record, the two receipts, and
`brought` in `OthersKept`) was taken away once, and TLC found the counterexample.

`CacheSurvives` ends where the clusters are written, since `clean` is there to remove
the cache, and speaks of the embeddings that a start would take up: those that
`state.json` lists for the current segments and whose files are there.

`OneCode` of `EmbedCache` is stated for runs without a crash: with one, a
half-removed cache can lose its sidecar and pass for a legacy one (Stage 2 has the
same weakness, see below).

`HandsOverWhole` excepts checkpoints that hold FBs of an older input (`merge_stale`): among
them the counts can agree by accident. `Completes` of `Stage4Merge` excepts runs that left
receipts (`merge_retry`). `LosesLittle` bounds the loss by what a process holds in memory and
has not written; `ResumesOwnInput` speaks of what a fingerprint vouches for.

### Disagreements with the documentation

Three statements of the repository are checked as they are written, and fail.

* `DownstreamReadsFiltered` (`pipeline/stage1_3_prefilter.py:16-20`). The rewrite of
  Stage 1.3 invalidates Stage 1's manifest, so a plain restart runs Stage 1 again,
  unfiltered. If this run stops before Stage 1.3 has run again, Stage 1 is valid and
  so is the old completion flag of 1.3: the next start goes on after 1.3.
* `CurrentOnly` (`pipeline/stage4_merge.py:1562-1563`). A clean run removes `.state.json` with
  the fingerprint of its input (2762). The next full run has nothing to compare, and
  as soon as one cluster id occurs in both inputs it keeps the old FBs and skips the
  cluster.
* `RetryCompletes` (`pipeline/stage4_merge.py:2756`). The receipts of a run with failures make
  `.expected_count.json` longer than the file of the run that repairs them; the shrink
  guard refuses it, at this run and at every later one.

Others were met while modelling. They are in the models, as what the code does, and no
property says otherwise:

* Two starts of the runner that look for the lock at once can both take it
  (`pipeline/runner.py:607`), where 579 says "at most ONE pipeline runner may hold a run_id
  at a time"; and two processes of Stage 5 can (`pipeline/stage5_verify.py:875`, against "at
  most ONE S5 writer may hold a checkpoint"). Starts that overlap again and again can
  refuse each other for ever, each seen alive under the pid of a stale lock.
* A corpus, or what Stage 1.3 leaves of it, that is more than a tenth smaller than the file
  before it makes Stage 1 or Stage 1.3 raise at every start: a prefilter that drops over
  10% never goes through (`pipeline/stage1_3_prefilter.py:227`, `pipeline/stage1_chunk.py:282`).
* A `full_upsert` commit that replaces a row between the accumulator's read
  (`pipeline/evidence_accumulator.py:183`) and its write (172) can bring a source that the
  old union then erases, where the accumulator's union "never shrinks".
* A re-run of Stage 6 after a run whose dedup gate listed FBs has nothing to list: its receipt is
  shorter, and the run raises after its commit, at every start, where
  `pipeline/stage6_commit.py:1694-1697` has the receipt written even when "the gate looked and
  decided nothing". So does the receipt of a tier that has become smaller (1691).
* `allow_request` lets every caller pass while the breaker is HALF_OPEN
  (`pipeline/omlx_call.py:125` speaks of one).
* After a crash inside `rmtree` a batch can be embedded again, refused by the shrink guard
  when its state is written, and counted as failed (`pipeline/stage1_5_embed_cluster.py:399`).
* `is_near_duplicate` returns no signature for a text it knows, and the collection only
  compares FBs with a signature: what the index finds is kept, what it misses is
  dropped (`pipeline/stage2_extract.py:2667`).
* Stage 2's code sidecar is written by the final write only: what a killed run leaves has
  none and passes for any code (`pipeline/stage2_extract.py:2263`).
* Several FBs of one cluster are one entry of Stage 4's `processed_ids`. After a tick or
  an interrupt between two of them the second is skipped for good
  (`pipeline/stage4_merge.py:773`, 1819), and a receipt for one of them collides with the
  sources of its sibling in the preflight. Stage 5 refuses such a checkpoint, and
  nothing repairs it.
* A run of Stage 4 that ends with failures leaves a final checkpoint with more records
  than `.state.json` counts, so that the next full start takes it for truncated and begins
  again, where 2760-2761 speak of a resume.
* Stage 5 compares the fingerprints before it asks for the lock
  (`pipeline/stage5_verify.py:1083`, 1085). A process that found none, or another, and gets
  the lock after a second process has verified part or all of the same input, archives
  that checkpoint as stale although its fingerprint is the current one. The verdicts
  are renamed, not deleted, and are computed again.
* A row whose vector failed is never given one by a later scoped commit
  (`pipeline/stage6_commit.py:536`); two evidence accumulators at once, which nothing
  excludes, can take back each other's sources.

## 4. Fairness

* `PipelineRunner`: weak fairness of the runner's own steps (it never stops between
  two stages), strong fairness of a plain start (the operator who finds the pipeline
  idle starts it again). Faults are bounded: they stop some day.
* `RunnerLock`: weak fairness of the steps of a start, of the end of a stage and of a
  foreign process; strong fairness of exit and of launching, since both are
  disabled and enabled again by others.
* `CircuitBreaker`: weak fairness of a thread's steps (the wall-clock deadline of
  `_post_with_wall_clock` ends every attempt) and of the cooldown; strong fairness of
  a success, that is, not every call is rejected. No fairness for the server.
* `EmbedCache`, `Stage2Extract`: weak fairness of the stage's steps, starting it
  included. Failures, crashes, upgrades and changes of the corpus need not happen.
* `Stage4Merge`: weak fairness of a full run's steps, since it is full runs that the
  runner starts; delta runs, signals, failed units, other code and other inputs need not
  happen. Failures are bounded: they stop some day.
* `Stage5Verify`: weak fairness of each process on its own: a refused one does not count
  as progress of the other.
* `Stage6Commit`: weak fairness of the stage's steps. The other writers need not come, and
  cannot keep the stage from its lock for ever (SQLite's busy timeout fails their write
  or the stage's, which is then a run that did not come).

## 5. Proofs

`PipelineRunnerProofs` proves, for every number of stages, every set of LLM,
incremental and repeatable stages, every bound and every set of invocations:

* `TypeCorrect`: `Spec => []TypeOK`.

and, when no invocation overrides what the runner finds on disk (`Unforced`: no
`--resume-from`, no `--stages`, no smoke run):

* `OnlyWholeIsCertified`: `Spec => []CertifiedWhole`.
* `EveryStartIsOverWhole`: `Spec => ResumesOverWhole`.

The assumption is needed: with `--stages` a run does not start at the first
invalid stage, and its checkpoints may come from partial ones.

Neither property is inductive. `CertifiedWhole` speaks of a checkpoint that equals its
manifest; a step away from it is a run that is about to write that manifest. The
invariant `IInv` has four parts: only whole contents get into manifests; the run is a
suffix of the stage order; the checkpoints behind the run are whole, the current one
too once the child has succeeded; the checkpoints before a paused marker are whole and
later runs do not work before it. The argument: a start at the first invalid stage has
only certified, hence whole, checkpoints before it (`ValidIsWhole`,
`StartOverWhole`); a start at the marker has them by the last part; the stage itself
writes whole output from whole input (`OutputWhole`); and while it is at work it
touches its own checkpoint alone, or, Stage 1.3, the one before it without making it
partial. `IInvStep` does one step per action. `AutoResumePointFound` is where the least
invalid stage is shown to exist. `IInv` holds in `runner_auto`.

For all invocations, forced ones included:

* `ForcedRunsPropagate`: `Spec => ForcedRunPropagates`.

The property speaks of the end of a run; `ForcedRunInLine`, which proves it, speaks of
every moment of one. From the first stage of a forced run up to the one it is at, each
checkpoint is in line with the one before (`InLine`); the stage at work has not spoiled
that, because it writes its own checkpoint, which nothing behind it reads, or, Stage
1.3, the one before, which then is what the property excepts (`ForcedRewrite`); and once it
has succeeded its own checkpoint is in line too (`ForcedFinish`), since it had all of its
input before it. What is left to do is the rest of the stages in their order, so that
the run can only end with the last.

`RunnerLockProofs` proves, for every set of pids and lock files and every bound on starts,
kills and reused pids:

* `TypeCorrect`: `Spec => []TypeOK`.
* `OneHolder`: `Spec => []AtMostOneHolder`.
* `HolderIsNamed`: `Spec => []LockNamesHolder`.
* `StagesExclude`: `Spec => []StagesExclusive`.
* `Implements`: `Spec => IsExclusive`, that is, the refinement of `ExclusiveRuns`.
* `PromiseExcludes`: `IsExclusive => [](AtMostOneHolder /\ StagesExclusive)`.

There is no assumption on how many start at once. Each property says itself up to where it
holds, by `raced`: until two starts are between look and lock together.

Mutual exclusion is not inductive: a starter that is about to write is one step away from a
second holder. `IInv` adds what the starter knows at each of its steps. If there is a
holder, the pid it has read is the holder's (`NoRival`, first part), so the probe finds it
alive; past the probe there is no holder (second part), and none can appear, because nobody
else is past its look (`Serial`); and the file it writes is the one the path leads to (third
part), so that afterwards the lock names it. That the lock names every holder makes them
one, and a stage alive belongs to a holder as long as nothing was killed (`StagesHeld`). The
refinement needs nothing more: `NoRival` gives `Acquire` its guard, `StagesHeld` gives it to
`StartStage`, and the steps of a start before the last leave holders and stages alone
(`Unseen`). Once `raced` is set the promise asks for less, and no invariant is needed.

`CircuitBreakerProofs` proves, for every set of threads, threshold, number of attempts
and bound on outages:

* `TypeCorrect`: `Spec => []TypeOK`.
* `OnlyFailuresOpen`: `Spec => []OpensOnThreshold`.
* `RejectionsAreNoFailures`: `Spec => []RejectionsNeverTrip`.

A half-open breaker needs one failure to open, so `OpensOnThreshold` has to speak of
both states that are not closed: `TrippedOnThreshold`. `RejectionsNeverTrip` has to
know that before the first outage no thread holds a failed call that it is about to
report: `NothingFailed`. `IInv` is the two together.

`EmbedCacheProofs` proves, for every set of batches, corpora and versions of the code,
every size and every bound on crashes, failures and dropped batches:

* `TypeCorrect`: `Spec => []TypeOK`.
* `ClustersMatch`: `Spec => []ClustersMatchCorpus`.
* `OneCodeOnly`: `Spec => []OneCode`.
* `CacheIsKept`: `Spec => CacheSurvives`.

The clusters are written at the end, from what the process holds in memory, and that
comes partly from the disk. `IInv` follows the fingerprint along this way: the files
that `state.json` lists come from the corpus it names (`ListedMatch`; files it does not
list may come from any); once the cache is accepted or discarded this is the loaded
corpus (`CacheIsOwn`); so is the corpus of everything embedded since, in memory and on
disk (`WorkIsOwn`), and before that there is nothing (`NothingYet`). A crash forgets
the memory and keeps `ListedMatch`, wherever it falls, because a file is written before
it is listed; a removal in any order leaves less to claim. Type correctness is proved
together with it: that the clusters hold an embedding for every batch needs `Pending =
{}` (`InProgress`).

`OneCode` rests on the sidecar: between two runs it is there whenever `state.json` is, and
names the code of every embedding listed (`SidecarNamesCode`). So a run that passes the
check takes up embeddings of its own code, and adds its own (`RunIsOneCode`). From
`WriteState` to `WriteSidecar`, and while the cache is removed, the sidecar may be missing;
only a crash can end a run there, which is why the invariant claims nothing about the
cache after one (`CodeInv`). `CacheSurvives` needs that a run counts as done all that a
restart would take up (`TakesUp`), because `WriteState` replaces the list by what the run
counts.

`Stage2ExtractProofs` proves, for all finite sets of clusters, principles, splits, any
interval, tolerance, versions and bounds:

* `TypeCorrect`: `Spec => []TypeOK`.
* `ResumeSkipsCovered`: `Spec => []SkipsOnlyCovered`.
* `CertifiedIsCovered`: `Spec => []CertifiedCovers`.
* `Implements`: `Spec => IsResumable`, that is, the refinement of `ResumableWork`.

What a restart skips is on disk because of what a run knew when it wrote: it holds the
principles of everything processed, which includes what the last run left (`RunHolds`).
This goes back to the answers of the workers, which are whole when no record of them
failed (`AnswersWhole`), and to the near-duplicate check, which drops an FB only in favour
of one of the same principle. The checkpoint is written before the ids (`FilesInOrder`).
For exit 0, every cluster that was handled and not processed has been counted
(`FailuresCounted`); counting is by cardinalities of finite sets, one cluster at a time. The
refinement has one lemma per action of `ResumableWork`, and `WorkStep` maps the actions of
the stage to them.

`Stage4MergeProofs` proves, for all inputs, units, ids, clusters, deltas, any interval,
tolerance and bounds:

* `TypeCorrect`: `Spec => []TypeOK`.
* `InterruptIsLossless`: `Spec => InterruptKeeps`.
* `DeltaIsLossless`: `Spec => DeltaDiscardsNothing`.
* `HandedOverIsWhole`: `Spec => []HandsOverWhole`.

An interrupt ends a run at the end of a tick only (`InterruptStep`), where the three files
say the same (`FilesInOrder`) and pass the guards. A delta run holds all that is in the
checkpoint at every step (`DeltaHolds`), although it may be written at any. The last one
counts: after a clean full run the expectation is one record per unit with no receipt
(`ExpectsAll`); an input has no more ids than units; so if the records are ids of this
input and their number is the number of units, they are all of its ids (`CountsAgree`).

`Stage5VerifyProofs` proves, for all processes, inputs, versions, any interval and bound on
kills:

* `TypeCorrect`: `Spec => []TypeOK`, which includes that no id is both verified and left.
* `WriterIsOne`: `Spec => []OneWriter`.
* `Implements`: `Spec => WritersExclude`, that is, the refinement of `ExclusiveRuns`.
* `ResumeIsOwn`: `Spec => []ResumesOwnInput`.
* `LittleIsLost`: `Spec => []LosesLittle`.
* `EndIsWhole`: `Spec => []CompletesWhole`.

Three of them hold however many processes write (`TypeCorrect`, `ResumeIsOwn`, `Implements`,
whose promise includes the race); the other three until two processes are between look and
lock together, which their statements say. Up to there a process that found the lock free is
alone with it until it has written it (`TakingAlone`). What it read before (`mismatch`) may
be out of date by then, because another process can have come and gone; it is still safe,
because that process has left verdicts of the same input under the same fingerprint, or
none. `Knows` says, for each place of a process, what it may rely on: among other things
that the checkpoint is of its input (`OwnCheckpoint`) from where the fingerprints were
equal, which no other writer of the same input can undo. `KnowsAlone` is what it knows
besides while it is the only writer. `PrintsPast` says that a fingerprint on disk is of no
later input, so that none vouches for old verdicts when the input changes.

`Stage6CommitProofs` proves, for all inputs, FBs, sidecar rows, concepts, sources, scopes,
tolerance and bounds:

* `TypeCorrect`: `Spec => []TypeOK`.
* `SuccessIsStored`: `Spec => []CertifiedStored`.
* `CommitIsAtomic`: `Spec => AllOrNothing`.
* `VectorsAreOwn`: `Spec => []VectorsOwn`.
* `OthersAreKept`: `Spec => OthersKept`.

The invariant says of the committed tables, and of the open transaction, that they are
`Sound`: vectors at their rows, a last rowid, and no row with more ratings than the ledger.
The transaction relates to the store by `RowsKeep`: no row is dropped, and outside the full
scope ratings and sources are those of the store, which holds because nobody else writes
meanwhile. What the accumulator has read covers all sources the rows have when the union is
written (`SeenCovers`), but for those that a commit in the full scope brought in between: of
the sources of records nothing is assumed, and `OthersKept` excepts exactly these. `Takings`
follows what was taken and not refused into the table and, after the commit, into the store;
the refused rows are no more than the tolerance because ids of one input are distinct
(`CommitStores`).

The assumptions are the `ASSUME`s of the modules: the stage sets lie within the stages,
Stage 1.3 is neither the first nor an incremental stage, incremental stages are not guarded
by size, sizes are naturals, inputs and their units are finite, ids within one input of
Stages 5 and 6 are distinct, sentinels are not values, bounds are naturals.

Model-checked only: all liveness (`PipelineCompletes`, `StartsAgain`, `Heals`, `Recovers`,
`Completes`), which needs fairness and ENABLED. Every invariant and action property that a
passing run checks, and the three refinements, are theorems.

## 6. Plan

In this order, the most important behaviour first.

1. Done: the runner and its lock, the breaker, Stages 1.5, 2, 4, 5 and 6 with the other
   writers of the store, `ResumableWork`, `ExclusiveRuns` and their refinements, their
   runs and the proofs above.
2. `ResumeChain`: Stages 1.5, 2 and 4 across a new clustering. Cluster ids are
   indices, and Stage 2's segids carry no fingerprint of the clusters
   (`pipeline/stage2_extract.py:2315`). To be stated: no FB of clusters that are gone
   survives a run that completes. `merge_stale` shows the part of it that is Stage 4's.
3. `Stage2Extract`: gated ids, `--reprocess-gated`, `--reset-single-source`, the probe
   cache, the singleton pass.
4. `ServerCare`: watchdog, preflight and breaker together; `ParallelMap`: timeouts of a
   pool that is waited for item by item.
5. The exports of Stage 6 and the push ledger.
6. Proofs: what the modules of 2 to 5 add.

New runs replace weaker ones of the same component rather than add to them.

## 7. Not modelled, and why

Conversion, chunking, prompts, classification, NLI scores, clustering arithmetic and
retrieval ranking are data, not control: the models keep of them what a restart can observe.
Governance scripts, tools, benchmarks, fixtures and tests are not part of the running
system. The acquisition lane, the ingest gate, safe delete and the write guard are
sequential programs over one ledger each, left to tests. The exports, server care and worker
pools are in the plan. Of the store's other writers, those that derive one column from
others in one statement (serving gate, reliability, taxonomy) have nothing to interleave
with but SQLite's own transactions. The MLX provider is unused by the code's own word.
