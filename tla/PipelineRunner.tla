--------------------------- MODULE PipelineRunner ---------------------------
(***************************************************************************)
(* The runner of pipeline/runner.py: it drives the stages of one run_id in *)
(* STAGE_ORDER, each as a child process, and keeps on disk what a restart  *)
(* needs: the stages' checkpoints, a manifest beside each checkpoint (the  *)
(* hash of what the stage produced) and one resume marker.                 *)
(*                                                                         *)
(* Stages are numbered 1..NumStages in STAGE_ORDER.  A checkpoint's        *)
(* content is abstracted to what resuming can tell apart:                  *)
(*   ver    the version of the book corpus it was derived from             *)
(*   filt   whether Stage 1.3 has dropped the garbage from it              *)
(*   whole  FALSE when some stage on the way to it stopped part-way        *)
(*   stamp  the created_at of its records: a rewritten checkpoint differs  *)
(*          from the one a manifest recorded, except where a stage repeats *)
(*          the same bytes; two values are enough to tell them apart       *)
(* Equal contents have equal SHA-256, different contents different ones.   *)
(***************************************************************************)
EXTENDS Naturals, Sequences

CONSTANTS NumStages,    \* length of STAGE_ORDER
          Llm,          \* the llm_bound stages
          Prefilter,    \* Stage 1.3, which rewrites the checkpoint before it
          Incremental,  \* the stages that write their checkpoint as they go and
                        \* skip what it holds when they run again
          Repeatable,   \* the stages whose rerun on equal input repeats the bytes
          Guarded,      \* the stages whose new checkpoint may not be more than a
                        \* tenth smaller than the one it replaces (safe_write)
          Size(_, _),   \* Size(s, c): the size of checkpoint s when it is whole, or
                        \* the most that a part of it takes
          Invocations,  \* command lines the operator uses
          MaxVersion,   \* bound on changes of the corpus
          MaxFaults,    \* bound on crashes, interrupts and failed stages
          Absent,       \* no such file; also "no run in progress"
          Torn          \* a marker file cut short by a crash

VARIABLES source,    \* version of the book corpus
          ckpt,      \* ckpt[s]: content of stage s's checkpoint
          manifest,  \* manifest[s]: the content whose hash the manifest records
          marker,    \* pipeline_resume.json
          phase,     \* where the runner is
          cur,       \* the stage being run, 0 when there is none
          todo,      \* the stages still to run
          opts,      \* the invocation of the run in progress
          faults     \* faults so far (bounded by MaxFaults)

vars == <<source, ckpt, manifest, marker, phase, cur, todo, opts, faults>>

Stages   == 1..NumStages
Versions == 1..MaxVersion
Modes    == {"full", "smoke", "plumbing"}
Content  == [ver : Versions, filt : BOOLEAN, whole : BOOLEAN, stamp : {0, 1}]
Markers  == [stage : Stages, paused : BOOLEAN]
Phases   == {"idle", "next", "preflight", "exec", "flag", "mark", "manifest"}

\* resume = --resume-from (0: not given), list = --stages (<<>>: not given),
\* stop = --stop-after (0: not given); plumbing = --smoke-plumbing.
Invocation == [resume : Stages \cup {0}, list : Seq(Stages),
               stop : Stages \cup {0}, mode : Modes]

ASSUME StagesAssumption ==
    /\ NumStages \in Nat \ {0}
    /\ Llm \subseteq Stages
    /\ Incremental \subseteq Stages
    /\ Repeatable \subseteq Stages
    /\ Prefilter \in Stages \ {1}
    /\ Prefilter \notin Incremental
    /\ Guarded \subseteq Stages \ Incremental
ASSUME SizesAssumption == \A s \in Stages, c \in Content : Size(s, c) \in Nat
ASSUME InvocationsAssumption == Invocations \subseteq Invocation
ASSUME BoundsAssumption == MaxVersion \in Nat \ {0} /\ MaxFaults \in Nat
ASSUME SentinelsAssumption ==
    /\ Absent \notin Content \cup Markers \cup Invocation
    /\ Torn \notin Markers \cup {Absent}

-----------------------------------------------------------------------------
(* Reading the disk *)

\* A stage reads the checkpoint of the stage before it, except the one after
\* Stage 1.3, which reads the checkpoint that Stage 1.3 rewrote.
Producer(s) == IF s - 1 = Prefilter THEN s - 2 ELSE s - 1

HasInput(s) == s > 1 => ckpt[Producer(s)] # Absent

Input(s) == IF s = 1
            THEN [ver |-> source, filt |-> FALSE, whole |-> TRUE, stamp |-> 0]
            ELSE ckpt[Producer(s)]

FreshStamp(s) == IF s \in Repeatable \/ manifest[s] = Absent
                 THEN 0 ELSE 1 - manifest[s].stamp

\* Where the records come from: the input, or what an earlier run has left in
\* the checkpoint, when the stage takes all units of its input for done.
Basis(s) == {Input(s)} \cup (IF s \in Incremental THEN {ckpt[s]} \ {Absent} ELSE {})

\* What stage s writes: every unit when finished, a part of them otherwise.
Output(s, finished, basis) ==
    [basis EXCEPT !.whole = Input(s).whole /\ finished, !.stamp = FreshStamp(s)]

\* What the file of stage s can come to with content c.
Sizes(s, c) == IF c.whole THEN {Size(s, c)} ELSE 0..Size(s, c)

\* safe_write's shrink guard, for the file of stage s that is to become c: the write can
\* go through, or can raise ValueError (both, when a part of a checkpoint is involved).
Accepts(s, c) ==
    s \in Guarded /\ ckpt[s] # Absent =>
        \E n \in Sizes(s, c), o \in Sizes(s, ckpt[s]) : 10 * n >= 9 * o

Refuses(s, c) ==
    /\ s \in Guarded /\ ckpt[s] # Absent
    /\ \E n \in Sizes(s, c), o \in Sizes(s, ckpt[s]) : 10 * n < 9 * o

Filtered(c) == [c EXCEPT !.filt = TRUE]

\* Mutation: existence taken for validity, as before D2329.
CheckpointExists(s) == ckpt[s] # Absent

CheckpointIsValid(s) == ckpt[s] # Absent /\ manifest[s] = ckpt[s]

AutoResumePoint ==
    IF \A s \in Stages : CheckpointIsValid(s)
    THEN NumStages
    ELSE CHOOSE s \in Stages : /\ ~CheckpointIsValid(s)
                               /\ \A t \in 1..(s-1) : CheckpointIsValid(t)

PausedMarker == marker \notin {Absent, Torn} /\ marker.paused

\* --resume-from, else the paused marker, else the manifests.
ResumePoint(inv) ==
    IF inv.resume # 0 THEN inv.resume
    ELSE IF PausedMarker THEN marker.stage
    ELSE AutoResumePoint

StagesFrom(k) == [i \in 1..(NumStages - k + 1) |-> k + i - 1]

Plan(inv) == IF inv.list # <<>> THEN inv.list ELSE StagesFrom(ResumePoint(inv))

Skips(s) == opts.mode = "plumbing" /\ s \in Llm

-----------------------------------------------------------------------------
(* The runner's steps *)

TypeOK ==
    /\ source \in Versions
    /\ ckpt \in [Stages -> Content \cup {Absent}]
    /\ manifest \in [Stages -> Content \cup {Absent}]
    /\ marker \in Markers \cup {Absent, Torn}
    /\ phase \in Phases
    /\ cur \in Stages \cup {0}
    /\ todo \in Seq(Stages)
    /\ opts \in Invocations \cup {Absent}
    /\ faults \in 0..MaxFaults
    /\ phase = "idle" <=> opts = Absent
    /\ phase \in {"preflight", "exec", "flag", "mark", "manifest"} => cur \in Stages
    /\ phase = "flag" => cur = Prefilter /\ ckpt[cur - 1] # Absent
    /\ phase = "preflight" => cur \in Llm

Init ==
    /\ source = 1
    /\ ckpt = [s \in Stages |-> Absent]
    /\ manifest = [s \in Stages |-> Absent]
    /\ marker = Absent
    /\ phase = "idle"
    /\ cur = 0
    /\ todo = <<>>
    /\ opts = Absent
    /\ faults = 0

\* The runner process is gone; the disk stays.
RunEnds ==
    /\ phase' = "idle"
    /\ cur' = 0
    /\ todo' = <<>>
    /\ opts' = Absent

Fault == faults < MaxFaults /\ faults' = faults + 1

Disk == <<ckpt, manifest, marker>>

\* The operator changes the books; nothing tells the pipeline.
CorpusChanges ==
    /\ source < MaxVersion
    /\ source' = source + 1
    /\ UNCHANGED <<Disk, phase, cur, todo, opts, faults>>

\* main() parses the marker unless --resume-from is given: a torn marker
\* raises JSONDecodeError and the runner does not start.
StartRun(inv) ==
    /\ phase = "idle"
    /\ inv.resume = 0 => marker # Torn
    /\ phase' = "next"
    /\ todo' = Plan(inv)
    /\ opts' = inv
    /\ UNCHANGED <<source, Disk, cur, faults>>

\* The loop of run_pipeline goes on with the next stage...
NextStage ==
    /\ phase = "next"
    /\ todo # <<>>
    /\ cur # 0 => cur # opts.stop
    /\ ~Skips(Head(todo))
    /\ cur' = Head(todo)
    /\ todo' = Tail(todo)
    /\ phase' = IF cur' \in Llm THEN "preflight" ELSE "exec"
    /\ UNCHANGED <<source, Disk, opts, faults>>

\* ...skipping the LLM stages of a plumbing smoke run...
SkipStage ==
    /\ phase = "next"
    /\ todo # <<>>
    /\ cur # 0 => cur # opts.stop
    /\ Skips(Head(todo))
    /\ todo' = Tail(todo)
    /\ UNCHANGED <<source, Disk, phase, cur, opts, faults>>

\* ...or it is over with nothing failed, and the marker is cleared.
RunCompletes ==
    /\ phase = "next"
    /\ todo = <<>> \/ (cur # 0 /\ cur = opts.stop)
    /\ RunEnds
    /\ marker' = Absent
    /\ UNCHANGED <<source, ckpt, manifest, faults>>

PreflightPasses ==
    /\ phase = "preflight"
    /\ phase' = "exec"
    /\ UNCHANGED <<source, Disk, cur, todo, opts, faults>>

\* OMLX is down, or not stable after its restart: sys.exit(1).
PreflightAborts ==
    /\ phase = "preflight"
    /\ Fault
    /\ RunEnds
    /\ UNCHANGED <<source, Disk>>

\* The child of a stage that writes its checkpoint as it goes.
StageWritesPart ==
    /\ phase = "exec"
    /\ opts.mode = "full"
    /\ cur \in Incremental
    /\ HasInput(cur)
    /\ \E basis \in Basis(cur) : ckpt' = [ckpt EXCEPT ![cur] = Output(cur, FALSE, basis)]
    /\ UNCHANGED <<source, manifest, marker, phase, cur, todo, opts, faults>>

\* The child writes its checkpoint (one os.replace) and exits 0.
StageFinishes ==
    /\ phase = "exec"
    /\ opts.mode = "full"
    /\ cur # Prefilter
    /\ HasInput(cur)
    /\ \E basis \in Basis(cur) :
          /\ Accepts(cur, Output(cur, TRUE, basis))
          /\ ckpt' = [ckpt EXCEPT ![cur] = Output(cur, TRUE, basis)]
    /\ phase' = "mark"
    /\ UNCHANGED <<source, manifest, marker, cur, todo, opts, faults>>

\* Mutation: Stage 1.3 without --in-place, its default, as before D2327.
PrefilterDryRun ==
    /\ phase = "exec"
    /\ opts.mode = "full"
    /\ cur = Prefilter
    /\ HasInput(cur)
    /\ phase' = "flag"
    /\ UNCHANGED <<source, Disk, cur, todo, opts, faults>>

\* Stage 1.3 first replaces the checkpoint of the stage before it (with nothing to
\* drop it would leave it alone: every corpus is taken to hold some garbage)...
PrefilterRewrites ==
    /\ phase = "exec"
    /\ opts.mode = "full"
    /\ cur = Prefilter
    /\ HasInput(cur)
    /\ Accepts(cur - 1, Filtered(ckpt[cur - 1]))
    /\ ckpt' = [ckpt EXCEPT ![cur - 1] = Filtered(ckpt[cur - 1])]
    /\ phase' = "flag"
    /\ UNCHANGED <<source, manifest, marker, cur, todo, opts, faults>>

\* ...and then writes its completion flag, whose counts stand for that input.
PrefilterFlags ==
    /\ phase = "flag"
    /\ ckpt' = [ckpt EXCEPT ![cur] = Output(cur, TRUE, Input(cur))]
    /\ phase' = "mark"
    /\ UNCHANGED <<source, manifest, marker, cur, todo, opts, faults>>

\* The shrink guard raises: a checkpoint over one of a larger corpus, or segments of
\* which Stage 1.3 drops more than a tenth.  The stage exits with an error, and so it
\* will at the next start.
WriteRefused ==
    /\ phase = "exec"
    /\ opts.mode = "full"
    /\ HasInput(cur)
    /\ IF cur = Prefilter
       THEN Refuses(cur - 1, Filtered(ckpt[cur - 1]))
       ELSE \E basis \in Basis(cur) : Refuses(cur, Output(cur, TRUE, basis))
    /\ RunEnds
    /\ UNCHANGED <<source, Disk, faults>>

\* A smoke run's child works under MAXWELL_RUN_ID=smoke: not on these files.
SmokeStageFinishes ==
    /\ phase = "exec"
    /\ opts.mode # "full"
    /\ phase' = "mark"
    /\ UNCHANGED <<source, Disk, cur, todo, opts, faults>>

\* Mutation: the exit code is not looked at before the stage is certified.
StageFailsCertified ==
    /\ phase \in {"exec", "flag"}
    /\ Fault
    /\ RunEnds
    /\ manifest' = [manifest EXCEPT ![cur] = ckpt[cur]]
    /\ UNCHANGED <<source, ckpt, marker>>

\* Non-zero exit, timeout (the child is killed) or an exception.
StageFails ==
    /\ phase \in {"exec", "flag"}
    /\ IF HasInput(cur) \/ opts.mode # "full" THEN Fault ELSE UNCHANGED faults
    /\ RunEnds
    /\ UNCHANGED <<source, Disk>>

\* Mutation: the marker names the stage to run next.
WriteNextMarker ==
    /\ phase = "mark"
    /\ marker' = [stage |-> cur + 1, paused |-> FALSE]
    /\ phase' = "manifest"
    /\ UNCHANGED <<source, ckpt, manifest, cur, todo, opts, faults>>

WriteResumeMarker ==
    /\ phase = "mark"
    /\ marker' = [stage |-> cur, paused |-> FALSE]
    /\ phase' = "manifest"
    /\ UNCHANGED <<source, ckpt, manifest, cur, todo, opts, faults>>

WriteCheckpointManifest ==
    /\ phase = "manifest"
    /\ manifest' = [manifest EXCEPT ![cur] = ckpt[cur]]
    /\ phase' = "next"
    /\ UNCHANGED <<source, ckpt, marker, cur, todo, opts, faults>>

\* Mutation: the pause points past the interrupted stage.
InterruptSkips ==
    /\ phase # "idle"
    /\ Fault
    /\ RunEnds
    /\ marker' = IF cur \in 1..(NumStages - 1)
                 THEN [stage |-> cur + 1, paused |-> TRUE] ELSE marker
    /\ UNCHANGED <<source, ckpt, manifest>>

\* Ctrl-C.  run_stage catches it while the child runs or while it records the
\* stage's success; elsewhere it ends the run without a trace.
Interrupt ==
    /\ phase # "idle"
    /\ Fault
    /\ RunEnds
    /\ marker' = IF phase \in {"exec", "flag", "mark", "manifest"}
                 THEN [stage |-> cur, paused |-> TRUE] ELSE marker
    /\ UNCHANGED <<source, ckpt, manifest>>

\* The machine dies, or the runner with the stage it is running, or the write raises,
\* which run_stage reports as a failed stage.  (The child of a runner that alone is
\* killed lives on: RunnerLock follows it, not this module.)  write_text truncates and
\* then writes, so the file being written may be left torn; a torn manifest counts as
\* none.
Crash ==
    /\ phase # "idle"
    /\ Fault
    /\ RunEnds
    /\ marker' \in IF phase = "mark" THEN {marker, Torn} ELSE {marker}
    /\ manifest' \in IF phase = "manifest"
                     THEN {manifest, [manifest EXCEPT ![cur] = Absent]}
                     ELSE {manifest}
    /\ UNCHANGED <<source, ckpt>>

RunnerStep ==
    \/ NextStage \/ SkipStage \/ RunCompletes \/ PreflightPasses
    \/ StageFinishes \/ PrefilterRewrites \/ PrefilterFlags \/ WriteRefused
    \/ SmokeStageFinishes
    \/ WriteResumeMarker \/ WriteCheckpointManifest

Next ==
    \/ CorpusChanges
    \/ \E inv \in Invocations : StartRun(inv)
    \/ RunnerStep
    \/ StageWritesPart
    \/ PreflightAborts \/ StageFails \/ Interrupt \/ Crash

Spec == Init /\ [][Next]_vars

-----------------------------------------------------------------------------
(* Properties *)

\* The operator who just starts the runner again, with nothing but defaults.
Plain == [resume |-> 0, list |-> <<>>, stop |-> 0, mode |-> "full"]

\* Invocations that never override what the runner finds on disk.
Unforced(inv) == inv.resume = 0 /\ inv.list = <<>> /\ inv.mode = "full"

\* What a later start would skip is complete: a checkpoint that its manifest
\* proves valid comes from stages that all ran to their end, whatever crashes,
\* pauses and half-written checkpoints lie in between (_checkpoint_is_valid).
CertifiedWhole == \A s \in Stages : CheckpointIsValid(s) => ckpt[s].whole

\* A start never picks a stage whose predecessors left partial or missing
\* checkpoints, whether the paused marker or the manifests choose it.
ResumesOverWhole ==
    [][(phase = "idle" /\ phase' = "next" /\ todo' # <<>>)
          => \A s \in 1..(Head(todo') - 1) : ckpt[s] # Absent /\ ckpt[s].whole]_vars

\* Of the checkpoints ck, that of stage s is of the same books as the one the stage
\* read, and as whole.  It has lost the garbage if that one had, or by Stage 1.3, which
\* rewrote it afterwards.
FollowsInput(ck, s) ==
    LET c == ck[s]
        d == ck[Producer(s)]
    IN  /\ c.ver = d.ver /\ c.whole = d.whole
        /\ c.filt = d.filt \/ s = Prefilter - 1

\* The stages from r to n, up to the first one that skips what its checkpoint holds.
Reached(r, n) == {s \in r..n : Incremental \cap r..s = {}}

\* Their checkpoints follow from one another, and those after Stage 1.3 hold no segment
\* that it should have dropped.
InLine(ck, r, n) ==
    /\ \A s \in Reached(r, n) \ {r} : FollowsInput(ck, s)
    /\ r <= Prefilter /\ Prefilter <= n =>
          \A s \in {Prefilter - 1} \cup {t \in Reached(r, n) : t > Prefilter} : ck[s].filt

Forced(inv) == inv.resume # 0 /\ inv.list = <<>> /\ inv.stop = 0 /\ inv.mode = "full"

\* A run forced to start at a given stage with --resume-from, once it reports
\* completion, has brought every later checkpoint in line with the one before it,
\* whatever lay there from other books, partial runs and earlier forced runs.
ForcedRunPropagates ==
    [][phase = "next" /\ phase' = "idle" /\ faults' = faults /\ Forced(opts)
          => InLine(ckpt, opts.resume, NumStages)]_vars

\* A file on disk holds over a tenth more than the same stage would now write from the
\* books, filtered by Stage 1.3 or not.
Outgrown ==
    \E s \in Guarded, f \in BOOLEAN :
        /\ ckpt[s] # Absent
        /\ 10 * Size(s, [ver |-> source, filt |-> f, whole |-> TRUE, stamp |-> 0])
              < 9 * Size(s, ckpt[s])

AllWhole == \A s \in Stages : ckpt[s] # Absent /\ ckpt[s].whole

\* Once the faults stop, an operator who keeps starting the runner plainly gets
\* complete runs over complete checkpoints, unless a torn marker keeps the runner from
\* starting at all, or the books, or what Stage 1.3 leaves of them, have shrunk by more
\* than the shrink guard allows (safe_write, which then fails the stage at each start).
PipelineCompletes ==
    <>[](marker = Torn) \/ <>[]Outgrown \/ []<>(phase = "idle" /\ AllWhole)

\* The stages after Stage 1.3 only ever work on segments that passed it
\* (stage1_3_prefilter.py: "Downstream S1.5 reads the MUTATED S1 checkpoint").
DownstreamReadsFiltered ==
    \A s \in Stages : s > Prefilter /\ ckpt[s] # Absent => ckpt[s].filt

\* The runner's own steps are never postponed for ever, and an operator who
\* finds the pipeline idle again and again starts it plainly again and again.
Fairness == WF_vars(RunnerStep) /\ SF_vars(StartRun(Plain))
FairSpec == Spec /\ Fairness
-----------------------------------------------------------------------------
(* The inductive invariant of runs that start from what is on disk          *)

Whole(s) == ckpt[s] # Absent /\ ckpt[s].whole

Staging == {"preflight", "exec", "flag", "mark", "manifest"}

\* The stages a run has behind it, the one it is at included.
Done == NumStages - Len(todo)

\* Only complete checkpoints get a manifest.
ManifestsWhole == \A s \in Stages : manifest[s] # Absent => manifest[s].whole

\* The run is a suffix of STAGE_ORDER, taken in order...
RunIsSuffix ==
    phase # "idle" =>
        /\ Unforced(opts)
        /\ Len(todo) <= NumStages
        /\ \A i \in 1..Len(todo) : todo[i] = Done + i

\* ...over complete checkpoints.
RunOverWhole ==
    /\ phase = "next" => \A s \in 1..Done : Whole(s)
    /\ phase \in Staging => cur = Done /\ \A s \in 1..(cur - 1) : Whole(s)
    /\ phase \in {"mark", "manifest"} => Whole(cur)

\* A paused marker, which outlives the run that wrote it, has only complete
\* checkpoints before it, and the runs after it do not work before it.
PauseOverWhole ==
    PausedMarker =>
        /\ \A s \in 1..(marker.stage - 1) : Whole(s)
        /\ phase = "next" => marker.stage <= Done + 1
        /\ phase \in Staging => marker.stage <= cur

IInv == ManifestsWhole /\ RunIsSuffix /\ RunOverWhole /\ PauseOverWhole

-----------------------------------------------------------------------------
(* The inductive invariant of forced runs, next to runs of any other kind   *)

\* A forced run takes the stages from its first one on in order, and leaves what is
\* behind it in line.
ForcedRunInLine ==
    phase # "idle" /\ Forced(opts) =>
        /\ Len(todo) <= NumStages - opts.resume + 1
        /\ \A i \in 1..Len(todo) : todo[i] = Done + i
        /\ phase = "next" => InLine(ckpt, opts.resume, Done)
        /\ phase \in Staging =>
              cur = Done /\ opts.resume <= cur /\ InLine(ckpt, opts.resume, cur - 1)
        /\ phase = "flag" => ckpt[cur - 1].filt
        /\ phase \in {"mark", "manifest"} => InLine(ckpt, opts.resume, cur)
=============================================================================
