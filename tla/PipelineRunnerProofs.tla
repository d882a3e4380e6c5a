------------------------ MODULE PipelineRunnerProofs ------------------------
(***************************************************************************)
(* Proofs about the runner, for any number of stages, any choice of LLM,   *)
(* incremental, repeatable and guarded stages, any sizes, any bounds.       *)
(***************************************************************************)
EXTENDS PipelineRunner, WellFoundedInduction, TLAPS

USE StagesAssumption, InvocationsAssumption, BoundsAssumption, SentinelsAssumption

\* A non-empty set of naturals has a least element.
LEMMA LeastNatural ==
    ASSUME NEW T, T \subseteq Nat, T # {}
    PROVE  \E m \in T : \A k \in T : m <= k
<1> DEFINE R == {ss \in Nat \X Nat : ss[1] < ss[2]}
<1>1. IsWellFoundedOn(R, Nat)
  BY NatLessThanWellFounded DEF OpToRel
<1>2. ASSUME NEW Q, IsWellFoundedOn(Q, Nat)
      PROVE  \E m \in T : \A k \in T : ~(<<k, m>> \in Q)
  BY <1>2, WFMin
<1>3. PICK m \in T : \A k \in T : ~(<<k, m>> \in R)
  BY <1>1, <1>2
<1>4. \A k \in T : m <= k
  <2> TAKE k \in T
  <2>1. m \in Nat /\ k \in Nat
    OBVIOUS
  <2>2. ~(k < m)
    BY <1>3, <2>1
  <2>3. QED
    BY <2>1, <2>2
<1>5. QED
  BY <1>4

\* The stage found by scanning the manifests is a stage, and every stage before
\* it is valid.
LEMMA AutoResumePointFound ==
    /\ AutoResumePoint \in Stages
    /\ \A t \in 1..(AutoResumePoint - 1) : CheckpointIsValid(t)
<1>1. CASE \A s \in Stages : CheckpointIsValid(s)
  <2>1. AutoResumePoint = NumStages
    BY <1>1 DEF AutoResumePoint
  <2>2. QED
    BY <1>1, <2>1 DEF Stages
<1>2. CASE ~(\A s \in Stages : CheckpointIsValid(s))
  <2> DEFINE T == {s \in Stages : ~CheckpointIsValid(s)}
  <2>1. T \subseteq Nat /\ T # {}
    BY <1>2 DEF Stages
  <2>2. PICK m \in T : \A k \in T : m <= k
    BY <2>1, LeastNatural
  <2>3. /\ m \in Stages
        /\ ~CheckpointIsValid(m)
        /\ \A t \in 1..(m-1) : CheckpointIsValid(t)
    BY <2>2 DEF Stages
  <2>4. AutoResumePoint = CHOOSE s \in Stages :
                              /\ ~CheckpointIsValid(s)
                              /\ \A t \in 1..(s-1) : CheckpointIsValid(t)
    BY <1>2 DEF AutoResumePoint
  <2>5. QED
    BY <2>3, <2>4
<1>3. QED
  BY <1>1, <1>2

\* StagesFrom(k) is the consecutive stages from k to the last.
LEMMA StagesFromType ==
    ASSUME NEW k \in Stages
    PROVE  /\ StagesFrom(k) \in Seq(Stages)
           /\ Len(StagesFrom(k)) = NumStages - k + 1
           /\ \A i \in 1..Len(StagesFrom(k)) : StagesFrom(k)[i] = k + i - 1
           /\ Head(StagesFrom(k)) = k
<1>1. \A i \in 1..(NumStages - k + 1) : k + i - 1 \in Stages
  BY DEF Stages
<1>2. NumStages - k + 1 \in Nat
  BY DEF Stages
<1>3. /\ StagesFrom(k) \in Seq(Stages)
      /\ Len(StagesFrom(k)) = NumStages - k + 1
      /\ \A i \in 1..Len(StagesFrom(k)) : StagesFrom(k)[i] = k + i - 1
  BY <1>1, <1>2 DEF StagesFrom
<1>4. Head(StagesFrom(k)) = StagesFrom(k)[1] /\ 1 \in 1..Len(StagesFrom(k))
  BY <1>3 DEF Stages
<1>5. StagesFrom(k)[1] = k + 1 - 1
  BY <1>3, <1>4
<1>6. QED
  BY <1>3, <1>4, <1>5 DEF Stages

\* A plan the runner draws up is a sequence of stages.
LEMMA PlanType ==
    ASSUME TypeOK, NEW inv \in Invocations, inv.resume = 0 => marker # Torn
    PROVE  Plan(inv) \in Seq(Stages)
<1>1. inv \in Invocation
  OBVIOUS
<1>2. CASE inv.list # <<>>
  BY <1>1, <1>2 DEF Plan, Invocation
<1>3. CASE inv.list = <<>>
  <2>1. ResumePoint(inv) \in Stages
    BY <1>1, AutoResumePointFound DEF ResumePoint, PausedMarker, TypeOK, Markers, Invocation
  <2>2. QED
    BY <1>3, <2>1, StagesFromType DEF Plan
<1>4. QED
  BY <1>2, <1>3

\* What a stage reads and writes is content; its output is whole if its input is and it finished.
LEMMA OutputType ==
    ASSUME TypeOK, NEW s \in Stages, HasInput(s), NEW b \in BOOLEAN
    PROVE  /\ Input(s) \in Content
           /\ \A d \in Basis(s) : /\ Output(s, b, d) \in Content
                                 /\ Output(s, b, d).whole = (Input(s).whole /\ b)
<1>1. s > 1 => Producer(s) \in Stages
  BY DEF Producer, Stages
<1>2. Input(s) \in Content
  BY <1>1 DEF Input, HasInput, TypeOK, Content, Stages
<1>3. FreshStamp(s) \in {0, 1}
  BY DEF FreshStamp, TypeOK, Content
<1>4. Basis(s) \subseteq Content
  BY <1>2 DEF Basis, TypeOK
<1>5. QED
  BY <1>2, <1>3, <1>4 DEF Output, Content

-----------------------------------------------------------------------------
(* Type correctness *)

\* No step of the runner, of its children or of its crashes breaks the types.
LEMMA TypeOKStep == TypeOK /\ [Next]_vars => TypeOK'
<1> SUFFICES ASSUME TypeOK, [Next]_vars
             PROVE  TypeOK'
  OBVIOUS
<1> USE DEF Disk, Fault, RunEnds, Phases
<1>1. CASE CorpusChanges
  BY <1>1 DEF CorpusChanges, TypeOK, Versions
<1>2. ASSUME NEW inv \in Invocations, StartRun(inv)
      PROVE  TypeOK'
  <2>1. Plan(inv) \in Seq(Stages)
    BY <1>2, PlanType DEF StartRun
  <2>2. inv # Absent
    OBVIOUS
  <2>3. QED
    BY <1>2, <2>1, <2>2 DEF StartRun, TypeOK
<1>3. CASE NextStage
  <2>1. Head(todo) \in Stages /\ Tail(todo) \in Seq(Stages)
    BY <1>3 DEF NextStage, TypeOK
  <2>2. QED
    BY <1>3, <2>1 DEF NextStage, TypeOK
<1>4. CASE SkipStage
  <2>1. Tail(todo) \in Seq(Stages)
    BY <1>4 DEF SkipStage, TypeOK
  <2>2. QED
    BY <1>4, <2>1 DEF SkipStage, TypeOK
<1>5. CASE RunCompletes
  BY <1>5 DEF RunCompletes, TypeOK
<1>6. CASE PreflightPasses
  BY <1>6 DEF PreflightPasses, TypeOK
<1>7. CASE PreflightAborts
  BY <1>7 DEF PreflightAborts, TypeOK
<1>8. CASE StageWritesPart
  <2>1. \A d \in Basis(cur) : Output(cur, FALSE, d) \in Content
    BY <1>8, OutputType DEF StageWritesPart, TypeOK
  <2>2. PICK d \in Basis(cur) : ckpt' = [ckpt EXCEPT ![cur] = Output(cur, FALSE, d)]
    BY <1>8 DEF StageWritesPart
  <2>3. QED
    BY <1>8, <2>1, <2>2 DEF StageWritesPart, TypeOK
<1>9. CASE StageFinishes
  <2>1. \A d \in Basis(cur) : Output(cur, TRUE, d) \in Content
    BY <1>9, OutputType DEF StageFinishes, TypeOK
  <2>2. PICK d \in Basis(cur) : ckpt' = [ckpt EXCEPT ![cur] = Output(cur, TRUE, d)]
    BY <1>9 DEF StageFinishes
  <2>3. QED
    BY <1>9, <2>1, <2>2 DEF StageFinishes, TypeOK
<1>10. CASE PrefilterRewrites
  <2>1. cur - 1 \in Stages /\ Producer(cur) = cur - 1 /\ cur > 1
    BY <1>10 DEF PrefilterRewrites, Producer, Stages
  <2>2. ckpt[cur - 1] \in Content
    BY <1>10, <2>1 DEF PrefilterRewrites, HasInput, TypeOK
  <2>3. /\ Filtered(ckpt[cur - 1]) \in Content
        /\ Filtered(ckpt[cur - 1]) # Absent
    BY <2>2 DEF Content, Filtered
  <2>4. QED
    BY <1>10, <2>1, <2>3 DEF PrefilterRewrites, TypeOK
<1>11. CASE PrefilterFlags
  <2>1. HasInput(cur)
    BY <1>11 DEF PrefilterFlags, TypeOK, HasInput, Producer, Stages
  <2>2. Output(cur, TRUE, Input(cur)) \in Content
    BY <1>11, <2>1, OutputType DEF PrefilterFlags, TypeOK, Basis
  <2>3. QED
    BY <1>11, <2>2 DEF PrefilterFlags, TypeOK
<1>12. CASE SmokeStageFinishes
  BY <1>12 DEF SmokeStageFinishes, TypeOK
<1>13. CASE StageFails
  BY <1>13 DEF StageFails, TypeOK
<1>14. CASE WriteResumeMarker
  BY <1>14 DEF WriteResumeMarker, TypeOK, Markers
<1>15. CASE WriteCheckpointManifest
  BY <1>15 DEF WriteCheckpointManifest, TypeOK
<1>16. CASE Interrupt
  BY <1>16 DEF Interrupt, TypeOK, Markers
<1>17. CASE Crash
  BY <1>17 DEF Crash, TypeOK
<1>18. CASE WriteRefused
  BY <1>18 DEF WriteRefused, TypeOK
<1>19. CASE UNCHANGED vars
  BY <1>19 DEF vars, TypeOK
<1>20. QED
  BY <1>1, <1>2, <1>3, <1>4, <1>5, <1>6, <1>7, <1>8, <1>9, <1>10, <1>11, <1>12,
     <1>13, <1>14, <1>15, <1>16, <1>17, <1>18, <1>19 DEF Next, RunnerStep

\* Every variable keeps its type: in particular the runner always holds an
\* invocation while it runs and none when it does not.
THEOREM TypeCorrect == Spec => []TypeOK
<1>1. Init => TypeOK
  BY DEF Init, TypeOK, Stages, Versions, Phases
<1>2. QED
  BY <1>1, TypeOKStep, PTL DEF Spec

-----------------------------------------------------------------------------
(* Runs that start from what is on disk *)

LEMMA ValidIsWhole ==
    ASSUME TypeOK, ManifestsWhole, NEW s \in Stages, CheckpointIsValid(s)
    PROVE  Whole(s)
BY DEF ManifestsWhole, CheckpointIsValid, Whole

\* What a plain start chooses: a suffix of STAGE_ORDER over complete
\* checkpoints, the paused stage first if there is one.
LEMMA StartOverWhole ==
    ASSUME TypeOK, IInv, NEW inv \in Invocations, Unforced(inv)
    PROVE  /\ ResumePoint(inv) \in Stages
           /\ Plan(inv) = StagesFrom(ResumePoint(inv))
           /\ \A s \in 1..(ResumePoint(inv) - 1) : Whole(s)
           /\ PausedMarker => marker.stage = ResumePoint(inv)
<1>1. Plan(inv) = StagesFrom(ResumePoint(inv))
  BY DEF Plan, Unforced
<1>2. CASE PausedMarker
  <2>1. ResumePoint(inv) = marker.stage
    BY <1>2 DEF ResumePoint, Unforced
  <2>2. marker \in Markers
    BY <1>2 DEF PausedMarker, TypeOK
  <2>3. QED
    BY <1>1, <1>2, <2>1, <2>2 DEF IInv, PauseOverWhole, Markers
<1>3. CASE ~PausedMarker
  <2>1. ResumePoint(inv) = AutoResumePoint
    BY <1>3 DEF ResumePoint, Unforced
  <2>2. \A s \in 1..(AutoResumePoint - 1) : s \in Stages
    BY AutoResumePointFound DEF Stages
  <2>3. \A s \in 1..(AutoResumePoint - 1) : Whole(s)
    BY <2>2, AutoResumePointFound, ValidIsWhole DEF IInv
  <2>4. QED
    BY <1>1, <1>3, <2>1, <2>3, AutoResumePointFound
<1>4. QED
  BY <1>2, <1>3

\* A stage's input comes from before it; when that is complete, so is what the
\* stage writes.
LEMMA OutputWhole ==
    ASSUME TypeOK, NEW s \in Stages, HasInput(s), \A t \in 1..(s - 1) : Whole(t),
           NEW d \in Basis(s)
    PROVE  Output(s, TRUE, d) \in Content /\ Output(s, TRUE, d).whole
<1>1. CASE s = 1
  <2>1. Input(s).whole
    BY <1>1 DEF Input
  <2>2. QED
    BY <2>1, OutputType
<1>2. CASE s # 1
  <2>1. Producer(s) \in 1..(s - 1)
    BY <1>2 DEF Producer, Stages
  <2>2. Input(s).whole
    BY <1>2, <2>1 DEF Input, Whole
  <2>3. QED
    BY <2>2, OutputType
<1>3. QED
  BY <1>1, <1>2

\* Taking the next stage of a suffix leaves the suffix that follows it.
LEMMA SuffixStep ==
    ASSUME TypeOK, RunIsSuffix, phase # "idle", todo # <<>>
    PROVE  /\ Head(todo) = Done + 1
           /\ Done \in Nat
           /\ Len(Tail(todo)) = Len(todo) - 1
           /\ Len(todo) \in 1..NumStages
           /\ \A i \in 1..Len(Tail(todo)) : Tail(todo)[i] = Done + 1 + i
<1>1. Len(todo) \in 1..NumStages
  BY DEF TypeOK, RunIsSuffix
<1>2. Head(todo) = todo[1] /\ Len(Tail(todo)) = Len(todo) - 1
  BY <1>1 DEF TypeOK
<1>3. \A i \in 1..Len(Tail(todo)) : Tail(todo)[i] = todo[i + 1] /\ i + 1 \in 1..Len(todo)
  BY <1>1, <1>2 DEF TypeOK
<1>4. QED
  BY <1>1, <1>2, <1>3 DEF RunIsSuffix, Done

-----------------------------------------------------------------------------
(* The invariant is inductive *)

LEMMA IInvStep ==
    ASSUME TypeOK, TypeOK', IInv, [Next]_vars, \A i \in Invocations : Unforced(i)
    PROVE  IInv'
<1> USE DEF IInv, Disk, RunEnds, Staging
<1>a. phase # "idle" => opts \in Invocations /\ Unforced(opts)
  BY DEF TypeOK
<1>b. phase # "idle" => opts.mode = "full"
  BY <1>a DEF Unforced
<1>1. CASE CorpusChanges \/ UNCHANGED vars
  BY <1>1 DEF CorpusChanges, vars, ManifestsWhole, RunIsSuffix, RunOverWhole,
              PauseOverWhole, PausedMarker, Whole, Done
<1>2. ASSUME NEW inv \in Invocations, StartRun(inv)
      PROVE  IInv'
  <2> DEFINE k == ResumePoint(inv)
  <2>1. /\ k \in Stages
        /\ todo' = StagesFrom(k)
        /\ \A s \in 1..(k - 1) : Whole(s)
        /\ PausedMarker => marker.stage = k
    BY <1>2, StartOverWhole DEF StartRun
  <2>2. /\ Len(todo') = NumStages - k + 1
        /\ \A i \in 1..Len(todo') : todo'[i] = k + i - 1
    BY <2>1, StagesFromType
  <2> HIDE DEF k
  <2>3. Done' = k - 1 /\ k \in 1..NumStages
    BY <2>1, <2>2 DEF Done, Stages
  <2>4. RunIsSuffix'
    BY <1>2, <2>2, <2>3 DEF StartRun, RunIsSuffix
  <2>5. RunOverWhole'
    BY <1>2, <2>1, <2>3 DEF StartRun, RunOverWhole, Whole
  <2>6. PauseOverWhole'
    BY <1>2, <2>1, <2>3 DEF StartRun, PauseOverWhole, PausedMarker, Whole
  <2>7. QED
    BY <1>2, <2>4, <2>5, <2>6 DEF StartRun, ManifestsWhole
<1>3. CASE NextStage
  <2>1. /\ phase # "idle" /\ todo # <<>> /\ phase = "next"
        /\ cur' = Head(todo) /\ todo' = Tail(todo)
        /\ phase' \in {"preflight", "exec"}
        /\ UNCHANGED <<ckpt, manifest, marker, opts>>
    BY <1>3 DEF NextStage
  <2>2. /\ cur' = Done + 1 /\ Done \in Nat
        /\ Len(todo') = Len(todo) - 1 /\ Len(todo) \in 1..NumStages
        /\ \A i \in 1..Len(todo') : todo'[i] = Done + 1 + i
    BY <2>1, SuffixStep
  <2>3. Done' = Done + 1
    BY <2>2 DEF Done
  <2>4. RunIsSuffix'
    BY <2>1, <2>2, <2>3, <1>a DEF RunIsSuffix
  <2>5. RunOverWhole'
    BY <2>1, <2>2, <2>3 DEF RunOverWhole, Whole
  <2>6. PauseOverWhole'
    BY <2>1, <2>2, <2>3 DEF PauseOverWhole, PausedMarker, Whole
  <2>7. QED
    BY <2>1, <2>4, <2>5, <2>6 DEF ManifestsWhole
<1>4. CASE SkipStage
  BY <1>4, <1>b DEF SkipStage, Skips
<1>5. CASE RunCompletes
  BY <1>5 DEF RunCompletes, ManifestsWhole, RunIsSuffix, RunOverWhole,
              PauseOverWhole, PausedMarker
<1>6. CASE PreflightPasses
  BY <1>6 DEF PreflightPasses, ManifestsWhole, RunIsSuffix, RunOverWhole,
              PauseOverWhole, PausedMarker, Whole, Done
<1>7. CASE PreflightAborts \/ StageFails \/ WriteRefused
  BY <1>7 DEF PreflightAborts, StageFails, WriteRefused, ManifestsWhole, RunIsSuffix, RunOverWhole,
              PauseOverWhole, PausedMarker, Whole
<1>8. CASE StageWritesPart
  <2>1. /\ phase = "exec" /\ phase' = "exec" /\ cur \in Stages
        /\ UNCHANGED <<manifest, marker, cur, todo, opts>>
        /\ \A s \in Stages \ {cur} : ckpt'[s] = ckpt[s]
    BY <1>8 DEF StageWritesPart, TypeOK
  <2>2. \A s \in 1..(cur - 1) : Whole(s) /\ Whole(s)'
    BY <2>1 DEF RunOverWhole, Whole, Stages
  <2>3. RunIsSuffix' /\ ManifestsWhole'
    BY <2>1 DEF RunIsSuffix, ManifestsWhole, Done
  <2>4. RunOverWhole'
    BY <2>1, <2>2 DEF RunOverWhole, Done
  <2>5. PauseOverWhole'
    BY <2>1, <2>2 DEF PauseOverWhole, PausedMarker, TypeOK, Markers, Stages
  <2>6. QED
    BY <2>3, <2>4, <2>5
<1>9. CASE StageFinishes \/ PrefilterFlags
  <2>1. /\ phase \in {"exec", "flag"} /\ phase' = "mark" /\ cur \in Stages
        /\ UNCHANGED <<manifest, marker, cur, todo, opts>>
        /\ \E d \in Basis(cur) : ckpt' = [ckpt EXCEPT ![cur] = Output(cur, TRUE, d)]
        /\ HasInput(cur)
    <3>1. CASE StageFinishes
      BY <3>1 DEF StageFinishes, TypeOK
    <3>2. CASE PrefilterFlags
      <4>1. cur = Prefilter /\ ckpt[cur - 1] # Absent /\ phase = "flag"
        BY <3>2 DEF PrefilterFlags, TypeOK
      <4>2. HasInput(cur)
        BY <4>1 DEF HasInput, Producer, Stages
      <4>3. QED
        BY <3>2, <4>1, <4>2 DEF PrefilterFlags, Basis
    <3>3. QED
      BY <1>9, <3>1, <3>2
  <2>2. \A s \in 1..(cur - 1) : Whole(s)
    BY <2>1 DEF RunOverWhole
  <2>3. PICK d \in Basis(cur) : ckpt' = [ckpt EXCEPT ![cur] = Output(cur, TRUE, d)]
    BY <2>1
  <2>4. \A s \in Stages : Whole(s) \/ s = cur => Whole(s)'
    <3>1. Output(cur, TRUE, d) \in Content /\ Output(cur, TRUE, d).whole
      BY <2>1, <2>2, OutputWhole
    <3>2. QED
      BY <2>3, <3>1 DEF Whole, TypeOK
  <2>5. RunIsSuffix' /\ ManifestsWhole'
    BY <2>1 DEF RunIsSuffix, ManifestsWhole, Done
  <2>6. RunOverWhole'
    BY <2>1, <2>2, <2>4 DEF RunOverWhole, Done, Stages
  <2>7. PauseOverWhole'
    BY <2>1, <2>4 DEF PauseOverWhole, PausedMarker, TypeOK, Markers, Stages
  <2>8. QED
    BY <2>5, <2>6, <2>7
<1>10. CASE PrefilterRewrites
  <2>1. /\ phase = "exec" /\ phase' = "flag" /\ cur \in Stages /\ cur - 1 \in Stages
        /\ UNCHANGED <<manifest, marker, cur, todo, opts>>
        /\ ckpt' = [ckpt EXCEPT ![cur - 1] = Filtered(ckpt[cur - 1])]
        /\ ckpt[cur - 1] \in Content
    BY <1>10 DEF PrefilterRewrites, TypeOK, HasInput, Producer, Stages
  <2>2. /\ Filtered(ckpt[cur - 1]) \in Content
        /\ Filtered(ckpt[cur - 1]).whole = ckpt[cur - 1].whole
    BY <2>1 DEF Content, Filtered
  <2>3. \A s \in Stages : Whole(s) => Whole(s)'
    BY <2>1, <2>2 DEF Whole, TypeOK
  <2>4. RunIsSuffix' /\ ManifestsWhole'
    BY <2>1 DEF RunIsSuffix, ManifestsWhole, Done
  <2>5. RunOverWhole'
    BY <2>1, <2>3 DEF RunOverWhole, Done, Stages
  <2>6. PauseOverWhole'
    BY <2>1, <2>3 DEF PauseOverWhole, PausedMarker, TypeOK, Markers, Stages
  <2>7. QED
    BY <2>4, <2>5, <2>6
<1>11. CASE SmokeStageFinishes
  BY <1>11, <1>b DEF SmokeStageFinishes
<1>12. CASE WriteResumeMarker
  <2>1. ~PausedMarker'
    BY <1>12 DEF WriteResumeMarker, PausedMarker, TypeOK, Markers
  <2>2. QED
    BY <1>12, <2>1 DEF WriteResumeMarker, ManifestsWhole, RunIsSuffix, RunOverWhole,
                       PauseOverWhole, Whole, Done
<1>13. CASE WriteCheckpointManifest
  <2>1. /\ phase = "manifest" /\ phase' = "next" /\ cur \in Stages /\ cur = Done
        /\ UNCHANGED <<ckpt, marker, cur, todo, opts>>
        /\ manifest' = [manifest EXCEPT ![cur] = ckpt[cur]]
        /\ Whole(cur) /\ \A s \in 1..(cur - 1) : Whole(s)
    BY <1>13 DEF WriteCheckpointManifest, RunOverWhole, TypeOK
  <2>2. ManifestsWhole'
    BY <2>1 DEF ManifestsWhole, Whole, TypeOK
  <2>3. RunIsSuffix'
    BY <2>1 DEF RunIsSuffix, Done
  <2>4. RunOverWhole'
    BY <2>1 DEF RunOverWhole, Whole, Done, Stages
  <2>5. PauseOverWhole'
    BY <2>1 DEF PauseOverWhole, PausedMarker, Whole, Done, TypeOK, Markers, Stages
  <2>6. QED
    BY <2>2, <2>3, <2>4, <2>5
<1>14. CASE Interrupt
  <2>1. /\ phase' = "idle"
        /\ UNCHANGED <<ckpt, manifest>>
        /\ \/ marker' = marker
           \/ /\ phase \in Staging
              /\ marker' = [stage |-> cur, paused |-> TRUE]
    BY <1>14 DEF Interrupt
  <2>2. PauseOverWhole'
    BY <2>1 DEF PauseOverWhole, PausedMarker, RunOverWhole, Whole
  <2>3. QED
    BY <2>1, <2>2 DEF ManifestsWhole, RunIsSuffix, RunOverWhole
<1>15. CASE Crash
  <2>1. /\ phase' = "idle"
        /\ UNCHANGED ckpt
        /\ marker' \in {marker, Torn}
        /\ \A s \in Stages : manifest'[s] \in {manifest[s], Absent}
    BY <1>15 DEF Crash, TypeOK
  <2>2. PauseOverWhole'
    BY <2>1 DEF PauseOverWhole, PausedMarker, Whole
  <2>3. QED
    BY <2>1, <2>2 DEF ManifestsWhole, RunIsSuffix, RunOverWhole
<1>16. QED
  BY <1>1, <1>2, <1>3, <1>4, <1>5, <1>6, <1>7, <1>8, <1>9, <1>10, <1>11, <1>12,
     <1>13, <1>14, <1>15 DEF Next, RunnerStep

\* The inductive invariant holds in every reachable state.
LEMMA IInvHolds ==
    ASSUME \A i \in Invocations : Unforced(i)
    PROVE  Spec => [](TypeOK /\ IInv)
<1>1. Init => IInv
  BY DEF Init, IInv, ManifestsWhole, RunIsSuffix, RunOverWhole, PauseOverWhole,
         PausedMarker, Staging
<1>2. TypeOK /\ IInv /\ TypeOK' /\ [Next]_vars => IInv'
  BY IInvStep
<1>3. QED
  BY <1>1, <1>2, TypeCorrect, PTL DEF Spec

-----------------------------------------------------------------------------
(* The results *)

\* As long as nobody overrides what the runner finds on disk, whatever crashes,
\* interrupts, failures and half-written checkpoints it goes through, it never
\* takes an incomplete checkpoint for a valid one (_checkpoint_is_valid).
THEOREM OnlyWholeIsCertified ==
    ASSUME \A i \in Invocations : Unforced(i)
    PROVE  Spec => []CertifiedWhole
<1>1. TypeOK /\ IInv => CertifiedWhole
  BY DEF IInv, ManifestsWhole, CertifiedWhole, CheckpointIsValid
<1>2. QED
  BY <1>1, IInvHolds, PTL

\* ...and every run it starts, at the paused stage or at the first stage without
\* a valid checkpoint, finds everything before that stage complete.
THEOREM EveryStartIsOverWhole ==
    ASSUME \A i \in Invocations : Unforced(i)
    PROVE  Spec => ResumesOverWhole
<1>1. TypeOK /\ IInv /\ TypeOK' /\ IInv' /\ [Next]_vars =>
        [(phase = "idle" /\ phase' = "next" /\ todo' # <<>>)
            => \A s \in 1..(Head(todo') - 1) : ckpt[s] # Absent /\ ckpt[s].whole]_vars
  <2> SUFFICES ASSUME TypeOK, IInv, TypeOK', [Next]_vars,
                      phase = "idle", phase' = "next", todo' # <<>>
               PROVE  \A s \in 1..(Head(todo') - 1) : Whole(s)
    BY DEF Whole
  <2>1. PICK inv \in Invocations : StartRun(inv)
    BY DEF Next, RunnerStep, vars, CorpusChanges, NextStage, SkipStage, RunCompletes,
           PreflightPasses, StageFinishes, PrefilterRewrites, PrefilterFlags,
           SmokeStageFinishes, WriteResumeMarker, WriteCheckpointManifest,
           StageWritesPart, PreflightAborts, StageFails, WriteRefused, Interrupt, Crash,
           RunEnds
  <2>2. /\ ResumePoint(inv) \in Stages
        /\ todo' = StagesFrom(ResumePoint(inv))
        /\ \A s \in 1..(ResumePoint(inv) - 1) : Whole(s)
    BY <2>1, StartOverWhole DEF StartRun
  <2>3. Head(todo') = ResumePoint(inv)
    BY <2>2, StagesFromType DEF Stages
  <2>4. QED
    BY <2>2, <2>3
<1>2. QED
  BY <1>1, IInvHolds, PTL DEF Spec, ResumesOverWhole

-----------------------------------------------------------------------------
(* Runs that are told where to start *)

\* What a stage reads comes from a stage before it.
LEMMA ProducerBefore ==
    ASSUME NEW s \in Stages, s > 1
    PROVE  Producer(s) \in Stages /\ Producer(s) < s
BY DEF Producer, Stages

\* What lies ahead of stage n does not matter to the stages up to n.
LEMMA InLineKept ==
    ASSUME NEW r \in Stages, NEW n \in 0..NumStages, NEW ck, NEW dk,
           InLine(ck, r, n), \A s \in 1..n : dk[s] = ck[s]
    PROVE  InLine(dk, r, n)
<1>1. ASSUME NEW s \in Reached(r, n) \ {r}
      PROVE  FollowsInput(dk, s)
  <2>1. s \in 1..n /\ s \in Stages /\ s > 1
    BY DEF Reached, Stages
  <2>2. Producer(s) \in 1..n
    BY <2>1, ProducerBefore DEF Stages
  <2>3. FollowsInput(ck, s)
    BY DEF InLine
  <2>4. QED
    BY <2>1, <2>2, <2>3 DEF FollowsInput
<1>2. ASSUME r <= Prefilter, Prefilter <= n,
             NEW s \in {Prefilter - 1} \cup {t \in Reached(r, n) : t > Prefilter}
      PROVE  dk[s].filt
  <2>1. s \in 1..n
    BY <1>2 DEF Reached, Stages
  <2>2. ck[s].filt
    BY <1>2 DEF InLine
  <2>3. QED
    BY <2>1, <2>2
<1>3. QED
  BY <1>1, <1>2 DEF InLine

\* A stage that writes its checkpoint from its input alone brings it in line.
LEMMA InLineNext ==
    ASSUME NEW r \in Stages, NEW n \in Stages, r <= n, NEW ck,
           InLine(ck, r, n - 1),
           n > r /\ n \notin Incremental => FollowsInput(ck, n),
           n = Prefilter => ck[n - 1].filt
    PROVE  InLine(ck, r, n)
<1>1. \A s \in Reached(r, n) : s # n => s \in Reached(r, n - 1)
  BY DEF Reached, Stages
<1>2. n \in Reached(r, n) => n \notin Incremental
  BY DEF Reached, Stages
<1>3. ASSUME NEW s \in Reached(r, n) \ {r}
      PROVE  FollowsInput(ck, s)
  <2>1. CASE s = n
    BY <1>2, <2>1 DEF Reached, Stages
  <2>2. CASE s # n
    BY <1>1, <2>2 DEF InLine
  <2>3. QED
    BY <2>1, <2>2
<1>4. ASSUME r <= Prefilter, Prefilter <= n,
             NEW s \in {Prefilter - 1} \cup {t \in Reached(r, n) : t > Prefilter}
      PROVE  ck[s].filt
  <2>1. Prefilter < n => ck[Prefilter - 1].filt
    BY <1>4 DEF InLine, Stages
  <2>2. CASE s = Prefilter - 1
    BY <1>4, <2>1, <2>2 DEF Stages
  <2>3. CASE s # n /\ s # Prefilter - 1
    BY <1>1, <1>4, <2>3 DEF InLine, Reached, Stages
  <2>4. CASE s = n /\ s # Prefilter - 1
    <3>1. n \in Reached(r, n) /\ n > Prefilter
      BY <1>4, <2>4 DEF Stages
    <3>2. FollowsInput(ck, n)
      BY <1>2, <1>4, <3>1 DEF Stages
    <3>3. ck[Producer(n)].filt
      <4>1. CASE n = Prefilter + 1
        BY <2>1, <3>1, <4>1 DEF Producer, Stages
      <4>2. CASE n # Prefilter + 1
        <5>1. Producer(n) = n - 1 /\ n - 1 \in Reached(r, n - 1) /\ n - 1 > Prefilter
          BY <1>4, <3>1, <4>2 DEF Producer, Stages, Reached
        <5>2. QED
          BY <1>4, <5>1 DEF InLine, Stages
      <4>3. QED
        BY <4>1, <4>2
    <3>4. QED
      BY <2>4, <3>1, <3>2, <3>3 DEF FollowsInput, Stages
  <2>5. QED
    BY <2>2, <2>3, <2>4
<1>5. QED
  BY <1>3, <1>4 DEF InLine

\* The start of a forced run: nothing is behind it.
LEMMA ForcedStart ==
    ASSUME TypeOK, NEW inv \in Invocations, StartRun(inv)
    PROVE  ForcedRunInLine'
<1> SUFFICES ASSUME Forced(inv)
             PROVE  ForcedRunInLine'
  BY DEF StartRun, ForcedRunInLine, Staging
<1>1. inv.resume \in Stages /\ todo' = StagesFrom(inv.resume)
  BY DEF StartRun, Plan, ResumePoint, Forced, Invocation
<1>2. /\ Len(todo') = NumStages - inv.resume + 1
      /\ \A i \in 1..Len(todo') : todo'[i] = inv.resume + i - 1
  BY <1>1, StagesFromType
<1>3. Done' = inv.resume - 1
  BY <1>1, <1>2 DEF Done, Stages
<1>4. InLine(ckpt', inv.resume, Done')
  BY <1>1, <1>3 DEF InLine, Reached, Stages
<1>5. \A i \in 1..Len(todo') : todo'[i] = Done' + i
  BY <1>1, <1>2, <1>3 DEF Stages
<1>6. phase' = "next" /\ opts' = inv
  BY DEF StartRun
<1>7. QED
  BY <1>2, <1>4, <1>5, <1>6 DEF ForcedRunInLine, Staging

\* The run goes on with the next stage.
LEMMA ForcedNext ==
    ASSUME TypeOK, ForcedRunInLine, NextStage
    PROVE  ForcedRunInLine'
<1> SUFFICES ASSUME Forced(opts)
             PROVE  ForcedRunInLine'
  BY DEF NextStage, ForcedRunInLine
<1>1. /\ todo \in Seq(Stages) /\ todo # <<>> /\ Len(todo) \in Nat /\ Len(todo) >= 1
      /\ Len(todo) <= NumStages - opts.resume + 1
      /\ todo[1] = Done + 1
      /\ \A i \in 1..Len(todo) : todo[i] = Done + i
      /\ InLine(ckpt, opts.resume, Done)
  BY DEF NextStage, ForcedRunInLine, TypeOK
<1>2. opts \in Invocations /\ opts.resume \in Stages
  BY DEF NextStage, TypeOK, Forced, Invocation
<1>3. /\ Len(todo') = Len(todo) - 1
      /\ \A i \in 1..Len(todo') : todo'[i] = todo[i + 1]
      /\ cur' = todo[1]
  BY <1>1 DEF NextStage
<1>4. Done' = Done + 1 /\ cur' = Done' /\ opts.resume <= cur'
  BY <1>1, <1>2, <1>3 DEF Done, Stages
<1>5. cur' - 1 = Done
  BY <1>1, <1>2, <1>4 DEF Done, Stages
<1>6. ASSUME NEW i \in 1..Len(todo')
      PROVE  todo'[i] = Done' + i
  <2>1. i \in Nat /\ i + 1 \in 1..Len(todo) /\ Len(todo') \in Nat
    BY <1>1, <1>3
  <2>2. todo[i + 1] = Done + (i + 1) /\ Done \in Int
    BY <1>1, <2>1 DEF Done, Stages
  <2>3. QED
    BY <1>3, <1>4, <2>1, <2>2
<1>7. Len(todo') <= NumStages - opts.resume + 1
  BY <1>1, <1>2, <1>3 DEF Stages
<1>8. /\ phase' \in {"preflight", "exec"}
      /\ InLine(ckpt', opts'.resume, cur' - 1) /\ opts' = opts
  BY <1>1, <1>5 DEF NextStage, Disk
<1>9. QED
  BY <1>4, <1>6, <1>7, <1>8 DEF ForcedRunInLine, Staging

\* A stage that has written its checkpoint leaves it in line.
LEMMA ForcedFinish ==
    ASSUME TypeOK, ForcedRunInLine, StageFinishes
    PROVE  ForcedRunInLine'
<1> SUFFICES ASSUME Forced(opts)
             PROVE  ForcedRunInLine'
  BY DEF StageFinishes, ForcedRunInLine
<1>1. /\ cur \in Stages /\ cur = Done /\ opts.resume <= cur
      /\ InLine(ckpt, opts.resume, cur - 1)
      /\ cur # Prefilter /\ HasInput(cur)
  BY DEF StageFinishes, ForcedRunInLine, Staging, TypeOK
<1>2. opts.resume \in Stages
  BY DEF StageFinishes, TypeOK, Forced, Invocation
<1>3. PICK d \in Basis(cur) : ckpt' = [ckpt EXCEPT ![cur] = Output(cur, TRUE, d)]
  BY DEF StageFinishes
<1>4. \A s \in 1..(cur - 1) : ckpt'[s] = ckpt[s]
  <2> SUFFICES ASSUME NEW s \in 1..(cur - 1)
               PROVE  ckpt'[s] = ckpt[s]
    OBVIOUS
  <2>1. s \in Stages /\ s # cur
    BY <1>1 DEF Stages
  <2>2. DOMAIN ckpt = Stages
    BY DEF TypeOK
  <2>3. QED
    BY <1>3, <2>1, <2>2
<1>5. InLine(ckpt', opts.resume, cur - 1)
  BY <1>1, <1>2, <1>4, InLineKept DEF Stages
<1>6. ASSUME cur > opts.resume, cur \notin Incremental
      PROVE  FollowsInput(ckpt', cur)
  <2>1. cur > 1 /\ d = ckpt[Producer(cur)] /\ Input(cur) = ckpt[Producer(cur)]
    BY <1>1, <1>2, <1>6 DEF Basis, Input, Stages
  <2>2. ckpt'[Producer(cur)] = ckpt[Producer(cur)]
    BY <1>1, <1>4, <2>1, ProducerBefore DEF Stages
  <2>3. ckpt[Producer(cur)] \in Content
    BY <1>1, <2>1, OutputType
  <2>4. ckpt'[cur] = Output(cur, TRUE, d)
    BY <1>1, <1>3 DEF TypeOK
  <2>5. QED
    BY <2>1, <2>2, <2>3, <2>4 DEF FollowsInput, Output, Content
<1>7. InLine(ckpt', opts.resume, cur)
  BY <1>1, <1>2, <1>5, <1>6, InLineNext DEF Stages
<1>8. QED
  BY <1>1, <1>5, <1>7 DEF ForcedRunInLine, StageFinishes, Staging, Done

\* A stage that writes a part of its checkpoint does not touch what is behind it.
LEMMA ForcedPart ==
    ASSUME TypeOK, ForcedRunInLine, StageWritesPart
    PROVE  ForcedRunInLine'
<1> SUFFICES ASSUME Forced(opts)
             PROVE  ForcedRunInLine'
  BY DEF StageWritesPart, ForcedRunInLine
<1>1. /\ cur \in Stages /\ cur = Done /\ opts.resume <= cur
      /\ InLine(ckpt, opts.resume, cur - 1)
  BY DEF StageWritesPart, ForcedRunInLine, Staging, TypeOK
<1>2. opts.resume \in Stages
  BY DEF StageWritesPart, TypeOK, Forced, Invocation
<1>3. PICK d \in Basis(cur) : ckpt' = [ckpt EXCEPT ![cur] = Output(cur, FALSE, d)]
  BY DEF StageWritesPart
<1>4. \A s \in 1..(cur - 1) : ckpt'[s] = ckpt[s]
  <2> SUFFICES ASSUME NEW s \in 1..(cur - 1)
               PROVE  ckpt'[s] = ckpt[s]
    OBVIOUS
  <2>1. s \in Stages /\ s # cur
    BY <1>1 DEF Stages
  <2>2. DOMAIN ckpt = Stages
    BY DEF TypeOK
  <2>3. QED
    BY <1>3, <2>1, <2>2
<1>5. InLine(ckpt', opts.resume, cur - 1)
  BY <1>1, <1>2, <1>4, InLineKept DEF Stages
<1>6. QED
  BY <1>1, <1>5 DEF ForcedRunInLine, StageWritesPart, Staging, Done

\* Stage 1.3 takes the garbage out of the checkpoint behind it, which stays in line.
LEMMA ForcedRewrite ==
    ASSUME TypeOK, ForcedRunInLine, PrefilterRewrites
    PROVE  ForcedRunInLine'
<1> SUFFICES ASSUME Forced(opts)
             PROVE  ForcedRunInLine'
  BY DEF PrefilterRewrites, ForcedRunInLine
<1>1. /\ cur = Prefilter /\ cur = Done /\ opts.resume <= cur
      /\ InLine(ckpt, opts.resume, cur - 1)
      /\ cur - 1 \in Stages
  BY DEF PrefilterRewrites, ForcedRunInLine, Staging, Stages
<1>2. opts.resume \in Stages
  BY DEF PrefilterRewrites, TypeOK, Forced, Invocation
<1>3. ckpt[cur - 1] \in Content
  BY <1>1 DEF PrefilterRewrites, HasInput, Producer, TypeOK, Stages
<1>4. /\ \A s \in Stages : s # cur - 1 => ckpt'[s] = ckpt[s]
      /\ ckpt'[cur - 1].filt
      /\ ckpt'[cur - 1].ver = ckpt[cur - 1].ver /\ ckpt'[cur - 1].whole = ckpt[cur - 1].whole
  BY <1>1, <1>3 DEF PrefilterRewrites, Filtered, TypeOK, Content
<1>5. ASSUME NEW s \in Reached(opts.resume, cur - 1) \ {opts.resume}
      PROVE  FollowsInput(ckpt', s)
  <2>1. s \in Stages /\ s > 1 /\ s <= cur - 1
    BY <1>1, <1>2 DEF Reached, Stages
  <2>2. Producer(s) \in Stages /\ Producer(s) # cur - 1
    BY <2>1, ProducerBefore DEF Stages
  <2>3. FollowsInput(ckpt, s)
    BY <1>1 DEF InLine
  <2>4. CASE s = cur - 1
    BY <1>1, <1>4, <2>2, <2>3, <2>4 DEF FollowsInput
  <2>5. CASE s # cur - 1
    BY <1>4, <2>1, <2>2, <2>3, <2>5 DEF FollowsInput
  <2>6. QED
    BY <2>4, <2>5
<1>6. InLine(ckpt', opts.resume, cur - 1)
  BY <1>1, <1>2, <1>5 DEF InLine, Stages
<1>7. QED
  BY <1>1, <1>4, <1>6 DEF ForcedRunInLine, PrefilterRewrites, Staging, Done

\* Its flag is written from the checkpoint it has rewritten.
LEMMA ForcedFlag ==
    ASSUME TypeOK, ForcedRunInLine, PrefilterFlags
    PROVE  ForcedRunInLine'
<1> SUFFICES ASSUME Forced(opts)
             PROVE  ForcedRunInLine'
  BY DEF PrefilterFlags, ForcedRunInLine
<1>1. /\ cur = Prefilter /\ cur = Done /\ opts.resume <= cur
      /\ InLine(ckpt, opts.resume, cur - 1)
      /\ ckpt[cur - 1].filt
      /\ cur - 1 \in Stages /\ ckpt[cur - 1] # Absent
  BY DEF PrefilterFlags, ForcedRunInLine, Staging, Stages, TypeOK
<1>2. opts.resume \in Stages
  BY DEF PrefilterFlags, TypeOK, Forced, Invocation
<1>3. Producer(cur) = cur - 1 /\ Input(cur) = ckpt[cur - 1] /\ ckpt[cur - 1] \in Content
  BY <1>1 DEF Producer, Input, TypeOK, Stages
<1>4. /\ \A s \in 1..(cur - 1) : ckpt'[s] = ckpt[s]
      /\ ckpt'[cur] = Output(cur, TRUE, ckpt[cur - 1])
  <2>1. DOMAIN ckpt = Stages /\ cur \in Stages
    BY <1>1 DEF TypeOK
  <2>2. \A s \in 1..(cur - 1) : s \in Stages /\ s # cur
    BY <1>1, <2>1 DEF Stages
  <2>3. ckpt' = [ckpt EXCEPT ![cur] = Output(cur, TRUE, ckpt[cur - 1])]
    BY <1>3 DEF PrefilterFlags
  <2>4. QED
    BY <2>1, <2>2, <2>3
<1>5. FollowsInput(ckpt', cur)
  BY <1>1, <1>3, <1>4 DEF FollowsInput, Output, Content, Stages
<1>6. InLine(ckpt', opts.resume, cur - 1)
  BY <1>1, <1>2, <1>4, InLineKept DEF Stages
<1>7. ckpt'[cur - 1].filt
  BY <1>1, <1>4 DEF Stages
<1>8. InLine(ckpt', opts.resume, cur)
  BY <1>1, <1>2, <1>5, <1>6, <1>7, InLineNext DEF Stages
<1>9. QED
  BY <1>1, <1>6, <1>8 DEF ForcedRunInLine, PrefilterFlags, Staging, Done

\* Every step of any run keeps a forced run in line.
LEMMA ForcedStep == TypeOK /\ ForcedRunInLine /\ [Next]_vars => ForcedRunInLine'
<1> SUFFICES ASSUME TypeOK, ForcedRunInLine, [Next]_vars
             PROVE  ForcedRunInLine'
  OBVIOUS
<1> USE DEF Disk, Fault, RunEnds, Staging, Done
<1>1. CASE CorpusChanges
  BY <1>1 DEF CorpusChanges, ForcedRunInLine
<1>2. ASSUME NEW inv \in Invocations, StartRun(inv)
      PROVE  ForcedRunInLine'
  BY <1>2, ForcedStart
<1>3. CASE NextStage
  BY <1>3, ForcedNext
<1>4. CASE SkipStage
  BY <1>4 DEF SkipStage, Skips, ForcedRunInLine, Forced
<1>5. CASE RunCompletes \/ PreflightAborts \/ StageFails \/ WriteRefused \/ Interrupt \/ Crash
  BY <1>5 DEF RunCompletes, PreflightAborts, StageFails, WriteRefused, Interrupt, Crash, ForcedRunInLine
<1>6. CASE PreflightPasses
  BY <1>6 DEF PreflightPasses, ForcedRunInLine
<1>7. CASE StageWritesPart
  BY <1>7, ForcedPart
<1>8. CASE StageFinishes
  BY <1>8, ForcedFinish
<1>9. CASE PrefilterRewrites
  BY <1>9, ForcedRewrite
<1>10. CASE PrefilterFlags
  BY <1>10, ForcedFlag
<1>11. CASE SmokeStageFinishes
  BY <1>11 DEF SmokeStageFinishes, ForcedRunInLine, Forced
<1>12. CASE WriteResumeMarker
  BY <1>12 DEF WriteResumeMarker, ForcedRunInLine
<1>13. CASE WriteCheckpointManifest
  BY <1>13 DEF WriteCheckpointManifest, ForcedRunInLine
<1>14. CASE UNCHANGED vars
  BY <1>14 DEF vars, ForcedRunInLine
<1>15. QED
  BY <1>1, <1>2, <1>3, <1>4, <1>5, <1>6, <1>7, <1>8, <1>9, <1>10, <1>11, <1>12,
     <1>13, <1>14 DEF Next, RunnerStep

\* A completed run that was started with --resume-from leaves all later checkpoints
\* in line with the ones before them (run_pipeline takes every stage of STAGE_ORDER
\* from there on), whatever other runs, faults and new books came before.
THEOREM ForcedRunsPropagate == Spec => ForcedRunPropagates
<1>1. Init => ForcedRunInLine
  BY DEF Init, ForcedRunInLine
<1>2. Spec => []ForcedRunInLine
  BY <1>1, ForcedStep, TypeCorrect, PTL DEF Spec
<1>3. TypeOK /\ ForcedRunInLine /\ [Next]_vars =>
        [phase = "next" /\ phase' = "idle" /\ faults' = faults /\ Forced(opts)
           => InLine(ckpt, opts.resume, NumStages)]_vars
  <2> SUFFICES ASSUME TypeOK, ForcedRunInLine, Next,
                      phase = "next", phase' = "idle", faults' = faults, Forced(opts)
               PROVE  InLine(ckpt, opts.resume, NumStages)
    BY DEF vars
  <2>1. CASE RunCompletes
    <3>1. todo = <<>>
      BY <2>1 DEF RunCompletes, Forced
    <3>2. Done = NumStages
      BY <3>1 DEF Done
    <3>3. QED
      BY <3>2 DEF ForcedRunInLine
  <2>2. CASE ~RunCompletes
    BY <2>2 DEF Next, RunnerStep, CorpusChanges, StartRun, NextStage, SkipStage,
       PreflightPasses, PreflightAborts, StageWritesPart, StageFinishes,
       PrefilterRewrites, PrefilterFlags, SmokeStageFinishes, StageFails, WriteRefused,
       WriteResumeMarker, WriteCheckpointManifest, Interrupt, Crash, Fault, TypeOK
  <2>3. QED
    BY <2>1, <2>2
<1>4. QED
  BY <1>2, <1>3, TypeCorrect, PTL DEF Spec, ForcedRunPropagates

=============================================================================
