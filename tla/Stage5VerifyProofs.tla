------------------------- MODULE Stage5VerifyProofs -------------------------
(***************************************************************************)
(* Proofs about Stage 5, for any processes, inputs, versions of the code,  *)
(* interval and bound on kills: type correctness, one writer, verdicts of  *)
(* the FBs they are stored with, an interval lost at most, everything      *)
(* verified at the end, and the refinement of ExclusiveRuns.               *)
(***************************************************************************)
EXTENDS Stage5Verify, FiniteSetTheorems, TLAPS

USE SetsAssumption, LimitsAssumption

-----------------------------------------------------------------------------
(* Lemmas *)

\* The counter of the loop comes to 0 when an interval is full.
LEMMA CountWraps ==
    ASSUME NEW n \in 0..(Every - 1)
    PROVE  /\ n + 1 = Every => (n + 1) % Every = 0
           /\ n + 1 # Every => (n + 1) % Every = n + 1
OBVIOUS

\* The FBs of an input are a finite set of FBs, no two with one id.
LEMMA OfInput ==
    ASSUME NEW v \in Inputs
    PROVE  /\ IsFiniteSet(Of(v)) /\ Of(v) \subseteq FBs
           /\ \A f, g \in Of(v) : f.id = g.id => f = g
BY FS_Subset

\* What a resumed process has to verify, and what it has, are all of its input.
LEMMA ResumeSplits ==
    ASSUME NEW v \in Inputs, NEW S, S \subseteq Of(v)
    PROVE  S \cup {f \in Of(v) : f.id \notin IdsOf(S)} = Of(v)
BY OfInput DEF IdsOf

\* What stays behind in memory when a process ends.
LEMMA EndsEmpty ==
    ASSUME TypeOK, NEW p \in Procs, Ends(p)
    PROVE  /\ pc'[p] = "idle" /\ verified'[p] = {} /\ left'[p] = {} /\ count'[p] = 0
           /\ \A q \in Procs : q # p =>
                 /\ pc'[q] = pc[q] /\ mismatch'[q] = mismatch[q]
                 /\ verified'[q] = verified[q] /\ left'[q] = left[q] /\ count'[q] = count[q]
           /\ pc' \in [Procs -> Places]
           /\ mismatch' \in [Procs -> BOOLEAN]
           /\ verified' \in [Procs -> SUBSET FBs] /\ left' \in [Procs -> SUBSET FBs]
           /\ count' \in [Procs -> 0..(Every - 1)]
BY DEF TypeOK, Places, Ends

\* Nothing is both verified and left by a process that has ended.
LEMMA EndsApart ==
    ASSUME TypeOK, NEW p \in Procs, Ends(p)
    PROVE  \A q \in Procs : {f.id : f \in verified'[q]} \cap {f.id : f \in left'[q]} = {}
<1> SUFFICES ASSUME NEW q \in Procs
             PROVE  {f.id : f \in verified'[q]} \cap {f.id : f \in left'[q]} = {}
  OBVIOUS
<1>1. CASE q = p
  <2>1. verified'[q] = {}
    BY <1>1, EndsEmpty
  <2>2. QED
    BY <2>1
<1>2. CASE q # p
  <2>1. verified'[q] = verified[q] /\ left'[q] = left[q]
    BY <1>2, EndsEmpty
  <2>2. {f.id : f \in verified[q]} \cap {f.id : f \in left[q]} = {}
    BY DEF TypeOK
  <2>3. QED
    BY <2>1, <2>2
<1>3. QED
  BY <1>1, <1>2

-----------------------------------------------------------------------------
(* Type correctness *)

\* No step breaks the types, which for the ids of what is verified and what is
\* left needs what the processes know.
LEMMA TypeOKStep == TypeOK /\ IInv /\ [Next]_vars => TypeOK'
<1> SUFFICES ASSUME TypeOK, IInv, [Next]_vars
             PROVE  TypeOK'
  OBVIOUS
<1> USE DEF Places
<1>1. ASSUME NEW p \in Procs, Run(p)
      PROVE  TypeOK'
  <2> Knows(p)
    BY DEF IInv
  <2> /\ Of(input) \subseteq FBs
      /\ \A f, g \in Of(input) : f.id = g.id => f = g
    BY OfInput DEF TypeOK
  <2>1. CASE Load(p)
    BY <2>1 DEF TypeOK, Load, Goes, given, disk, Knows
  <2>2. CASE Compare(p)
    BY <2>2 DEF TypeOK, Compare, Goes, given, disk
  <2>3. CASE WritePrint(p)
    <3>1. Current \in Fingerprint
      BY DEF TypeOK, Current, Fingerprint
    <3>2. QED
      BY <2>3, <3>1 DEF TypeOK, WritePrint, Goes, given, memory
  <2>4. CASE Refuse(p) \/ Leave(p) \/ WriteRefused(p)
    <3>1. /\ Ends(p) /\ UNCHANGED <<input, code, ckpt, print, raced, crashes>>
          /\ lock' \in {lock, Absent}
      BY <2>4 DEF Refuse, Leave, WriteRefused, given, disk
    <3>2. \A q \in Procs : {g.id : g \in verified'[q]} \cap {g.id : g \in left'[q]} = {}
      BY <3>1, EndsApart
    <3>3. /\ pc' \in [Procs -> Places]
          /\ mismatch' \in [Procs -> BOOLEAN]
          /\ verified' \in [Procs -> SUBSET FBs] /\ left' \in [Procs -> SUBSET FBs]
          /\ count' \in [Procs -> 0..(Every - 1)]
      BY <3>1, EndsEmpty
    <3>4. QED
      BY <3>1, <3>2, <3>3 DEF TypeOK
  <2>5. CASE FindFree(p) \/ Reclaim(p) \/ WriteLock(p) \/ Archive(p) \/ ArchivePrint(p)
    BY <2>5 DEF TypeOK, FindFree, Reclaim, WriteLock, Archive, ArchivePrint, Goes, given, disk, memory
  <2>6. CASE Resume(p)
    <3>1. Saved \subseteq FBs
      BY DEF TypeOK, Saved
    <3>2. /\ verified' = [verified EXCEPT ![p] = Saved]
          /\ left' = [left EXCEPT ![p] = {f \in @ : f.id \notin IdsOf(Saved)}]
      BY <2>6 DEF TypeOK, Resume, Saved
    <3>3. {g.id : g \in verified'[p]} \cap {g.id : g \in left'[p]} = {}
      BY <3>2 DEF TypeOK, IdsOf
    <3>4. QED
      BY <2>6, <3>1, <3>2, <3>3 DEF TypeOK, Resume, Goes, given, disk
  <2>7. CASE Verify(p)
    <3>1. (count[p] + 1) % Every \in 0..(Every - 1)
      BY CountWraps DEF TypeOK
    <3>2. PICK f \in left[p] : /\ left' = [left EXCEPT ![p] = @ \ {f}]
                               /\ verified' = [verified EXCEPT ![p] = @ \cup {f}]
      BY <2>7 DEF Verify
    <3>3. left[p] \subseteq Of(input) /\ left[p] \subseteq FBs
      BY <2>7 DEF Verify, Knows
    <3>4. {g.id : g \in verified'[p]} \cap {g.id : g \in left'[p]} = {}
      BY <3>2, <3>3 DEF TypeOK
    <3>5. /\ verified' \in [Procs -> SUBSET FBs] /\ left' \in [Procs -> SUBSET FBs]
          /\ \A q \in Procs : q # p => verified'[q] = verified[q] /\ left'[q] = left[q]
      BY <3>2, <3>3 DEF TypeOK
    <3>6. \A q \in Procs : {g.id : g \in verified'[q]} \cap {g.id : g \in left'[q]} = {}
      BY <3>4, <3>5 DEF TypeOK
    <3>7. QED
      BY <2>7, <3>1, <3>5, <3>6 DEF TypeOK, Verify, given, disk
  <2>8. CASE Tick(p) \/ Finish(p)
    BY <2>8 DEF TypeOK, Tick, Finish, Goes, given, disk, memory
  <2>9. QED
    BY <1>1, <2>1, <2>2, <2>3, <2>4, <2>5, <2>6, <2>7, <2>8 DEF Run
<1>2. ASSUME NEW p \in Procs, Crash(p)
      PROVE  TypeOK'
  <2>1. lock' \in Procs \cup {Absent, Gone} /\ (print' # Absent => print' \in Fingerprint)
    BY <1>2 DEF TypeOK, Crash
  <2>2. \A q \in Procs : {g.id : g \in verified'[q]} \cap {g.id : g \in left'[q]} = {}
    BY <1>2, EndsApart DEF Crash
  <2>3. /\ pc' \in [Procs -> Places]
        /\ mismatch' \in [Procs -> BOOLEAN]
        /\ verified' \in [Procs -> SUBSET FBs] /\ left' \in [Procs -> SUBSET FBs]
        /\ count' \in [Procs -> 0..(Every - 1)]
    BY <1>2, EndsEmpty DEF Crash
  <2>4. UNCHANGED <<input, code, ckpt, raced>> /\ crashes' \in 0..MaxCrashes
    BY <1>2 DEF TypeOK, Crash, given
  <2>5. QED
    BY <2>1, <2>2, <2>3, <2>4 DEF TypeOK
<1>3. CASE Adopt \/ NewInput \/ Upgrade
  <2>1. Current \in Fingerprint
    BY DEF TypeOK, Current, Fingerprint
  <2>2. CASE Adopt
    BY <2>1, <2>2 DEF TypeOK, Adopt, given, memory
  <2>3. CASE NewInput \/ Upgrade
    BY <2>3 DEF TypeOK, NewInput, Upgrade, disk, memory
  <2>4. QED
    BY <1>3, <2>2, <2>3
<1>4. CASE UNCHANGED vars
  BY <1>4 DEF TypeOK, vars, given, disk, memory
<1>5. QED
  BY <1>1, <1>2, <1>3, <1>4 DEF Next

-----------------------------------------------------------------------------
(* The lock *)

LockInv == OneWriter /\ TakingAlone

\* A lock that is free has no writer behind it.
LEMMA FreeNoWriter ==
    ASSUME TypeOK, OneWriter, ~raced, Free
    PROVE  Writers = {}
BY DEF OneWriter, Free, Writers

\* As long as no two have looked for it at once, the lock is taken by one process at a
\* time and is kept by whoever writes.
LEMMA LockStep == TypeOK /\ LockInv /\ [Next]_vars => LockInv'
<1> SUFFICES ASSUME TypeOK, LockInv, [Next]_vars, ~raced'
             PROVE  LockInv'
  BY DEF LockInv, OneWriter, TakingAlone
<1> USE DEF LockInv, OneWriter, TakingAlone, Writers, Taking
<1>0. ~raced
  BY DEF Next, Run, vars, Load, Compare, Refuse, FindFree, Reclaim, WriteLock, Resume, Archive,
         ArchivePrint, WritePrint, Verify, Tick, Finish, WriteRefused, Leave, Crash, Adopt,
         NewInput, Upgrade
<1>1. ASSUME NEW p \in Procs, Run(p)
      PROVE  LockInv'
  <2>1. CASE Load(p) \/ Compare(p)
    BY <1>0, <2>1 DEF TypeOK, Load, Compare, Goes, given, disk
  <2>2. CASE Refuse(p)
    BY <1>0, <2>2, EndsEmpty DEF Refuse, given, disk
  <2>3. CASE FindFree(p)
    <3>1. /\ Writers = {} /\ Taking = {} /\ lock \in {Absent, Gone} /\ lock' = lock
          /\ pc' = [pc EXCEPT ![p] = IF lock = Absent THEN "taking" ELSE "stale"]
      BY <1>0, <2>3, FreeNoWriter DEF FindFree, Free, Goes, disk
    <3>2. QED
      BY <3>1 DEF TypeOK
  <2>4. CASE Reclaim(p)
    BY <1>0, <2>4 DEF TypeOK, Reclaim, Goes
  <2>5. CASE WriteLock(p)
    BY <1>0, <2>5 DEF TypeOK, WriteLock, Goes, given, disk
  <2>6. CASE Resume(p) \/ Archive(p) \/ ArchivePrint(p) \/ WritePrint(p)
    BY <1>0, <2>6 DEF TypeOK, Resume, Archive, ArchivePrint, WritePrint, Goes, given, disk
  <2>7. CASE Verify(p) \/ Tick(p) \/ Finish(p)
    BY <1>0, <2>7 DEF TypeOK, Verify, Tick, Finish, Goes, given, disk
  <2>8. CASE WriteRefused(p) \/ Leave(p)
    <3>1. /\ p \in Writers /\ lock' = Absent /\ pc'[p] = "idle"
          /\ \A q \in Procs : q # p => pc'[q] = pc[q]
      BY <2>8, EndsEmpty DEF WriteRefused, Leave
    <3>2. Taking = {} /\ Writers = {p}
      BY <1>0, <3>1 DEF TypeOK
    <3>3. QED
      BY <3>1, <3>2
  <2>9. QED
    BY <1>1, <2>1, <2>2, <2>3, <2>4, <2>5, <2>6, <2>7, <2>8 DEF Run
<1>2. ASSUME NEW p \in Procs, Crash(p)
      PROVE  LockInv'
  BY <1>0, <1>2, EndsEmpty DEF TypeOK, Crash
<1>3. CASE Adopt \/ NewInput \/ Upgrade
  BY <1>0, <1>3 DEF Adopt, NewInput, Upgrade, disk
<1>4. CASE UNCHANGED vars
  BY <1>0, <1>4 DEF vars, disk
<1>5. QED
  BY <1>1, <1>2, <1>3, <1>4 DEF Next

-----------------------------------------------------------------------------
(* What the processes know *)

\* A process keeps knowing what it knows when the checkpoint stays, or when another
\* process puts FBs of the same input there...
LEMMA KnowsStays ==
    ASSUME TypeOK, NEW q \in Procs, Knows(q), UNCHANGED input,
           pc'[q] = pc[q], mismatch'[q] = mismatch[q],
           verified'[q] = verified[q], left'[q] = left[q], count'[q] = count[q],
           ckpt' = ckpt \/ OwnCheckpoint'
    PROVE  Knows(q)'
<1>1. OwnCheckpoint => OwnCheckpoint'
  BY DEF OwnCheckpoint, Saved
<1>2. QED
  BY <1>1 DEF Knows

\* ...and, if it is alone, when the checkpoint stays or it does not write.
LEMMA KnowsAloneStays ==
    ASSUME TypeOK, NEW q \in Procs, KnowsAlone(q), UNCHANGED input,
           pc'[q] = pc[q], verified'[q] = verified[q], count'[q] = count[q],
           ckpt' = ckpt \/ q \notin Writers
    PROVE  KnowsAlone(q)'
<1>1. CASE ckpt' = ckpt
  <2>1. Saved' = Saved
    BY <1>1 DEF Saved
  <2>2. QED
    BY <1>1, <2>1 DEF KnowsAlone
<1>2. CASE q \notin Writers
  BY <1>2 DEF KnowsAlone, Writers
<1>3. QED
  BY <1>1, <1>2

\* All that a step of process p does to the others.
Effect(p) ==
    /\ UNCHANGED input
    /\ ckpt' = ckpt \/ (p \in Writers /\ OwnCheckpoint')
    /\ print' \in {print, Absent} \/ (print' = Current /\ OwnCheckpoint')
    /\ raced => raced'
    /\ \A q \in Procs : q # p =>
          /\ pc'[q] = pc[q] /\ mismatch'[q] = mismatch[q]
          /\ verified'[q] = verified[q] /\ left'[q] = left[q] /\ count'[q] = count[q]

Knowledge ==
    /\ PrintsPast /\ ResumesOwnInput
    /\ \A p \in Procs : Knows(p) /\ (~raced => KnowsAlone(p))

\* A step with no other effects keeps what all the others know.
LEMMA EffectKeeps ==
    ASSUME TypeOK, IInv, NEW p \in Procs, Effect(p), Knows(p)', ~raced' => KnowsAlone(p)'
    PROVE  Knowledge'
<1>1. ASSUME NEW q \in Procs, q # p
      PROVE  Knows(q)'
  BY <1>1, KnowsStays DEF Effect, IInv
<1>2. ASSUME NEW q \in Procs, q # p, ~raced'
      PROVE  KnowsAlone(q)'
  <2>1. p \in Writers => q \notin Writers
    BY <1>2 DEF IInv, OneWriter, Writers, Effect
  <2>2. QED
    BY <1>2, <2>1, KnowsAloneStays DEF Effect, IInv
<1>3. PrintsPast'
  <2>1. input \in Nat /\ Current.input = input
    BY DEF TypeOK, Current
  <2>2. CASE print' \in {print, Absent}
    BY <2>2 DEF IInv, PrintsPast, Effect
  <2>3. CASE print' = Current
    BY <2>1, <2>3 DEF PrintsPast, Effect
  <2>4. QED
    BY <2>2, <2>3 DEF Effect
<1>4. ResumesOwnInput'
  <2>1. CASE OwnCheckpoint'
    BY <2>1 DEF OwnCheckpoint, ResumesOwnInput, Saved
  <2>2. CASE ckpt' = ckpt /\ print' \in {print, Absent}
    BY <2>2 DEF IInv, ResumesOwnInput, Effect
  <2>3. QED
    BY <2>1, <2>2 DEF Effect
<1>5. QED
  BY <1>1, <1>2, <1>3, <1>4 DEF Knowledge

\* An FB that is verified is no longer left.
LEMMA VerifyMoves ==
    ASSUME TypeOK, NEW p \in Procs, Knows(p), Verify(p)
    PROVE  verified'[p] \cup left'[p] = Of(input)
<1>1. PICK f \in left[p] : /\ left' = [left EXCEPT ![p] = @ \ {f}]
                           /\ verified' = [verified EXCEPT ![p] = @ \cup {f}]
  BY DEF Verify
<1>2. verified[p] \cup left[p] = Of(input)
  BY DEF Knows, Verify
<1>3. QED
  BY <1>1, <1>2 DEF TypeOK

\* A process that verifies an FB is one FB further from the checkpoint.
LEMMA VerifyCounts ==
    ASSUME TypeOK, NEW p \in Procs, Knows(p), KnowsAlone(p), Verify(p)
    PROVE  /\ Saved \subseteq verified'[p]
           /\ Cardinality(verified'[p] \ Saved) <= count[p] + 1
<1>1. /\ verified[p] \cup left[p] = Of(input)
      /\ Saved \subseteq verified[p]
      /\ Cardinality(verified[p] \ Saved) <= count[p]
  BY DEF Knows, KnowsAlone, Verify
<1>2. PICK f \in left[p] : /\ left' = [left EXCEPT ![p] = @ \ {f}]
                           /\ verified' = [verified EXCEPT ![p] = @ \cup {f}]
  BY DEF Verify
<1>3. left'[p] = left[p] \ {f} /\ verified'[p] = verified[p] \cup {f}
  BY <1>2 DEF TypeOK
<1>4. verified'[p] \ Saved \subseteq (verified[p] \ Saved) \cup {f}
  BY <1>3
<1>5. IsFiniteSet(verified[p] \ Saved)
  BY <1>1, OfInput, FS_Subset DEF TypeOK
<1>6. /\ IsFiniteSet((verified[p] \ Saved) \cup {f})
      /\ Cardinality((verified[p] \ Saved) \cup {f}) <= Cardinality(verified[p] \ Saved) + 1
  <2> DEFINE T == verified[p] \ Saved
  <2>1. /\ IsFiniteSet(T \cup {f})
        /\ Cardinality(T \cup {f}) = IF f \in T THEN Cardinality(T) ELSE Cardinality(T) + 1
    BY <1>5, FS_AddElement
  <2>2. Cardinality(T) \in Nat
    BY <1>5, FS_CardinalityType
  <2> HIDE DEF T
  <2>3. IsFiniteSet(T \cup {f}) /\ Cardinality(T \cup {f}) <= Cardinality(T) + 1
    BY <2>1, <2>2
  <2>4. QED
    BY <2>3 DEF T
<1>7. Cardinality(verified'[p] \ Saved) <= Cardinality((verified[p] \ Saved) \cup {f})
  BY <1>4, <1>6, FS_Subset
<1>8. /\ Cardinality(verified'[p] \ Saved) \in Nat
      /\ Cardinality((verified[p] \ Saved) \cup {f}) \in Nat
      /\ Cardinality(verified[p] \ Saved) \in Nat
  BY <1>4, <1>5, <1>6, FS_Subset, FS_CardinalityType
<1>9. count[p] \in Nat
  BY DEF TypeOK
<1>10. QED
  BY <1>1, <1>3, <1>6, <1>7, <1>8, <1>9

\* What every step of a process leaves true.
LEMMA KnowledgeStep == TypeOK /\ IInv /\ [Next]_vars => Knowledge'
<1> SUFFICES ASSUME TypeOK, IInv, [Next]_vars
             PROVE  Knowledge'
  OBVIOUS
<1> USE DEF given, disk, memory, Goes
<1>1. ASSUME NEW p \in Procs, Run(p)
      PROVE  Effect(p) /\ Knows(p)' /\ (~raced' => KnowsAlone(p)')
  <2> Knows(p) /\ (~raced => KnowsAlone(p))
    BY DEF IInv
  <2>1. CASE Load(p)
    BY <2>1 DEF TypeOK, Load, Effect, Knows, KnowsAlone
  <2>2. CASE Compare(p)
    <3>1. print = Current => OwnCheckpoint
      <4>1. Current \in Fingerprint /\ Current.input = input
        BY DEF TypeOK, Current, Fingerprint
      <4>2. QED
        BY <4>1 DEF IInv, ResumesOwnInput, OwnCheckpoint, Saved
    <3>2. mismatch'[p] = (print # Current) /\ pc'[p] = "compared"
      BY <2>2 DEF TypeOK, Compare
    <3>3. OwnCheckpoint' = OwnCheckpoint
      BY <2>2 DEF Compare, OwnCheckpoint, Saved
    <3>4. Effect(p)
      BY <2>2 DEF TypeOK, Compare, Effect
    <3>5. QED
      BY <2>2, <3>1, <3>2, <3>3, <3>4 DEF Compare, Knows, KnowsAlone
  <2>3. CASE Refuse(p) \/ WriteRefused(p) \/ Leave(p)
    <3>1. Ends(p) /\ UNCHANGED <<input, code, ckpt, print, raced>>
      BY <2>3 DEF Refuse, WriteRefused, Leave
    <3>2. QED
      BY <3>1, EndsEmpty DEF Effect, Knows, KnowsAlone
  <2>4. CASE FindFree(p) \/ Reclaim(p) \/ WriteLock(p)
    <3>1. Saved' = Saved /\ OwnCheckpoint' = OwnCheckpoint
      BY <2>4 DEF FindFree, Reclaim, WriteLock, OwnCheckpoint, Saved
    <3>2. /\ pc[p] \in {"compared", "stale", "taking"} /\ pc'[p] \in {"stale", "taking", "locked"}
          /\ UNCHANGED <<input, ckpt, print, mismatch, verified, left, count>>
          /\ \A q \in Procs : q # p => pc'[q] = pc[q]
          /\ raced => raced'
      BY <2>4 DEF TypeOK, FindFree, Reclaim, WriteLock
    <3>3. QED
      BY <3>1, <3>2 DEF Effect, Knows, KnowsAlone
  <2>5. CASE Resume(p)
    <3>1. Saved' = Saved /\ OwnCheckpoint' = OwnCheckpoint /\ input' = input
      BY <2>5 DEF Resume, OwnCheckpoint, Saved
    <3>2. OwnCheckpoint /\ left[p] = Of(input) /\ count[p] = 0
      BY <2>5 DEF Resume, Knows, OwnCheckpoint, Saved
    <3>3. /\ pc'[p] = "print" /\ verified'[p] = Saved
          /\ left'[p] = {f \in Of(input) : f.id \notin IdsOf(Saved)} /\ count'[p] = 0
      BY <2>5, <3>2 DEF TypeOK, Resume, Saved
    <3>4. verified'[p] \cup left'[p] = Of(input)
      BY <3>2, <3>3, ResumeSplits DEF TypeOK, OwnCheckpoint
    <3>5. Effect(p)
      BY <2>5 DEF TypeOK, Resume, Effect
    <3>6. QED
      BY <3>1, <3>2, <3>3, <3>4, <3>5 DEF Knows, KnowsAlone
  <2>6. CASE Archive(p)
    <3>1. /\ p \in Writers /\ pc[p] = "locked" /\ pc'[p] = "archived" /\ ckpt' = Absent
          /\ UNCHANGED <<input, print, raced, mismatch, verified, left, count>>
          /\ \A q \in Procs : q # p => pc'[q] = pc[q]
      BY <2>6 DEF TypeOK, Archive, Writers
    <3>2. OwnCheckpoint'
      BY <3>1 DEF OwnCheckpoint, Saved
    <3>3. QED
      BY <3>1, <3>2 DEF Effect, Knows, KnowsAlone
  <2>7. CASE ArchivePrint(p)
    <3>1. Saved' = Saved /\ OwnCheckpoint' = OwnCheckpoint
      BY <2>7 DEF ArchivePrint, OwnCheckpoint, Saved
    <3>2. /\ pc[p] = "archived" /\ pc'[p] = "print" /\ print' = Absent
          /\ UNCHANGED <<input, ckpt, raced, mismatch, verified, left, count>>
          /\ \A q \in Procs : q # p => pc'[q] = pc[q]
      BY <2>7 DEF TypeOK, ArchivePrint
    <3>3. ckpt = Absent => Saved = {}
      BY DEF Saved
    <3>4. QED
      BY <3>1, <3>2, <3>3 DEF Effect, Knows, KnowsAlone
  <2>8. CASE WritePrint(p)
    <3>1. Saved' = Saved /\ OwnCheckpoint' = OwnCheckpoint /\ OwnCheckpoint
      BY <2>8 DEF WritePrint, Knows, OwnCheckpoint, Saved
    <3>2. /\ pc[p] = "print" /\ pc'[p] = "verify" /\ print' \in {Current, print, Absent}
          /\ UNCHANGED <<input, ckpt, raced, mismatch, verified, left, count>>
          /\ \A q \in Procs : q # p => pc'[q] = pc[q]
      BY <2>8 DEF TypeOK, WritePrint
    <3>3. verified[p] = Saved => Cardinality(verified[p] \ Saved) = 0
      BY FS_EmptySet
    <3>4. Effect(p) /\ Knows(p)'
      BY <3>1, <3>2 DEF Effect, Knows
    <3>5. ~raced' => KnowsAlone(p)'
      BY <3>1, <3>2, <3>3 DEF Knows, KnowsAlone
    <3>6. QED
      BY <3>4, <3>5
  <2>9. CASE Verify(p)
    <3>1. Saved' = Saved /\ OwnCheckpoint' = OwnCheckpoint /\ input' = input /\ raced' = raced
      BY <2>9 DEF Verify, OwnCheckpoint, Saved
    <3>2. OwnCheckpoint
      BY <2>9 DEF Verify, Knows
    <3>3. Effect(p)
      BY <2>9 DEF TypeOK, Verify, Effect
    <3>4. verified'[p] \cup left'[p] = Of(input)
      BY <2>9, VerifyMoves
    <3>5. ~raced => /\ Saved \subseteq verified'[p]
                    /\ Cardinality(verified'[p] \ Saved) <= count[p] + 1
      BY <2>9, VerifyCounts
    <3>6. CASE count[p] + 1 = Every
      <4>1. count'[p] = 0 /\ pc'[p] = "tick"
        BY <2>9, <3>6, CountWraps DEF TypeOK, Verify
      <4>2. QED
        BY <3>1, <3>2, <3>3, <3>4, <3>5, <3>6, <4>1 DEF Knows, KnowsAlone
    <3>7. CASE count[p] + 1 # Every
      <4>1. count'[p] = count[p] + 1 /\ pc'[p] = "verify"
        BY <2>9, <3>7, CountWraps DEF TypeOK, Verify
      <4>2. QED
        BY <3>1, <3>2, <3>3, <3>4, <3>5, <4>1 DEF Knows, KnowsAlone
    <3>8. QED
      BY <3>6, <3>7
  <2>10. CASE Tick(p) \/ Finish(p)
    <3>1. /\ verified[p] \cup left[p] = Of(input) /\ input' = input /\ p \in Writers
          /\ raced' = raced
          /\ verified' = verified /\ left' = left /\ count' = count /\ ckpt' = verified[p]
      BY <2>10 DEF Tick, Finish, Knows, Writers
    <3>2. ckpt' \in SUBSET FBs
      BY <3>1 DEF TypeOK
    <3>3. Saved' = verified[p] /\ OwnCheckpoint'
      BY <3>1, <3>2 DEF Saved, OwnCheckpoint
    <3>4. Effect(p)
      BY <2>10, <3>1, <3>3 DEF TypeOK, Tick, Finish, Effect
    <3>5. verified'[p] \ Saved' = {} /\ Cardinality(verified'[p] \ Saved') = 0
      BY <3>1, <3>3, FS_EmptySet
    <3>6. CASE Tick(p)
      <4>1. pc'[p] = "verify" /\ count'[p] = 0
        BY <3>1, <3>6 DEF TypeOK, Tick, Knows
      <4>2. QED
        BY <3>1, <3>3, <3>4, <3>5, <4>1 DEF Knows, KnowsAlone
    <3>7. CASE Finish(p)
      <4>1. pc'[p] = "leaving" /\ left[p] = {}
        BY <3>7 DEF TypeOK, Finish
      <4>2. QED
        BY <3>1, <3>3, <3>4, <4>1 DEF Knows, KnowsAlone
    <3>8. QED
      BY <2>10, <3>6, <3>7
  <2>11. QED
    BY <1>1, <2>1, <2>2, <2>3, <2>4, <2>5, <2>6, <2>7, <2>8, <2>9, <2>10 DEF Run
<1>2. ASSUME NEW p \in Procs, Crash(p)
      PROVE  Effect(p) /\ Knows(p)' /\ (~raced' => KnowsAlone(p)')
  BY <1>2, EndsEmpty DEF Crash, Effect, Knows, KnowsAlone
<1>3. CASE Adopt
  <2>1. Current \in Fingerprint /\ Current.input = input
    BY DEF TypeOK, Current, Fingerprint
  <2>2. PrintsPast' /\ ResumesOwnInput'
    BY <1>3, <2>1 DEF IInv, Adopt, PrintsPast, ResumesOwnInput
  <2>3. \A p \in Procs : Knows(p)' /\ (~raced' => KnowsAlone(p)')
    BY <1>3, KnowsStays, KnowsAloneStays DEF IInv, Adopt
  <2>4. QED
    BY <2>2, <2>3 DEF Knowledge
<1>4. CASE NewInput
  <2>1. input \in Nat /\ input' = input + 1 /\ UNCHANGED <<ckpt, print>>
    BY <1>4 DEF TypeOK, NewInput
  <2>2. print # Absent => print.input \in Nat /\ print.input <= input
    BY DEF TypeOK, Fingerprint, IInv, PrintsPast
  <2>3. PrintsPast' /\ ResumesOwnInput'
    BY <2>1, <2>2 DEF PrintsPast, ResumesOwnInput
  <2>4. \A p \in Procs : Knows(p)' /\ KnowsAlone(p)'
    BY <1>4 DEF IInv, NewInput, Idle, Knows, KnowsAlone
  <2>5. QED
    BY <2>3, <2>4 DEF Knowledge
<1>5. CASE Upgrade \/ UNCHANGED vars
  <2>1. UNCHANGED <<input, ckpt, print, raced, pc, mismatch, verified, left, count>>
    BY <1>5 DEF Upgrade, vars
  <2>2. PrintsPast' /\ ResumesOwnInput'
    BY <2>1 DEF IInv, PrintsPast, ResumesOwnInput
  <2>3. \A p \in Procs : Knows(p)' /\ (~raced' => KnowsAlone(p)')
    BY <2>1, KnowsStays, KnowsAloneStays DEF IInv
  <2>4. QED
    BY <2>2, <2>3 DEF Knowledge
<1>6. QED
  BY <1>1, <1>2, <1>3, <1>4, <1>5, EffectKeeps DEF Next

-----------------------------------------------------------------------------
(* The theorems *)

\* Types, lock and knowledge are one inductive invariant.
LEMMA Inductive == Spec => [](TypeOK /\ IInv)
<1>1. ASSUME Init
      PROVE  TypeOK /\ IInv
  <2>1. TypeOK
    <3>1. \A p \in Procs : verified[p] = {} /\ left[p] = {}
      BY <1>1 DEF Init
    <3>2. \A p \in Procs : {f.id : f \in verified[p]} \cap {f.id : f \in left[p]} = {}
      BY <3>1
    <3>3. pc \in [Procs -> Places]
      BY <1>1 DEF Init, Places
    <3>4. /\ mismatch \in [Procs -> BOOLEAN]
          /\ verified \in [Procs -> SUBSET FBs] /\ left \in [Procs -> SUBSET FBs]
      BY <1>1 DEF Init
    <3>5. count \in [Procs -> 0..(Every - 1)]
      BY <1>1 DEF Init
    <3>6. raced \in BOOLEAN
      BY <1>1, Zenon DEF Init
    <3>7. /\ input \in Inputs /\ code \in Codes /\ crashes \in 0..MaxCrashes
          /\ ckpt = Absent /\ print = Absent /\ lock = Absent
      BY <1>1 DEF Init
    <3>8. QED
      BY <3>2, <3>3, <3>4, <3>5, <3>6, <3>7 DEF TypeOK
  <2>2. Writers = {} /\ Taking = {}
    BY <1>1 DEF Init, Writers, Taking
  <2>3. \A p \in Procs : Knows(p) /\ KnowsAlone(p)
    BY <1>1 DEF Init, Knows, KnowsAlone
  <2>4. QED
    BY <1>1, <2>1, <2>2, <2>3 DEF Init, IInv, OneWriter, TakingAlone, PrintsPast, ResumesOwnInput
<1>2. TypeOK /\ IInv /\ [Next]_vars => TypeOK' /\ IInv'
  BY TypeOKStep, LockStep, KnowledgeStep DEF IInv, LockInv, Knowledge
<1>3. QED
  BY <1>1, <1>2, PTL DEF Spec

\* The variables of Stage 5 keep their types, and no process has one FB both
\* verified and still to verify.
THEOREM TypeCorrect == Spec => []TypeOK
BY Inductive, PTL

\* One process at a time writes, and the lock names it (BUG-361), until two are between
\* their look for the lock and their write of it at once.
THEOREM WriterIsOne == Spec => []OneWriter
<1>1. IInv => OneWriter
  BY DEF IInv
<1>2. QED
  BY <1>1, Inductive, PTL

\* A checkpoint whose fingerprint is of the input in place is of the FBs of that input
\* (D2485), also when the lock has let several processes write.
THEOREM ResumeIsOwn == Spec => []ResumesOwnInput
<1>1. IInv => ResumesOwnInput
  BY DEF IInv
<1>2. QED
  BY <1>1, Inductive, PTL

\* A kill in the loop costs an interval at most, and no write is smaller than the
\* file it replaces (D2409), as long as no two starts have overlapped.
THEOREM LittleIsLost == Spec => []LosesLittle
<1>1. TypeOK /\ IInv => LosesLittle
  <2> SUFFICES ASSUME TypeOK, IInv, NEW p \in Procs, ~raced, pc[p] \in {"verify", "tick"}
               PROVE  /\ Saved \subseteq verified[p]
                      /\ Cardinality(verified[p] \ Saved)
                            <= (IF pc[p] = "tick" THEN Every ELSE Every - 1)
    BY DEF LosesLittle
  <2>1. IsFiniteSet(verified[p] \ Saved)
    BY FS_Subset DEF TypeOK
  <2>2. Cardinality(verified[p] \ Saved) \in Nat /\ count[p] \in 0..(Every - 1)
    BY <2>1, FS_CardinalityType DEF TypeOK
  <2>3. QED
    BY <2>2 DEF IInv, Knows, KnowsAlone
<1>2. QED
  BY <1>1, Inductive, PTL

\* A process that ends normally has left the verdicts of all FBs of its input, as long as
\* no two starts have overlapped.
THEOREM EndIsWhole == Spec => []CompletesWhole
<1>1. IInv => CompletesWhole
  BY DEF IInv, KnowsAlone, CompletesWhole
<1>2. QED
  BY <1>1, Inductive, PTL


-----------------------------------------------------------------------------
(* The lock keeps its promise *)

\* Every step of a process, of the operator and of a kill is a step of
\* ExclusiveRuns, or none.
LEMMA ExclusiveStep ==
    ASSUME TypeOK, IInv, [Next]_vars
    PROVE  [Exclusive!Next]_(Exclusive!vars)
<1> USE DEF TypeOK, Goes, Writers, Working, given, disk, memory
<1>1. ASSUME NEW p \in Procs, Load(p) \/ Compare(p) \/ Refuse(p) \/ FindFree(p) \/ Reclaim(p)
      PROVE  Exclusive!Race \/ UNCHANGED Exclusive!vars
  <2>1. p \notin Writers \cup Working /\ p \notin Writers' \cup Working'
    BY <1>1 DEF Load, Compare, Refuse, FindFree, Reclaim, Ends
  <2>2. \A q \in Procs : q # p => pc'[q] = pc[q]
    BY <1>1 DEF Load, Compare, Refuse, FindFree, Reclaim, Ends
  <2>3. Writers' = Writers /\ Working' = Working
    BY <2>1, <2>2
  <2>4. raced' = raced \/ raced' = TRUE
    BY <1>1 DEF Load, Compare, Refuse, FindFree, Reclaim
  <2>5. QED
    BY <2>3, <2>4 DEF Exclusive!Race, Exclusive!vars
<1>2. ASSUME NEW p \in Procs, WriteLock(p)
      PROVE  Exclusive!Acquire(p)
  <2>1. ~raced => Writers = {} /\ Working = {}
    BY <1>2 DEF WriteLock, IInv, TakingAlone, Taking
  <2>2. pc[p] = "taking" /\ pc'[p] = "locked" /\ raced' = raced
        /\ \A q \in Procs : q # p => pc'[q] = pc[q]
    BY <1>2 DEF WriteLock
  <2>3. Writers' = Writers \cup {p} /\ Working' = Working
    BY <2>2
  <2>4. QED
    BY <2>1, <2>2, <2>3 DEF Exclusive!Acquire
<1>3. ASSUME NEW p \in Procs, Resume(p) \/ Archive(p)
      PROVE  Exclusive!StartStage(p)
  <2>1. pc[p] = "locked" /\ pc'[p] \in {"archived", "print"} /\ raced' = raced
        /\ \A q \in Procs : q # p => pc'[q] = pc[q]
    BY <1>3 DEF Resume, Archive
  <2>2. ~raced => Writers = {p}
    BY <2>1 DEF IInv, OneWriter
  <2>3. ~raced => Working = {}
    BY <2>1, <2>2
  <2>4. p \in Writers /\ p \notin Working /\ Writers' = Writers /\ Working' = Working \cup {p}
    BY <2>1
  <2>5. QED
    BY <2>1, <2>3, <2>4 DEF Exclusive!StartStage
<1>4. ASSUME NEW p \in Procs, ArchivePrint(p) \/ WritePrint(p) \/ Verify(p) \/ Tick(p)
      PROVE  UNCHANGED Exclusive!vars
  <2>1. p \in Working /\ pc'[p] \in {"print", "verify", "tick"} /\ raced' = raced
        /\ \A q \in Procs : q # p => pc'[q] = pc[q]
    BY <1>4 DEF ArchivePrint, WritePrint, Verify, Tick
  <2>2. Writers' = Writers /\ Working' = Working
    BY <2>1
  <2>3. QED
    BY <2>1, <2>2 DEF Exclusive!vars
<1>5. ASSUME NEW p \in Procs, Finish(p)
      PROVE  Exclusive!EndStage(p)
  <2>1. pc[p] = "verify" /\ pc'[p] = "leaving" /\ raced' = raced
        /\ \A q \in Procs : q # p => pc'[q] = pc[q]
    BY <1>5 DEF Finish
  <2>2. Writers' = Writers /\ p \in Working /\ Working' = Working \ {p}
    BY <2>1
  <2>3. QED
    BY <2>1, <2>2 DEF Exclusive!EndStage
<1>6. ASSUME NEW p \in Procs, Leave(p)
      PROVE  Exclusive!Release(p)
  <2>1. pc[p] = "leaving" /\ pc'[p] = "idle" /\ raced' = raced
        /\ \A q \in Procs : q # p => pc'[q] = pc[q]
    BY <1>6 DEF Leave, Ends
  <2>2. p \in Writers /\ p \notin Working /\ Writers' = Writers \ {p} /\ Working' = Working
    BY <2>1
  <2>3. QED
    BY <2>1, <2>2 DEF Exclusive!Release
<1>7. ASSUME NEW p \in Procs, Crash(p) \/ WriteRefused(p)
      PROVE  Exclusive!Kill(p)
  <2>1. pc'[p] = "idle" /\ raced' = raced /\ \A q \in Procs : q # p => pc'[q] = pc[q]
    BY <1>7 DEF Crash, WriteRefused, Ends
  <2>2. Writers' = Writers \ {p} /\ Working' = Working \ {p}
    BY <2>1
  <2>3. QED
    BY <2>1, <2>2 DEF Exclusive!Kill
<1>8. CASE Adopt \/ NewInput \/ Upgrade \/ UNCHANGED vars
  BY <1>8 DEF Adopt, NewInput, Upgrade, vars, Exclusive!vars
<1>9. QED
  BY <1>1, <1>2, <1>3, <1>4, <1>5, <1>6, <1>7, <1>8 DEF Next, Run, Exclusive!Next

\* The lock of BUG-361 implements ExclusiveRuns, in which nothing excludes anything any
\* more once two starts have overlapped; and no kill leaves work behind.
THEOREM Implements == Spec => WritersExclude
<1>1. Init => Exclusive!Init
  BY DEF Init, Exclusive!Init, Writers, Working
<1>2. TypeOK /\ IInv /\ [Next]_vars => [Exclusive!Next]_(Exclusive!vars)
  BY ExclusiveStep
<1>3. QED
  BY <1>1, <1>2, Inductive, PTL DEF Spec, WritersExclude, Exclusive!Spec
=============================================================================
