-------------------------- MODULE RunnerLockProofs --------------------------
(***************************************************************************)
(* Proofs about the runner's lock, for any set of pids and any bounds on   *)
(* starts, kills and reused pids: type correctness, mutual exclusion until *)
(* two starts overlap, and the refinement of ExclusiveRuns, which says     *)
(* what is left after that.                                                *)
(***************************************************************************)
EXTENDS RunnerLock, FiniteSetTheorems, TLAPS

USE PidsAssumption, LimitsAssumption

-----------------------------------------------------------------------------
(* Type correctness *)

\* No step of a runner, of the kernel or of a foreign process breaks the types.
LEMMA TypeOKStep == TypeOK /\ [Next]_vars => TypeOK'
<1> SUFFICES ASSUME TypeOK, [Next]_vars
             PROVE  TypeOK'
  OBVIOUS
<1> USE DEF TypeOK, States, Starting, Looking, Goes, Exits, Unlink
<1>1. ASSUME NEW p \in Pids, Launch(p) \/ ForeignStarts(p) \/ ForeignEnds(p)
      PROVE  TypeOK'
  BY <1>1 DEF Launch, ForeignStarts, ForeignEnds
<1>2. ASSUME NEW p \in Pids, AcquireStep(p)
      PROVE  TypeOK'
  <2>1. CASE CheckLock(p) \/ ReadLock(p)
    BY <2>1 DEF CheckLock, ReadLock
  <2>2. CASE Refuse(p) \/ FindStale(p) \/ Reclaim(p)
    BY <2>2 DEF Refuse, FindStale, Reclaim
  <2>3. CASE OpenLock(p) \/ WriteLock(p)
    BY <2>3 DEF OpenLock, WriteLock
  <2>4. QED
    BY <1>2, <2>1, <2>2, <2>3 DEF AcquireStep
<1>3. ASSUME NEW p \in Pids, StageStarts(p) \/ StageEnds(p) \/ ExitNormally(p)
      PROVE  TypeOK'
  BY <1>3 DEF StageStarts, StageEnds, ExitNormally
<1>4. ASSUME NEW p \in Pids, Killed(p)
      PROVE  TypeOK'
  BY <1>4 DEF Killed
<1>5. CASE UNCHANGED vars
  BY <1>5 DEF vars
<1>6. QED
  BY <1>1, <1>2, <1>3, <1>4, <1>5 DEF Next

\* The variables of the lock protocol keep their types, whether starts overlap or not.
THEOREM TypeCorrect == Spec => []TypeOK
<1>1. Init => TypeOK
  <2> SUFFICES ASSUME Init
               PROVE  TypeOK
    OBVIOUS
  <2>1. raced \in BOOLEAN
    BY Zenon DEF Init
  <2>2. child \in [Pids -> BOOLEAN]
    BY Zenon DEF Init
  <2>3. QED
    BY <2>1, <2>2 DEF Init, TypeOK, States
<1>2. QED
  BY <1>1, TypeOKStep, PTL DEF Spec

-----------------------------------------------------------------------------
(* Mutual exclusion *)

\* A set with at most one member.
LEMMA AtMostOne ==
    ASSUME NEW S, NEW x, S \subseteq {x}
    PROVE  Cardinality(S) <= 1
<1>1. IsFiniteSet({x}) /\ Cardinality({x}) = 1
  BY FS_Singleton
<1>2. Cardinality(S) <= Cardinality({x})
  BY <1>1, FS_Subset
<1>3. QED
  BY <1>1, <1>2

\* The holder is the process the lock names, so there is one at most.
LEMMA HoldersAreOne ==
    ASSUME LockNamesHolder, ~raced
    PROVE  \A p, q \in Holders : p = q
BY DEF LockNamesHolder

\* Every step of any process keeps the inductive invariant.
LEMMA IInvStep ==
    ASSUME TypeOK, IInv, [Next]_vars
    PROVE  IInv'
<1> USE DEF TypeOK, States, Goes, Exits, Holders
<1>1. ASSUME NEW p \in Pids, Launch(p) \/ ForeignStarts(p) \/ ForeignEnds(p)
      PROVE  IInv'
  <2>1. pc[p] \notin Looking /\ pc'[p] \notin Looking
    BY <1>1 DEF Launch, ForeignStarts, ForeignEnds, Looking
  <2>2. \A q \in Pids : q # p => pc'[q] = pc[q]
    BY <1>1 DEF Launch, ForeignStarts, ForeignEnds
  <2>3. UNCHANGED <<link, text, fd, held, child, raced, kills>>
    BY <1>1 DEF Launch, ForeignStarts, ForeignEnds
  <2>4. Holders' = Holders
    BY <1>1, <2>2 DEF Launch, ForeignStarts, ForeignEnds
  <2>5. Serial' /\ NoRival'
    BY <2>1, <2>2, <2>3, <2>4 DEF IInv, Serial, NoRival, Looking
  <2>6. LockNamesHolder'
    BY <2>3, <2>4 DEF IInv, LockNamesHolder
  <2>7. StagesHeld'
    BY <2>3, <2>4 DEF IInv, StagesHeld
  <2>8. QED
    BY <2>5, <2>6, <2>7 DEF IInv
<1>2. ASSUME NEW p \in Pids, CheckLock(p)
      PROVE  IInv'
  <2>1. ~raced' => ~raced /\ \A q \in Pids : pc[q] \notin Looking
    BY <1>2 DEF CheckLock
  <2>2. Holders' = Holders
    BY <1>2 DEF CheckLock
  <2>3. ~raced /\ link = None => Holders = {}
    BY DEF IInv, LockNamesHolder
  <2>4. UNCHANGED <<link, text, fd, held, child, kills>>
    BY <1>2 DEF CheckLock
  <2>5. \A q \in Pids : q # p => pc'[q] = pc[q]
    BY <1>2 DEF CheckLock
  <2>6. Serial'
    BY <2>1, <2>5 DEF Serial
  <2>7. LockNamesHolder' /\ StagesHeld'
    BY <2>1, <2>2, <2>4 DEF IInv, LockNamesHolder, StagesHeld
  <2>8. NoRival'
    BY <1>2, <2>1, <2>2, <2>3, <2>5 DEF CheckLock, NoRival, Looking
  <2>9. QED
    BY <2>6, <2>7, <2>8 DEF IInv
<1>3. ASSUME NEW p \in Pids, AcquireStep(p), ~CheckLock(p)
      PROVE  IInv'
  <2>1. pc[p] \in Looking /\ \A q \in Pids : q # p => pc'[q] = pc[q]
    BY <1>3 DEF AcquireStep, ReadLock, Refuse, FindStale, Reclaim, OpenLock, WriteLock, Looking
  <2>2. UNCHANGED <<child, raced, kills>>
    BY <1>3 DEF AcquireStep, ReadLock, Refuse, FindStale, Reclaim, OpenLock, WriteLock
  <2>3. Serial'
    BY <2>1, <2>2 DEF IInv, Serial
  <2>4. StagesHeld'
    BY <2>1, <2>2 DEF IInv, StagesHeld, Looking
  <2>5. ~raced => \A q \in Pids : q # p => pc'[q] \notin Looking
    BY <2>1 DEF IInv, Serial
  <2>6. SUFFICES ASSUME ~raced
                 PROVE  LockNamesHolder' /\ NoRival'
    BY <2>2, <2>3, <2>4 DEF IInv, LockNamesHolder, NoRival
  <2>7. CASE ReadLock(p)
    <3>1. Holders' = Holders
      BY <2>7 DEF ReadLock
    <3>2. \A q \in Holders : held'[p] = q
      BY <2>6, <2>7 DEF ReadLock, IInv, LockNamesHolder
    <3>3. pc'[p] = "probe" /\ UNCHANGED <<link, text>>
      BY <2>7 DEF ReadLock
    <3>4. QED
      BY <2>5, <2>6, <3>1, <3>2, <3>3 DEF IInv, LockNamesHolder, NoRival, Looking
  <2>8. CASE Refuse(p)
    <3>1. Holders' = Holders /\ pc'[p] = "free" /\ UNCHANGED <<link, text>>
      BY <2>8 DEF Refuse
    <3>2. QED
      BY <2>5, <2>6, <3>1 DEF IInv, LockNamesHolder, NoRival, Looking
  <2>9. CASE FindStale(p)
    <3>1. Holders = {}
      BY <2>6, <2>9 DEF FindStale, HolderAlive, Alive, IInv, NoRival
    <3>2. Holders' = {} /\ pc'[p] = "reclaim"
      BY <2>9, <3>1 DEF FindStale
    <3>3. QED
      BY <2>5, <2>6, <3>2 DEF LockNamesHolder, NoRival, Looking
  <2>10. CASE Reclaim(p)
    <3>1. Holders = {}
      BY <2>6, <2>10 DEF Reclaim, IInv, NoRival
    <3>2. Holders' = {} /\ pc'[p] = "open"
      BY <2>10, <3>1 DEF Reclaim
    <3>3. QED
      BY <2>5, <2>6, <3>2 DEF LockNamesHolder, NoRival, Looking
  <2>11. CASE OpenLock(p)
    <3>1. Holders = {}
      BY <2>6, <2>11 DEF OpenLock, IInv, NoRival
    <3>2. Holders' = {} /\ pc'[p] = "write"
      BY <2>11, <3>1 DEF OpenLock
    <3>3. link' = fd'[p] /\ link' # None
      BY <2>11 DEF OpenLock
    <3>4. QED
      BY <2>5, <2>6, <3>2, <3>3 DEF LockNamesHolder, NoRival, Looking
  <2>12. CASE WriteLock(p)
    <3>1. Holders = {} /\ link = fd[p] /\ link # None
      BY <2>6, <2>12 DEF WriteLock, IInv, NoRival
    <3>2. Holders' = {p}
      BY <2>12, <3>1 DEF WriteLock
    <3>3. link' # None /\ text'[link'] = p
      BY <2>12, <3>1 DEF WriteLock
    <3>4. \A q \in Pids : pc'[q] \notin Looking
      BY <2>5, <2>6, <2>12 DEF WriteLock, Looking
    <3>5. QED
      BY <3>2, <3>3, <3>4 DEF LockNamesHolder, NoRival, Looking
  <2>13. QED
    BY <1>3, <2>7, <2>8, <2>9, <2>10, <2>11, <2>12 DEF AcquireStep
<1>4. ASSUME NEW p \in Pids, StageStarts(p) \/ StageEnds(p)
      PROVE  IInv'
  <2>1. UNCHANGED <<pc, link, text, fd, held, raced, kills>>
    BY <1>4 DEF StageStarts, StageEnds
  <2>2. \A q \in Pids : child'[q] => child[q] \/ pc[q] = "holding"
    BY <1>4 DEF StageStarts, StageEnds
  <2>3. QED
    BY <2>1, <2>2 DEF IInv, Serial, LockNamesHolder, NoRival, StagesHeld
<1>5. ASSUME NEW p \in Pids, ExitNormally(p)
      PROVE  IInv'
  <2>1. ~raced => Holders = {p}
    BY <1>5, HoldersAreOne DEF ExitNormally, IInv
  <2>2. Holders' = Holders \ {p}
    BY <1>5 DEF ExitNormally
  <2>3. ~raced => \A q \in Pids : pc[q] \notin {"reclaim", "open", "write"}
    BY <2>1 DEF IInv, NoRival
  <2>4. UNCHANGED <<raced, kills, child>> /\ ~child[p]
    BY <1>5 DEF ExitNormally
  <2>5. Serial' /\ StagesHeld'
    BY <1>5, <2>4 DEF ExitNormally, IInv, Serial, StagesHeld, Looking
  <2>6. LockNamesHolder'
    BY <2>1, <2>2, <2>4 DEF LockNamesHolder
  <2>7. NoRival'
    BY <1>5, <2>1, <2>2, <2>3, <2>4 DEF ExitNormally, NoRival
  <2>8. QED
    BY <2>5, <2>6, <2>7 DEF IInv
<1>6. ASSUME NEW p \in Pids, Killed(p)
      PROVE  IInv'
  <2>1. Holders' \subseteq Holders
    BY <1>6 DEF Killed
  <2>2. ~(kills' = 0)
    BY <1>6 DEF Killed
  <2>3. pc'[p] = "free" /\ \A q \in Pids : q # p => pc'[q] = pc[q] /\ held'[q] = held[q]
                                                       /\ fd'[q] = fd[q]
    BY <1>6 DEF Killed
  <2>4. UNCHANGED <<raced, link, text>>
    BY <1>6 DEF Killed
  <2>5. QED
    BY <2>1, <2>2, <2>3, <2>4
       DEF IInv, Serial, LockNamesHolder, NoRival, StagesHeld, Looking
<1>7. CASE UNCHANGED vars
  BY <1>7 DEF vars, IInv, Serial, LockNamesHolder, NoRival, StagesHeld
<1>8. QED
  BY <1>1, <1>2, <1>3, <1>4, <1>5, <1>6, <1>7 DEF Next, AcquireStep

\* The inductive invariant holds in every reachable state.
LEMMA IInvHolds == Spec => [](TypeOK /\ IInv)
<1>1. Init => IInv
  BY DEF Init, IInv, Serial, LockNamesHolder, NoRival, StagesHeld, Holders, Looking
<1>2. TypeOK /\ IInv /\ [Next]_vars => IInv'
  BY IInvStep
<1>3. QED
  BY <1>1, <1>2, TypeCorrect, PTL DEF Spec

\* Until two runners are between look and lock at once, at most one holds the run (BUG-602).
THEOREM OneHolder == Spec => []AtMostOneHolder
<1>1. IInv => AtMostOneHolder
  <2> SUFFICES ASSUME IInv, ~raced
               PROVE  Cardinality(Holders) <= 1
    BY DEF AtMostOneHolder
  <2>1. Holders \subseteq {text[link]}
    BY DEF IInv, LockNamesHolder
  <2>2. QED
    BY <2>1, AtMostOne
<1>2. QED
  BY <1>1, IInvHolds, PTL

\* ...and the lock names it, so that a killed holder is found to be gone.
THEOREM HolderIsNamed == Spec => []LockNamesHolder
<1>1. IInv => LockNamesHolder
  BY DEF IInv
<1>2. QED
  BY <1>1, IInvHolds, PTL

\* ...and, unless a runner was killed, only its stage works on the checkpoints.
THEOREM StagesExclude == Spec => []StagesExclusive
<1>1. IInv => StagesExclusive
  <2> SUFFICES ASSUME IInv, ~raced, kills = 0
               PROVE  Cardinality({p \in Pids : child[p]}) <= 1
    BY DEF StagesExclusive
  <2>1. {p \in Pids : child[p]} \subseteq Holders
    BY DEF IInv, StagesHeld, Holders
  <2>2. Holders \subseteq {text[link]}
    BY DEF IInv, LockNamesHolder
  <2>3. {p \in Pids : child[p]} \subseteq {text[link]}
    BY <2>1, <2>2
  <2>4. QED
    BY <2>3, AtMostOne
<1>2. QED
  BY <1>1, IInvHolds, PTL

-----------------------------------------------------------------------------
(* The lock keeps its promise *)

\* Steps that leave the holders, the stages, the kills and the race alone are no steps
\* of ExclusiveRuns.
LEMMA Unseen ==
    ASSUME Holders' = Holders, UNCHANGED <<child, kills, raced>>
    PROVE  UNCHANGED Exclusive!vars
BY DEF Exclusive!vars

\* Every step of a runner, its stage or a killer is one of ExclusiveRuns, or none.
LEMMA ExclusiveStep ==
    ASSUME TypeOK, IInv, [Next]_vars
    PROVE  [Exclusive!Next]_(Exclusive!vars)
<1> USE DEF TypeOK, States, Goes, Exits, Holders
<1> DEFINE Stages == {p \in Pids : child[p]}
<1>1. kills = 0 => Stages \subseteq Holders
  BY DEF IInv, StagesHeld
<1>2. ASSUME NEW p \in Pids,
             \/ Launch(p) \/ ForeignStarts(p) \/ ForeignEnds(p)
             \/ ReadLock(p) \/ Refuse(p) \/ FindStale(p) \/ Reclaim(p) \/ OpenLock(p)
      PROVE  UNCHANGED Exclusive!vars
  <2>1. pc[p] # "holding" /\ pc'[p] # "holding" /\ \A q \in Pids \ {p} : pc'[q] = pc[q]
    BY <1>2 DEF Launch, ForeignStarts, ForeignEnds, ReadLock, Refuse, FindStale,
                Reclaim, OpenLock
  <2>2. UNCHANGED <<child, kills, raced>>
    BY <1>2 DEF Launch, ForeignStarts, ForeignEnds, ReadLock, Refuse, FindStale,
                Reclaim, OpenLock
  <2>3. Holders' = Holders
    BY <2>1
  <2>4. QED
    BY <2>2, <2>3, Unseen
<1>3. ASSUME NEW p \in Pids, WriteLock(p)
      PROVE  Exclusive!Acquire(p)
  <2>1. (~raced => Holders = {}) /\ Holders' = Holders \cup {p}
    BY <1>3 DEF WriteLock, IInv, NoRival
  <2>2. UNCHANGED <<child, kills, raced>>
    BY <1>3 DEF WriteLock
  <2>3. QED
    BY <1>1, <2>1, <2>2 DEF Exclusive!Acquire
<1>4. ASSUME NEW p \in Pids, StageStarts(p)
      PROVE  Exclusive!StartStage(p)
  <2>1. p \in Holders /\ (~raced => Holders \subseteq {p})
    BY <1>4, HoldersAreOne DEF StageStarts, IInv
  <2>2. p \notin Stages /\ Stages' = Stages \cup {p}
    BY <1>4 DEF StageStarts
  <2>3. UNCHANGED <<pc, kills, raced>>
    BY <1>4 DEF StageStarts
  <2>4. QED
    BY <1>1, <2>1, <2>2, <2>3 DEF Exclusive!StartStage
<1>5. ASSUME NEW p \in Pids, StageEnds(p)
      PROVE  Exclusive!EndStage(p)
  <2>1. p \in Stages /\ Stages' = Stages \ {p}
    BY <1>5 DEF StageEnds
  <2>2. UNCHANGED <<pc, kills, raced>>
    BY <1>5 DEF StageEnds
  <2>3. QED
    BY <2>1, <2>2 DEF Exclusive!EndStage
<1>6. ASSUME NEW p \in Pids, ExitNormally(p)
      PROVE  Exclusive!Release(p)
  <2>1. p \in Holders /\ p \notin Stages /\ Holders' = Holders \ {p}
    BY <1>6 DEF ExitNormally
  <2>2. UNCHANGED <<child, kills, raced>>
    BY <1>6 DEF ExitNormally
  <2>3. QED
    BY <2>1, <2>2 DEF Exclusive!Release
<1>7. ASSUME NEW p \in Pids, Killed(p)
      PROVE  Exclusive!Kill(p)
  <2>1. Holders' = Holders \ {p} /\ kills' # 0
    BY <1>7 DEF Killed
  <2>2. UNCHANGED <<child, raced>>
    BY <1>7 DEF Killed
  <2>3. QED
    BY <2>1, <2>2 DEF Exclusive!Kill
<1>8. ASSUME NEW p \in Pids, CheckLock(p)
      PROVE  [Exclusive!Race]_(Exclusive!vars)
  <2>1. Holders' = Holders /\ UNCHANGED <<child, kills>>
    BY <1>8 DEF CheckLock
  <2>2. raced' = raced \/ raced' = TRUE
    BY <1>8 DEF CheckLock
  <2>3. QED
    BY <2>1, <2>2, Unseen DEF Exclusive!Race
<1>9. CASE UNCHANGED vars
  BY <1>9, Unseen DEF vars
<1>10. QED
  BY <1>2, <1>3, <1>4, <1>5, <1>6, <1>7, <1>8, <1>9 DEF Next, AcquireStep, Exclusive!Next

\* The lock implements ExclusiveRuns: cut at every system call, with torn, stale and
\* foreign locks, it is one step that acquires the run and one that releases it, until
\* a step that two starts take between look and lock.
THEOREM Implements == Spec => IsExclusive
<1>1. Init => Exclusive!Init
  BY DEF Init, Exclusive!Init, Holders
<1>2. TypeOK /\ IInv /\ [Next]_vars => [Exclusive!Next]_(Exclusive!vars)
  BY ExclusiveStep
<1>3. QED
  BY <1>1, <1>2, IInvHolds, PTL DEF Spec, IsExclusive, Exclusive!Spec

\* What the promise is worth, whoever keeps it: until two starts overlap, runs exclude
\* each other, and so do stages until a runner is killed.
THEOREM PromiseExcludes == IsExclusive => [](AtMostOneHolder /\ StagesExclusive)
<1> DEFINE Stages == {p \in Pids : child[p]}
           OneRun == ~raced => \E p : Holders \subseteq {p}
           OneStage == ~raced /\ kills = 0 => \E p : Stages \subseteq {p}
<1>1. Exclusive!Init => OneRun /\ OneStage
  BY DEF Exclusive!Init
<1>2. OneRun /\ OneStage /\ [Exclusive!Next]_(Exclusive!vars) => OneRun' /\ OneStage'
  <2> SUFFICES ASSUME OneRun, OneStage, [Exclusive!Next]_(Exclusive!vars)
               PROVE  OneRun' /\ OneStage'
    OBVIOUS
  <2> HIDE DEF Stages
  <2>1. ASSUME NEW p \in Pids, Exclusive!Acquire(p) \/ Exclusive!Release(p)
        PROVE  OneRun' /\ OneStage'
    BY <2>1 DEF Exclusive!Acquire, Exclusive!Release, Stages
  <2>2. ASSUME NEW p \in Pids, Exclusive!StartStage(p) \/ Exclusive!EndStage(p)
        PROVE  OneRun' /\ OneStage'
    BY <2>2 DEF Exclusive!StartStage, Exclusive!EndStage, Stages
  <2>3. ASSUME NEW p \in Pids, Exclusive!Kill(p)
        PROVE  OneRun' /\ OneStage'
    BY <2>3 DEF Exclusive!Kill, Stages
  <2>4. CASE Exclusive!Race
    BY <2>4 DEF Exclusive!Race
  <2>5. CASE UNCHANGED Exclusive!vars
    BY <2>5 DEF Exclusive!vars, Stages
  <2>6. QED
    BY <2>1, <2>2, <2>3, <2>4, <2>5 DEF Exclusive!Next
<1>3. OneRun /\ OneStage => AtMostOneHolder /\ StagesExclusive
  BY AtMostOne DEF AtMostOneHolder, StagesExclusive
<1> HIDE DEF OneRun, OneStage
<1>4. QED
  BY <1>1, <1>2, <1>3, PTL DEF IsExclusive, Exclusive!Spec
=============================================================================
