-------------------------- MODULE Stage6CommitProofs --------------------------
(***************************************************************************)
(* Proofs about Stage 6 and the other writers of its store, for any inputs,*)
(* FBs, concepts, sources and sizes, any scopes, tolerance and bounds: type*)
(* correctness, all or nothing, what success certifies, whose the vectors  *)
(* are and what the other writers keep.                                    *)
(***************************************************************************)
EXTENDS Stage6Commit, FiniteSetTheorems, TLAPS

USE SetsAssumption, LimitsAssumption

-----------------------------------------------------------------------------
(* Lemmas *)

\* The FBs of an input, no two with one id.
LEMMA OfInput ==
    ASSUME NEW v \in Inputs
    PROVE  /\ Of(v) \subseteq FBs
           /\ \A f, g \in Of(v) : f.id = g.id => f = g
           /\ \A f \in FBs : f.id \in Ids /\ f.id \in Nat /\ f.verdict \in {g.verdict : g \in FBs}
                           /\ f.sources \subseteq Sources
BY DEF Ids, Sources

\* The ids are finitely many.
LEMMA IdsFinite == IsFiniteSet(Ids)
<1>1. DEFINE g == [f \in FBs |-> f.id]
<1>2. g \in Surjection(FBs, Ids)
  BY DEF Surjection, Ids
<1>3. QED
  <2> HIDE DEF g
  <2> QED
    BY <1>2, FS_Surjection

\* Refused rows are a number of rows.
LEMMA FailedCounted ==
    ASSUME TypeOK
    PROVE  /\ IsFiniteSet({i \in DOMAIN status : status[i] = "FAILED"})
           /\ Failed \in Nat
<1>1. {i \in DOMAIN status : status[i] = "FAILED"} \subseteq Ids
  BY DEF TypeOK, Ids
<1>2. IsFiniteSet({i \in DOMAIN status : status[i] = "FAILED"})
  BY <1>1, IdsFinite, FS_Subset
<1>3. QED
  BY <1>2, FS_CardinalityType DEF Failed

\* The last rowid is the one that no other exceeds.
LEMMA LastRowidIs ==
    ASSUME NEW s, NEW m \in Nat, m = 0 \/ \E i \in DOMAIN s : s[i].rowid = m,
           \A i \in DOMAIN s : s[i].rowid \in Nat /\ s[i].rowid <= m
    PROVE  LastRowid(s) = m
<1> DEFINE S == {0} \cup {s[i].rowid : i \in DOMAIN s}
<1>1. m \in S /\ S \subseteq Nat /\ \A y \in S : m >= y
  OBVIOUS
<1>2. LastRowid(s) = CHOOSE x \in S : \A y \in S : x >= y
  BY DEF LastRowid, Max
<1>3. LastRowid(s) \in S /\ \A y \in S : LastRowid(s) >= y
  <2> HIDE DEF S
  <2> QED
    BY <1>1, <1>2
<1>4. LastRowid(s) >= m /\ m >= LastRowid(s) /\ LastRowid(s) \in Nat
  <2> HIDE DEF S
  <2> QED
    BY <1>1, <1>3
<1>5. QED
  BY <1>4

\* It does not change with the other columns.
LEMMA LastRowidSame ==
    ASSUME NEW s, NEW t, DOMAIN s = DOMAIN t,
           \A i \in DOMAIN s : s[i].rowid = t[i].rowid
    PROVE  LastRowid(s) = LastRowid(t)
<1>1. {s[i].rowid : i \in DOMAIN s} = {t[i].rowid : i \in DOMAIN t}
  OBVIOUS
<1>2. QED
  BY <1>1 DEF LastRowid

\* What stays behind in memory when a run ends.
LEMMA EndsTyped ==
    ASSUME NEW how \in {0, 1, 2}, Ends(how)
    PROVE  /\ pc' = "idle" /\ scope' = Absent /\ batch' = {} /\ skip' = {} /\ todo' = {}
           /\ DOMAIN rows' = {} /\ DOMAIN status' = {} /\ vecs' = {} /\ advised' = {}
           /\ exit' = how
BY DEF Ends, Nothing

-----------------------------------------------------------------------------
(* Type correctness *)

\* An FB is taken off the list and gets a status.
LEMMA TakesTyped ==
    ASSUME TypeOK, NEW f \in todo, NEW outcome \in Status, Takes(f, outcome)
    PROVE  /\ pc = "tx" /\ todo' = todo \ {f}
           /\ UNCHANGED <<input, db, others, files, pc, scope, batch, skip, exit>>
           /\ DOMAIN status' = {g.id : g \in batch \ todo'}
           /\ \A i \in DOMAIN status' : status'[i] \in Status
           /\ status'[f.id] = outcome
           /\ \A g \in batch \ todo : g.id # f.id => status'[g.id] = status[g.id]
<1>1. /\ pc = "tx" /\ todo' = todo \ {f}
      /\ UNCHANGED <<input, db, others, files, pc, scope, batch, skip, exit>>
      /\ status' = [i \in DOMAIN status \cup {f.id} |->
                       IF i = f.id THEN outcome ELSE status[i]]
  BY DEF Takes
<1>2. batch \ todo' = (batch \ todo) \cup {f}
  BY <1>1 DEF TypeOK
<1>3. DOMAIN status' = {g.id : g \in batch \ todo} \cup {f.id}
  BY <1>1 DEF TypeOK
<1>4. DOMAIN status' = {g.id : g \in batch \ todo'}
  BY <1>2, <1>3
<1>5. \A i \in DOMAIN status' : status'[i] \in Status
  BY <1>1 DEF TypeOK
<1>6. QED
  BY <1>1, <1>3, <1>4, <1>5

\* A replaced or new row is a row.
LEMMA InsertTyped ==
    ASSUME TypeOK, IInv, NEW f \in todo, Insert(f)
    PROVE  /\ IsStore(rows') /\ vecs' \subseteq [rowid : Nat, id : Ids]
           /\ NewRowid \in Nat /\ NewRowid = LastRowid(rows) + 1
           /\ DOMAIN rows' = DOMAIN rows \cup {f.id}
           /\ rows'[f.id] = [rowid |-> NewRowid, verdict |-> f.verdict,
                             sources |-> f.sources, rated |-> 0]
           /\ \A i \in DOMAIN rows : i # f.id => rows'[i] = rows[i]
           /\ vecs' \subseteq Retires(f) \cup {[rowid |-> NewRowid, id |-> f.id]}
           /\ Takes(f, "INSERTED")
<1>1. pc = "tx" /\ Takes(f, "INSERTED")
  BY DEF Insert, Takes
<1>2. NewRowid \in Nat /\ NewRowid = LastRowid(rows) + 1
  BY <1>1 DEF IInv, RowsKeep, Sound, NewRowid
<1>3. /\ f \in FBs /\ f.id \in Ids /\ f.verdict \in {g.verdict : g \in FBs}
      /\ f.sources \subseteq Sources
  BY DEF TypeOK, Ids, Sources
<1>4. /\ DOMAIN rows' = DOMAIN rows \cup {f.id}
      /\ rows'[f.id] = [rowid |-> NewRowid, verdict |-> f.verdict,
                        sources |-> f.sources, rated |-> 0]
      /\ \A i \in DOMAIN rows : i # f.id => rows'[i] = rows[i]
  BY DEF Insert
<1>5. rows'[f.id] \in Row
  BY <1>2, <1>3, <1>4 DEF Row
<1>6. IsStore(rows')
  BY <1>3, <1>4, <1>5 DEF TypeOK, IsStore
<1>7. /\ vecs' \subseteq Retires(f) \cup {[rowid |-> NewRowid, id |-> f.id]}
      /\ Retires(f) \subseteq vecs
  BY DEF Insert, Retires
<1>8. [rowid |-> NewRowid, id |-> f.id] \in [rowid : Nat, id : Ids]
  BY <1>2, <1>3
<1>9. QED
  BY <1>1, <1>2, <1>4, <1>6, <1>7, <1>8 DEF TypeOK

\* An update changes one verdict.
LEMMA UpdateTyped ==
    ASSUME TypeOK, NEW f \in todo, Update(f)
    PROVE  /\ IsStore(rows') /\ DOMAIN rows' = DOMAIN rows
           /\ f.id \in DOMAIN rows /\ rows'[f.id].verdict = f.verdict
           /\ \A i \in DOMAIN rows :
                 /\ i # f.id => rows'[i] = rows[i]
                 /\ rows'[i].rowid = rows[i].rowid
                 /\ rows'[i].sources = rows[i].sources
                 /\ rows'[i].rated = rows[i].rated
<1>1. /\ f.id \in DOMAIN rows /\ f.verdict \in {g.verdict : g \in FBs}
      /\ \A i \in DOMAIN rows : rows[i] \in Row
      /\ DOMAIN rows \subseteq Ids
  BY DEF TypeOK, IsStore, Update, Scoped
<1>2. rows' = [rows EXCEPT ![f.id].verdict = f.verdict]
  BY DEF Update
<1>3. /\ DOMAIN rows' = DOMAIN rows
      /\ rows'[f.id] = [rows[f.id] EXCEPT !.verdict = f.verdict]
      /\ \A i \in DOMAIN rows : i # f.id => rows'[i] = rows[i]
  BY <1>1, <1>2
<1>4. /\ rows'[f.id] \in Row /\ rows'[f.id].verdict = f.verdict
      /\ rows'[f.id].rowid = rows[f.id].rowid
      /\ rows'[f.id].sources = rows[f.id].sources
      /\ rows'[f.id].rated = rows[f.id].rated
  BY <1>1, <1>3 DEF Row
<1>5. QED
  BY <1>1, <1>3, <1>4 DEF IsStore

\* A rating changes one number.
LEMMA RateTyped ==
    ASSUME TypeOK, NEW i \in Ids, Rate(i)
    PROVE  /\ IsStore(store') /\ DOMAIN store' = DOMAIN store
           /\ i \in DOMAIN store /\ store'[i].rated = ledger[i] + 1
           /\ ledger' = [ledger EXCEPT ![i] = @ + 1]
           /\ \A j \in DOMAIN store :
                 /\ j # i => store'[j] = store[j]
                 /\ store'[j].rowid = store[j].rowid
                 /\ store'[j].sources = store[j].sources
                 /\ store'[j].verdict = store[j].verdict
<1>1. /\ i \in DOMAIN store /\ ledger[i] + 1 \in Nat
      /\ \A j \in DOMAIN store : store[j] \in Row
      /\ DOMAIN store \subseteq Ids
  BY DEF TypeOK, IsStore, Rate
<1>2. /\ store' = [store EXCEPT ![i].rated = ledger[i] + 1]
      /\ ledger' = [ledger EXCEPT ![i] = @ + 1]
  BY DEF Rate
<1>3. /\ DOMAIN store' = DOMAIN store
      /\ store'[i] = [store[i] EXCEPT !.rated = ledger[i] + 1]
      /\ \A j \in DOMAIN store : j # i => store'[j] = store[j]
  BY <1>1, <1>2
<1>4. /\ store'[i] \in Row /\ store'[i].rated = ledger[i] + 1
      /\ store'[i].rowid = store[i].rowid
      /\ store'[i].sources = store[i].sources
      /\ store'[i].verdict = store[i].verdict
  BY <1>1, <1>3 DEF Row
<1>5. QED
  BY <1>1, <1>2, <1>3, <1>4 DEF IsStore

\* The accumulator takes nothing from the rows it has read but what was brought since.
LEMMA ApplyTyped ==
    ASSUME TypeOK, IInv, ApplyEvidence
    PROVE  /\ IsStore(store') /\ DOMAIN store' = DOMAIN store
           /\ \A j \in DOMAIN store :
                 /\ store'[j].rowid = store[j].rowid
                 /\ store'[j].verdict = store[j].verdict
                 /\ store'[j].rated = store[j].rated
                 /\ store[j].sources \ brought[j] \subseteq store'[j].sources
<1>1. /\ \A j \in DOMAIN store : store[j] \in Row
      /\ DOMAIN store \subseteq Ids
      /\ seen # Absent /\ \A j \in DOMAIN seen : seen[j] \subseteq Sources
  BY DEF TypeOK, IsStore, ApplyEvidence
<1>2. store' = [j \in DOMAIN store |->
                   IF j \in DOMAIN seen /\ Cardinality(Group(j)) > 1
                   THEN [store[j] EXCEPT !.sources = Union(j)] ELSE store[j]]
  BY DEF ApplyEvidence
<1>3. \A j \in DOMAIN seen : /\ store[j].sources \ brought[j] \subseteq Union(j)
                             /\ Union(j) \subseteq Sources
  BY <1>1 DEF IInv, SeenCovers, Union, Group
<1>4. ASSUME NEW j \in DOMAIN store
      PROVE  /\ store'[j] \in Row
             /\ store'[j].rowid = store[j].rowid
             /\ store'[j].verdict = store[j].verdict
             /\ store'[j].rated = store[j].rated
             /\ store[j].sources \ brought[j] \subseteq store'[j].sources
  <2>1. CASE j \in DOMAIN seen /\ Cardinality(Group(j)) > 1
    <3>1. store'[j] = [store[j] EXCEPT !.sources = Union(j)]
      BY <1>2, <2>1
    <3>2. QED
      BY <1>1, <1>3, <2>1, <3>1 DEF Row
  <2>2. CASE ~(j \in DOMAIN seen /\ Cardinality(Group(j)) > 1)
    BY <1>1, <1>2, <2>2
  <2>3. QED
    BY <2>1, <2>2
<1>5. QED
  BY <1>1, <1>2, <1>4 DEF IsStore

\* No step breaks the types.
LEMMA TypeOKStep == TypeOK /\ IInv /\ [Next]_vars => TypeOK'
<1> SUFFICES ASSUME TypeOK, IInv, [Next]_vars
             PROVE  TypeOK'
  OBVIOUS
<1> USE DEF db, tx, memory, files, others, Goes
<1>1. CASE Load
  <2>1. Of(input) \subseteq FBs /\ batch = {} /\ todo = {} /\ DOMAIN status = {}
    BY <1>1, OfInput DEF TypeOK, Load, IInv, RunsOverInput
  <2>2. {g.id : g \in batch' \ todo'} = {}
    BY <1>1 DEF Load
  <2>3. QED
    BY <1>1, <2>1, <2>2 DEF TypeOK, Load, TierStored
<1>2. CASE Begin
  BY <1>2 DEF TypeOK, Begin
<1>3. ASSUME NEW f \in todo, Skip(f) \/ Update(f) \/ Insert(f) \/ RefuseRow(f)
      PROVE  TypeOK'
  <2>1. ASSUME NEW outcome \in Status, Takes(f, outcome), IsStore(rows'),
               vecs' \subseteq [rowid : Nat, id : Ids], failures' \in 0..MaxFailures,
               advised' \subseteq batch
        PROVE  TypeOK'
    BY <2>1, TakesTyped DEF TypeOK
  <2>2. CASE Skip(f)
    BY <2>1, <2>2 DEF TypeOK, Skip, Status
  <2>3. CASE Update(f)
    BY <2>1, <2>3, UpdateTyped DEF TypeOK, Update, Status
  <2>4. CASE Insert(f)
    <3>1. failures' \in 0..MaxFailures /\ advised' \subseteq batch
      BY <2>4 DEF TypeOK, Insert, Decide, Fails
    <3>2. QED
      BY <2>1, <2>4, <3>1, InsertTyped DEF Status
  <2>5. CASE RefuseRow(f)
    BY <2>1, <2>5 DEF TypeOK, RefuseRow, Decide, Status, Fails
  <2>6. QED
    BY <1>3, <2>2, <2>3, <2>4, <2>5
<1>4. CASE Commit
  <2>1. \A i \in DOMAIN store : i \in DOMAIN rows /\ rows[i].sources \subseteq Sources
    BY <1>4 DEF Commit, IInv, RowsKeep, TypeOK, IsStore, Row
  <2>2. brought' \in [Ids -> SUBSET Sources]
    BY <2>1, <1>4 DEF Commit, NotesBrought, TypeOK
  <2>3. QED
    BY <1>4, <2>2 DEF TypeOK, Commit
<1>5. CASE Rollback
  <2>1. IsStore(rows')
    BY <1>5 DEF Rollback, IsStore, Nothing
  <2>2. QED
    BY <1>5, <2>1 DEF TypeOK, Rollback
<1>6. ASSUME NEW how \in {0, 1, 2}, Ends(how), UNCHANGED <<input, db, others, files>>,
             failures' \in 0..MaxFailures
      PROVE  TypeOK'
  <2>1. IsStore(rows') /\ {g.id : g \in batch' \ todo'} = {}
    BY <1>6, EndsTyped DEF IsStore
  <2>2. QED
    BY <1>6, <2>1, EndsTyped DEF TypeOK
<1>7. CASE CheckIntegrity
  <2>1. CASE Orphans = {}
    BY <1>7, <2>1 DEF TypeOK, CheckIntegrity
  <2>2. CASE Orphans # {}
    BY <1>6, <1>7, <2>2 DEF TypeOK, CheckIntegrity
  <2>3. QED
    BY <2>1, <2>2
<1>8. CASE WriteRecord
  <2>1. /\ DOMAIN record' = DOMAIN status
        /\ \A i \in DOMAIN record' : record'[i] \in Status
    BY <1>8 DEF TypeOK, WriteRecord, Status
  <2>2. DOMAIN status \subseteq Ids
    BY DEF TypeOK, Ids
  <2>3. QED
    BY <1>8, <2>1, <2>2 DEF TypeOK, WriteRecord
<1>9. CASE WriteRefused \/ Exit
  BY <1>6, <1>9 DEF TypeOK, WriteRefused, Exit
<1>10. CASE Crash
  BY <1>6, <1>10 DEF TypeOK, Crash, Fails
<1>11. CASE NewInput
  BY <1>11 DEF TypeOK, NewInput
<1>12. ASSUME NEW i \in Ids, Rate(i)
       PROVE  TypeOK'
  <2>1. ledger' \in [Ids -> 0..MaxRatings]
    BY <1>12 DEF TypeOK, Rate
  <2>2. QED
    BY <1>12, <2>1, RateTyped DEF TypeOK, Rate
<1>13. CASE ReadEvidence
  <2>1. \A i \in DOMAIN store : store[i].sources \subseteq Sources
    BY DEF TypeOK, IsStore, Row
  <2>2. QED
    BY <1>13, <2>1 DEF TypeOK, ReadEvidence, NoneBrought, IsStore
<1>14. CASE ApplyEvidence
  BY <1>14, ApplyTyped DEF TypeOK, ApplyEvidence, NoneBrought
<1>15. CASE UNCHANGED vars
  BY <1>15 DEF TypeOK, vars
<1>16. CASE WriteTierReceipt \/ WriteGateReceipt
  <2>1. TierSize(input, skip) \in Nat /\ GateSize(advised) \in Nat
    BY SizesAssumption DEF TypeOK
  <2>2. QED
    BY <1>16, <2>1 DEF TypeOK, WriteTierReceipt, WriteGateReceipt
<1>17. QED
  BY <1>1, <1>2, <1>3, <1>4, <1>5, <1>7, <1>8, <1>9, <1>10, <1>11, <1>12, <1>13, <1>14, <1>15,
     <1>16
     DEF Next, StageStep, RowStep

-----------------------------------------------------------------------------
(* The inductive invariant *)

LEMMA InitInv == Init => TypeOK /\ IInv
<1> SUFFICES ASSUME Init
             PROVE  TypeOK /\ IInv
  OBVIOUS
<1>1. /\ DOMAIN store = {} /\ DOMAIN rows = {} /\ DOMAIN status = {}
      /\ vectors = {} /\ vecs = {} /\ batch = {} /\ todo = {} /\ skip = {}
  BY DEF Init, Nothing
<1>2. TypeOK
  <2>1. /\ input \in Inputs /\ ledger \in [Ids -> 0..MaxRatings]
        /\ brought \in [Ids -> SUBSET Sources] /\ receipts \in [tier : Nat, gate : Nat]
    BY DEF Init, NoneBrought
  <2>2. IsStore(store) /\ IsStore(rows) /\ {f.id : f \in batch \ todo} = {}
    BY <1>1 DEF IsStore
  <2>3. QED
    BY <1>1, <2>1, <2>2 DEF Init, TypeOK
<1>3. LastRowid(store) = 0
  BY <1>1, LastRowidIs
<1>4. Sound(store, vectors)
  BY <1>1, <1>3 DEF Sound, Own
<1>5. exit # 0
  BY DEF Init
<1>6. QED
  BY <1>1, <1>2, <1>4, <1>5
     DEF Init, IInv, RunsOverInput, RowsKeep, SeenCovers, Takings, CertifiedStored

\* A run that ends, if its FBs are stored when it exits 0, leaves a table that
\* nobody is writing to.
LEMMA EndsInv ==
    ASSUME TypeOK, IInv, NEW how \in {0, 1, 2}, Ends(how),
           UNCHANGED <<input, db, others, files>>,
           how = 0 => Holds(store, Of(input))
    PROVE  IInv'
<1> USE DEF db, others
<1>1. Sound(store, vectors)' /\ SeenCovers'
  BY DEF IInv, Sound, SeenCovers
<1>2. RunsOverInput' /\ RowsKeep' /\ Takings'
  BY EndsTyped DEF RunsOverInput, RowsKeep, Takings
<1>3. CertifiedStored'
  BY EndsTyped DEF CertifiedStored
<1>4. QED
  BY <1>1, <1>2, <1>3 DEF IInv

\* One FB after the other is taken, and the rest of the transaction stays.
LEMMA TakeInv ==
    ASSUME TypeOK, IInv, NEW f \in todo, NEW outcome \in Status, Takes(f, outcome),
           Sound(rows, vecs)',
           \A i \in DOMAIN store :
              /\ i \in DOMAIN rows'
              /\ scope # "full_upsert" => /\ rows'[i].sources = store[i].sources
                                          /\ rows'[i].rated = store[i].rated,
           \A g \in batch : g.id # f.id /\ Holds(rows, {g}) => Holds(rows', {g}),
           outcome # "FAILED" => Holds(rows', {f})
    PROVE  IInv'
<1> USE DEF db, others
<1>1. /\ pc = "tx" /\ todo' = todo \ {f}
      /\ UNCHANGED <<input, db, others, files, pc, scope, batch, skip, exit>>
      /\ status'[f.id] = outcome
      /\ \A g \in batch \ todo : g.id # f.id => status'[g.id] = status[g.id]
  BY TakesTyped
<1>2. RunsOverInput' /\ CertifiedStored' /\ SeenCovers'
  BY <1>1 DEF IInv, RunsOverInput, CertifiedStored, SeenCovers
<1>3. Sound(store, vectors)'
  BY <1>1 DEF IInv, Sound
<1>4. RowsKeep'
  BY <1>1 DEF RowsKeep
<1>5. Takings'
  <2>1. \A g \in batch : g.id = f.id => g = f
    BY <1>1, OfInput DEF TypeOK, IInv, RunsOverInput
  <2>2. ASSUME NEW g \in batch', g \notin todo', status'[g.id] # "FAILED"
        PROVE  Holds(rows', {g})
    <3>1. CASE g = f
      BY <1>1, <2>2, <3>1
    <3>2. CASE g # f
      <4>1. g \in batch \ todo /\ g.id # f.id
        BY <1>1, <2>1, <2>2, <3>2
      <4>2. Holds(rows, {g})
        BY <1>1, <2>2, <4>1 DEF IInv, Takings, TookEffect
      <4>3. QED
        BY <4>1, <4>2
    <3>3. QED
      BY <3>1, <3>2
  <2>3. TookEffect(rows)'
    BY <2>2 DEF TookEffect, Holds
  <2>4. QED
    BY <1>1, <2>3 DEF Takings
<1>6. QED
  BY <1>2, <1>3, <1>4, <1>5 DEF IInv

\* An update leaves everything of the row but its verdict.
LEMMA UpdateInv ==
    ASSUME TypeOK, IInv, NEW f \in todo, Update(f)
    PROVE  IInv'
<1>1. pc = "tx" /\ Takes(f, "UPDATED") /\ vecs' = vecs /\ ledger' = ledger
  BY DEF Update, Takes, others
<1>2. /\ DOMAIN rows' = DOMAIN rows /\ f.id \in DOMAIN rows /\ rows'[f.id].verdict = f.verdict
      /\ \A i \in DOMAIN rows :
            /\ i # f.id => rows'[i] = rows[i]
            /\ rows'[i].rowid = rows[i].rowid
            /\ rows'[i].sources = rows[i].sources
            /\ rows'[i].rated = rows[i].rated
  BY UpdateTyped
<1>3. LastRowid(rows') = LastRowid(rows)
  BY <1>2, LastRowidSame
<1>4. Sound(rows, vecs)'
  BY <1>1, <1>2, <1>3 DEF IInv, RowsKeep, Sound, Own
<1>5. \A i \in DOMAIN store :
         /\ i \in DOMAIN rows'
         /\ scope # "full_upsert" => /\ rows'[i].sources = store[i].sources
                                     /\ rows'[i].rated = store[i].rated
  BY <1>1, <1>2 DEF IInv, RowsKeep
<1>6. /\ \A g \in batch : g.id # f.id /\ Holds(rows, {g}) => Holds(rows', {g})
      /\ Holds(rows', {f})
  BY <1>2 DEF Holds
<1>7. QED
  BY <1>1, <1>4, <1>5, <1>6, TakeInv DEF Status

\* A row that is replaced or new has a rowid above all others, and takes the vector
\* of its old one along; it replaces none of the store in the verification scope.
LEMMA InsertInv ==
    ASSUME TypeOK, IInv, NEW f \in todo, Insert(f)
    PROVE  IInv'
<1>1. /\ pc = "tx" /\ Takes(f, "INSERTED") /\ ledger' = ledger /\ f.id \in Ids
      /\ ~Scoped(f)
  BY DEF Insert, Takes, others, TypeOK, Ids
<1>2. /\ IsStore(rows') /\ NewRowid \in Nat /\ NewRowid = LastRowid(rows) + 1
      /\ DOMAIN rows' = DOMAIN rows \cup {f.id}
      /\ rows'[f.id] = [rowid |-> NewRowid, verdict |-> f.verdict,
                        sources |-> f.sources, rated |-> 0]
      /\ \A i \in DOMAIN rows : i # f.id => rows'[i] = rows[i]
      /\ vecs' \subseteq Retires(f) \cup {[rowid |-> NewRowid, id |-> f.id]}
  BY InsertTyped
<1>3. Sound(rows, vecs) /\ LastRowid(rows) \in Nat
  BY <1>1 DEF IInv, RowsKeep, Sound
<1>4. \A i \in DOMAIN rows' : rows'[i].rowid \in Nat /\ rows'[i].rowid <= NewRowid
  <2>1. \A i \in DOMAIN rows : rows[i].rowid \in Nat /\ rows[i].rowid <= LastRowid(rows)
    BY <1>3 DEF Sound, TypeOK, IsStore, Row
  <2>2. QED
    BY <1>2, <1>3, <2>1
<1>5. LastRowid(rows') = NewRowid
  <2>1. \E i \in DOMAIN rows' : rows'[i].rowid = NewRowid
    BY <1>2
  <2>2. QED
    BY <1>2, <1>4, <2>1, LastRowidIs
<1>6. Own(vecs', rows')
  <2> SUFFICES ASSUME NEW v \in vecs'
               PROVE  v.id \in DOMAIN rows' /\ rows'[v.id].rowid = v.rowid
    BY DEF Own
  <2>1. CASE v = [rowid |-> NewRowid, id |-> f.id]
    BY <1>2, <2>1
  <2>2. CASE v \in Retires(f)
    <3>1. v \in vecs /\ v.id \in DOMAIN rows /\ rows[v.id].rowid = v.rowid
      BY <1>3, <2>2 DEF Retires, Sound, Own
    <3>2. v.id # f.id
      BY <2>2, <3>1 DEF Retires
    <3>3. QED
      BY <1>2, <3>1, <3>2
  <2>3. QED
    BY <1>2, <2>1, <2>2
<1>7. Sound(rows, vecs)'
  <2>1. \A i \in DOMAIN rows' : rows'[i].rated <= ledger[i]
    BY <1>1, <1>2, <1>3 DEF Sound, TypeOK
  <2>2. QED
    BY <1>1, <1>2, <1>4, <1>5, <1>6, <2>1 DEF Sound
<1>8. \A i \in DOMAIN store :
         /\ i \in DOMAIN rows'
         /\ scope # "full_upsert" => /\ rows'[i].sources = store[i].sources
                                     /\ rows'[i].rated = store[i].rated
  <2> SUFFICES ASSUME NEW i \in DOMAIN store
               PROVE  /\ i \in DOMAIN rows'
                      /\ scope # "full_upsert" => /\ rows'[i].sources = store[i].sources
                                                  /\ rows'[i].rated = store[i].rated
    OBVIOUS
  <2>1. i \in DOMAIN rows
    BY <1>1 DEF IInv, RowsKeep
  <2>2. CASE i # f.id
    BY <1>1, <1>2, <2>1, <2>2 DEF IInv, RowsKeep
  <2>3. CASE i = f.id
    <3>1. scope = "full_upsert"
      BY <1>1, <2>1, <2>3 DEF Scoped, IInv, RunsOverInput
    <3>2. QED
      BY <1>2, <2>1, <2>3, <3>1
  <2>4. QED
    BY <2>2, <2>3
<1>9. /\ \A g \in batch : g.id # f.id /\ Holds(rows, {g}) => Holds(rows', {g})
      /\ Holds(rows', {f})
  BY <1>2 DEF Holds
<1>10. QED
  BY <1>1, <1>7, <1>8, <1>9, TakeInv DEF Status

\* Neither does a row that is skipped, which the store has, or refused.
LEMMA PassInv ==
    ASSUME TypeOK, IInv, NEW f \in todo, Skip(f) \/ RefuseRow(f)
    PROVE  IInv'
<1>1. pc = "tx" /\ UNCHANGED <<rows, vecs, ledger>>
  BY DEF Skip, RefuseRow, Takes, others
<1>2. Sound(rows, vecs)'
  BY <1>1 DEF IInv, RowsKeep, Sound
<1>3. \A i \in DOMAIN store :
         /\ i \in DOMAIN rows'
         /\ scope # "full_upsert" => /\ rows'[i].sources = store[i].sources
                                     /\ rows'[i].rated = store[i].rated
  BY <1>1 DEF IInv, RowsKeep
<1>4. \A g \in batch : Holds(rows, {g}) => Holds(rows', {g})
  BY <1>1
<1>5. CASE Skip(f)
  <2>1. f.id \in DOMAIN rows' /\ f.id \in Tier
    BY <1>3, <1>5 DEF Skip, IInv, RunsOverInput, TypeOK
  <2>2. Holds(rows', {f})
    BY <2>1 DEF Holds
  <2>3. QED
    BY <1>2, <1>3, <1>4, <1>5, <2>2, TakeInv DEF Skip, Status
<1>6. CASE RefuseRow(f)
  BY <1>2, <1>3, <1>4, <1>6, TakeInv DEF RefuseRow, Status
<1>7. QED
  BY <1>5, <1>6

\* Nor do the other writers, who come between transactions only.
LEMMA OthersInv ==
    ASSUME TypeOK, IInv, pc # "tx", DOMAIN store' = DOMAIN store,
           \A j \in DOMAIN store :
              /\ store'[j].rowid = store[j].rowid
              /\ store'[j].verdict = store[j].verdict
              /\ store'[j].rated <= ledger'[j],
           UNCHANGED <<input, vectors, pc, memory, exit>>, SeenCovers'
    PROVE  IInv'
<1> USE DEF memory, tx
<1>1. LastRowid(store') = LastRowid(store)
  BY LastRowidSame
<1>2. Sound(store, vectors)'
  BY <1>1 DEF IInv, Sound, Own
<1>3. \A fbs : Holds(store, fbs) => Holds(store', fbs)
  BY DEF Holds
<1>4. Takings'
  <2>1. TookEffect(store) => TookEffect(store)'
    BY <1>3 DEF TookEffect
  <2>2. QED
    BY <2>1 DEF IInv, Takings, Failed
<1>5. RunsOverInput' /\ RowsKeep' /\ CertifiedStored'
  BY <1>3 DEF IInv, RunsOverInput, RowsKeep, CertifiedStored
<1>6. QED
  BY <1>2, <1>4, <1>5 DEF IInv

\* At its end a transaction that is committed has put everything in the table that
\* was not refused.
LEMMA CommitInv ==
    ASSUME TypeOK, IInv, Commit
    PROVE  IInv'
<1> USE DEF db, tx, memory, files, others, Goes
<1>1. /\ pc = "tx" /\ pc' = "committed" /\ todo = {}
      /\ store' = rows /\ vectors' = vecs
      /\ UNCHANGED <<input, ledger, seen, batch, skip, todo, status, scope, exit>>
  BY DEF Commit
<1>2. Sound(store, vectors)'
  BY <1>1 DEF IInv, RowsKeep, Sound
<1>3. \A i \in DOMAIN store : /\ i \in DOMAIN rows
                              /\ scope # "full_upsert" => rows[i].sources = store[i].sources
  BY <1>1 DEF IInv, RowsKeep
<1>4. SeenCovers'
  <2> SUFFICES ASSUME seen # Absent, NEW i \in DOMAIN seen
               PROVE  i \in DOMAIN rows /\ rows[i].sources \subseteq seen[i] \cup brought'[i]
    BY <1>1 DEF SeenCovers
  <2>1. /\ i \in DOMAIN store /\ i \in Ids /\ i \in DOMAIN rows
        /\ store[i].sources \subseteq seen[i] \cup brought[i]
    BY <1>3 DEF IInv, SeenCovers, TypeOK, IsStore
  <2>2. CASE scope = "full_upsert"
    <3>1. brought'[i] = brought[i] \cup (rows[i].sources \ store[i].sources)
      BY <2>1, <2>2 DEF Commit, NotesBrought
    <3>2. QED
      BY <2>1, <3>1
  <2>3. CASE scope # "full_upsert"
    <3>1. brought' = brought
      BY <2>3 DEF Commit, NotesBrought
    <3>2. QED
      BY <1>3, <2>1, <2>3, <3>1
  <2>4. QED
    BY <2>2, <2>3
<1>5. RunsOverInput'
  BY <1>1, <1>3 DEF IInv, RunsOverInput
<1>6. Takings'
  BY <1>1 DEF IInv, Takings, TookEffect
<1>7. RowsKeep' /\ CertifiedStored'
  BY <1>1 DEF IInv, RunsOverInput, RowsKeep, CertifiedStored
<1>8. QED
  BY <1>2, <1>4, <1>5, <1>6, <1>7 DEF IInv

\* A run without a refused row exits 0, and has stored its FBs.
LEMMA ExitInv ==
    ASSUME TypeOK, IInv, Exit
    PROVE  IInv'
<1>1. /\ pc = "exit" /\ UNCHANGED <<input, db, others, files>>
      /\ \E how \in {0, 1, 2} : Ends(how) /\ (how = 0 => Failed <= 0)
  BY FailedCounted DEF Exit
<1>2. Failed = 0 => Holds(store, Of(input))
  <2> SUFFICES ASSUME Failed = 0
               PROVE  Holds(store, Of(input))
    OBVIOUS
  <2>1. {i \in DOMAIN status : status[i] = "FAILED"} = {}
    BY FailedCounted, FS_EmptySet DEF Failed
  <2>2. TookEffect(store) /\ batch = Of(input) /\ todo = {}
    BY <1>1 DEF IInv, Takings, RunsOverInput
  <2>3. \A f \in batch : f.id \in DOMAIN status
    BY <2>2 DEF TypeOK
  <2>4. \A f \in batch : Holds(store, {f})
    BY <2>1, <2>2, <2>3 DEF TookEffect
  <2>5. QED
    BY <2>2, <2>4 DEF Holds
<1>3. QED
  BY <1>1, <1>2, FailedCounted, EndsInv

\* Every step of the commit, a crash included, keeps the inductive invariant.
LEMMA IInvStep == TypeOK /\ IInv /\ [Next]_vars => IInv'
<1> SUFFICES ASSUME TypeOK, IInv, [Next]_vars
             PROVE  IInv'
  OBVIOUS
<1> USE DEF db, tx, memory, files, others, Goes
<1>1. ASSUME UNCHANGED <<store, vectors, ledger, seen, brought>>
      PROVE  Sound(store, vectors)' /\ SeenCovers'
  BY <1>1 DEF IInv, Sound, SeenCovers
<1>2. CASE Load
  <2>1. RunsOverInput'
    BY <1>2 DEF Load, TierStored, RunsOverInput
  <2>2. RowsKeep' /\ Takings' /\ CertifiedStored'
    BY <1>2 DEF Load, RowsKeep, Takings, CertifiedStored
  <2>3. QED
    BY <1>1, <1>2, <2>1, <2>2 DEF Load, IInv
<1>3. CASE Begin
  <2>1. Sound(rows, vecs)'
    BY <1>3 DEF Begin, IInv, Sound
  <2>2. RowsKeep'
    BY <1>3, <2>1 DEF Begin, RowsKeep
  <2>3. Takings'
    <3>1. batch \ todo = {}
      BY <1>3 DEF Begin, IInv, RunsOverInput
    <3>2. QED
      BY <1>3, <3>1 DEF Begin, Takings, TookEffect
  <2>4. RunsOverInput' /\ CertifiedStored'
    BY <1>3 DEF Begin, IInv, RunsOverInput, CertifiedStored
  <2>5. QED
    BY <1>1, <1>3, <2>2, <2>3, <2>4 DEF Begin, IInv
<1>4. ASSUME NEW f \in todo, Skip(f) \/ Update(f) \/ Insert(f) \/ RefuseRow(f)
      PROVE  IInv'
  BY <1>4, PassInv, UpdateInv, InsertInv
<1>5. CASE Rollback
  <2>1. Failed' = Failed /\ ~(Failed <= MaxFailed)
    BY <1>5, FailedCounted DEF Rollback, Failed
  <2>2. Takings' /\ RowsKeep'
    BY <1>5, <2>1 DEF Rollback, Takings, RowsKeep
  <2>3. RunsOverInput' /\ CertifiedStored'
    BY <1>5 DEF Rollback, IInv, RunsOverInput, CertifiedStored
  <2>4. QED
    BY <1>1, <1>5, <2>2, <2>3 DEF Rollback, IInv
<1>6. CASE CheckIntegrity
  <2>1. CASE Orphans = {}
    <3>1. Takings' /\ RowsKeep' /\ RunsOverInput' /\ CertifiedStored'
      BY <1>6, <2>1 DEF CheckIntegrity, IInv, Takings, TookEffect, Failed, RowsKeep,
                        RunsOverInput, CertifiedStored
    <3>2. QED
      BY <1>1, <1>6, <3>1 DEF CheckIntegrity, IInv
  <2>2. CASE Orphans # {}
    BY <1>6, <2>2, EndsInv DEF CheckIntegrity
  <2>3. QED
    BY <2>1, <2>2
<1>7. CASE WriteRecord \/ WriteTierReceipt \/ WriteGateReceipt
  <2>1. Takings' /\ RowsKeep' /\ RunsOverInput' /\ CertifiedStored'
    BY <1>7 DEF WriteRecord, WriteTierReceipt, WriteGateReceipt, IInv, Takings, TookEffect,
                Failed, RowsKeep, RunsOverInput, CertifiedStored
  <2>2. QED
    BY <1>1, <1>7, <2>1 DEF WriteRecord, WriteTierReceipt, WriteGateReceipt, IInv
<1>8. CASE WriteRefused \/ Crash
  BY <1>8, EndsInv DEF WriteRefused, Crash
<1>9. CASE NewInput
  <2>1. RunsOverInput' /\ RowsKeep' /\ Takings' /\ CertifiedStored'
    BY <1>9 DEF NewInput, IInv, RunsOverInput, RowsKeep, Takings, CertifiedStored
  <2>2. QED
    BY <1>1, <1>9, <2>1 DEF NewInput, IInv
<1>10. ASSUME NEW i \in Ids, Rate(i)
       PROVE  IInv'
  <2>1. \A j \in DOMAIN store : store'[j].rated <= ledger'[j]
    BY <1>10, RateTyped DEF TypeOK, IInv, Sound, IsStore
  <2>2. SeenCovers'
    BY <1>10, RateTyped DEF Rate, IInv, SeenCovers
  <2>3. QED
    BY <1>10, <2>1, <2>2, RateTyped, OthersInv DEF Rate, Unlocked
<1>11. CASE ReadEvidence
  <2>1. SeenCovers'
    BY <1>11 DEF ReadEvidence, SeenCovers
  <2>2. Sound(store, vectors)' /\ RowsKeep' /\ Takings' /\ RunsOverInput' /\ CertifiedStored'
    BY <1>11 DEF ReadEvidence, IInv, Sound, Takings, TookEffect, Failed, RowsKeep,
                 RunsOverInput, CertifiedStored
  <2>3. QED
    BY <2>1, <2>2 DEF IInv
<1>12. CASE ApplyEvidence
  <2>1. /\ SeenCovers' /\ pc # "tx"
        /\ \A j \in DOMAIN store : store'[j].rated <= ledger'[j]
    BY <1>12, ApplyTyped DEF ApplyEvidence, Unlocked, IInv, Sound, SeenCovers
  <2>2. QED
    BY <1>12, <2>1, ApplyTyped, OthersInv DEF ApplyEvidence
<1>13. CASE UNCHANGED vars
  <2>1. Takings' /\ RowsKeep' /\ RunsOverInput' /\ CertifiedStored'
    BY <1>13 DEF vars, IInv, Takings, TookEffect, Failed, RowsKeep, Sound,
                 RunsOverInput, CertifiedStored
  <2>2. QED
    BY <1>1, <1>13, <2>1 DEF vars, IInv
<1>14. CASE Commit \/ Exit
  BY <1>14, CommitInv, ExitInv
<1>15. QED
  BY <1>2, <1>3, <1>4, <1>5, <1>6, <1>7, <1>8, <1>9, <1>10, <1>11, <1>12, <1>13, <1>14
     DEF Next, StageStep, RowStep

\* The type and the inductive invariant hold in every reachable state.
LEMMA Inductive == Spec => [](TypeOK /\ IInv)
<1>1. TypeOK /\ IInv /\ [Next]_vars => (TypeOK /\ IInv)'
  BY TypeOKStep, IInvStep
<1>2. QED
  BY InitInv, <1>1, PTL DEF Spec

-----------------------------------------------------------------------------
(* The theorems *)

\* Every variable of Stage 6 and of the other writers has its type.
THEOREM TypeCorrect == Spec => []TypeOK
BY Inductive, PTL

\* A run that exits 0 left all its FBs in the store.
THEOREM SuccessIsStored == Spec => []CertifiedStored
<1>1. IInv => CertifiedStored
  BY DEF IInv
<1>2. QED
  BY Inductive, <1>1, PTL

\* Every vector is its row's.
THEOREM VectorsAreOwn == Spec => []VectorsOwn
<1>1. IInv => VectorsOwn
  BY DEF IInv, Sound, VectorsOwn
<1>2. QED
  BY Inductive, <1>1, PTL

\* Only a commit changes the store while a transaction is open.
LEMMA CommitsOnly ==
    ASSUME [Next]_vars, pc = "tx", store' # store
    PROVE  Commit
<1> USE DEF db, others, Goes
<1>1. CASE UNCHANGED vars
  BY <1>1 DEF vars
<1>2. CASE Next
  BY <1>2 DEF Next, StageStep, RowStep, Load, Begin, Skip, Update, Insert, RefuseRow, Takes,
              Rollback, CheckIntegrity, WriteRecord, WriteTierReceipt, WriteGateReceipt, WriteRefused, Exit, Crash, NewInput,
              Rate, ReadEvidence, ApplyEvidence, Unlocked
<1>3. QED
  BY <1>1, <1>2

\* A commit puts all FBs of the run in the store, but for those that were refused.
LEMMA CommitStores ==
    ASSUME TypeOK, IInv, Commit
    PROVE  \E missing \in SUBSET batch :
              /\ Cardinality(missing) <= MaxFailed
              /\ Holds(store', batch \ missing)
<1> DEFINE refused == {i \in DOMAIN status : status[i] = "FAILED"}
           missing == {f \in batch : f.id \in refused}
<1>1. /\ pc = "tx" /\ todo = {} /\ store' = rows
      /\ Failed = Cardinality(refused) /\ Failed <= MaxFailed
  BY DEF Commit, Goes, Failed
<1>2. IsFiniteSet(refused) /\ Cardinality(refused) \in Nat
  BY FailedCounted DEF Failed
<1>3. \A f, g \in missing : f.id = g.id => f = g
  BY <1>1, OfInput DEF TypeOK, IInv, RunsOverInput
<1>4. IsFiniteSet(missing) /\ Cardinality(missing) <= Cardinality(refused)
  <2>1. [f \in missing |-> f.id] \in Injection(missing, refused)
    BY <1>3 DEF Injection, IsInjective
  <2> HIDE DEF missing, refused
  <2>2. QED
    BY <1>2, <2>1, FS_Injection
<1>5. Cardinality(missing) <= MaxFailed
  <2>1. Cardinality(missing) \in Nat
    BY <1>4, FS_CardinalityType
  <2> HIDE DEF missing, refused
  <2>2. QED
    BY <1>1, <1>2, <1>4, <2>1
<1>6. Holds(store', batch \ missing)
  <2>1. \A f \in batch : f.id \in DOMAIN status
    BY <1>1 DEF TypeOK
  <2>2. \A f \in batch \ missing : Holds(rows, {f})
    BY <1>1, <2>1 DEF IInv, Takings, TookEffect
  <2>3. QED
    BY <1>1, <2>2 DEF Holds
<1>7. QED
  BY <1>5, <1>6

\* A transaction changes nothing or does all that the tolerance asks for.
THEOREM CommitIsAtomic == Spec => AllOrNothing
<1>1. TypeOK /\ IInv /\ [Next]_vars =>
        [pc = "tx" /\ store' # store =>
            \E missing \in SUBSET batch :
               /\ Cardinality(missing) <= MaxFailed
               /\ Holds(store', batch \ missing)]_vars
  BY CommitsOnly, CommitStores
<1>2. QED
  BY Inductive, <1>1, PTL DEF Spec, AllOrNothing

\* Outside the full scope nothing takes a rating away, or a source that no full_upsert
\* brought while the accumulator was between its read and its write.
THEOREM OthersAreKept == Spec => OthersKept
<1>1. TypeOK /\ IInv /\ [Next]_vars =>
        [scope # "full_upsert" =>
            \A i \in DOMAIN store :
               /\ i \in DOMAIN store'
               /\ store[i].sources \ brought[i] \subseteq store'[i].sources
               /\ store[i].rated <= store'[i].rated]_vars
  <2> SUFFICES ASSUME TypeOK, IInv, Next, scope # "full_upsert", NEW i \in DOMAIN store
               PROVE  /\ i \in DOMAIN store'
                      /\ store[i].sources \ brought[i] \subseteq store'[i].sources
                      /\ store[i].rated <= store'[i].rated
    OBVIOUS
  <2>1. store[i] \in Row /\ store[i].rated \in Nat /\ i \in Ids
    BY DEF TypeOK, IsStore, Row
  <2>2. CASE store' = store
    BY <2>1, <2>2
  <2>3. CASE Commit
    BY <2>1, <2>3 DEF Commit, Goes, IInv, RowsKeep
  <2>4. ASSUME NEW j \in Ids, Rate(j)
        PROVE  /\ i \in DOMAIN store'
               /\ store[i].sources \ brought[i] \subseteq store'[i].sources
               /\ store[i].rated <= store'[i].rated
    <3>1. store[j].rated <= ledger[j] /\ ledger[j] \in Nat /\ store[j].rated \in Nat
      BY <2>4, RateTyped DEF IInv, Sound, TypeOK, IsStore, Row
    <3>2. QED
      BY <2>1, <2>4, <3>1, RateTyped
  <2>5. CASE ApplyEvidence
    BY <2>1, <2>5, ApplyTyped
  <2>6. CASE UNCHANGED store
    BY <2>2, <2>6
  <2>7. Next => \/ UNCHANGED store \/ Commit \/ ApplyEvidence \/ \E j \in Ids : Rate(j)
    BY DEF Next, StageStep, RowStep, Load, Begin, Skip, Update, Insert, RefuseRow, Takes,
           Rollback, CheckIntegrity, WriteRecord, WriteTierReceipt, WriteGateReceipt, WriteRefused, Exit, Crash, NewInput,
           ReadEvidence, db, others
  <2>8. QED
    BY <2>3, <2>4, <2>5, <2>6, <2>7
<1>2. QED
  BY Inductive, <1>1, PTL DEF Spec, OthersKept

=============================================================================
